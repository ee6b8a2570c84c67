----------------------------- MODULE PhoneProofs ------------------------------
(***************************************************************************)
(* The phone, for any instance: the session it keeps, and its connection   *)
(* to the backend, which share no variable; and the six components that    *)
(* MCOperations puts beside each other.                                    *)
(***************************************************************************)
EXTENDS OperationsProofs, MCOperations, TLAPS

--------------------------------------------------------------------------------
(***************************************************************************)
(* The phone's session survives failed writes, kills and overlapping calls *)
(* for any number of them.  What the store holds is known from the step    *)
(* the mutation is at; what the screen shows, from which calls are still   *)
(* in flight: only the last to have come may be current.                   *)
(***************************************************************************)

Store == [control: Control, a: Records \cup {"none"}, b: Records \cup {"none"},
          legacy: {"none", "former"}]
SessionRow == [record: Records \cup {"none"}, shown: Nat, generation: Nat]
CallRow == [step: {"none", "leaving", "queued", "forgetting", "over"},
            generation: Nat, previous: Records \cup {"none"}]
MutationRow == [of: Callers \cup {"none"}, step: Steps, previous: Control,
                fails: {"none", "failed", "quarantined"}]
StoreKeys == {"control", "a", "b", "legacy"}

\* A control record is one of the three the code writes.
WellFormed(control) ==
    \/ control = NoControl
    \/ control.status = "active" /\ control.slot \in {"a", "b"} /\ control.saved \in Records
    \/ control.status = "cleared"

InFlight(c) == calls[c].step \in {"leaving", "queued", "forgetting"}

\* Of the calls in flight each has a generation of its own, and only the last to
\* have come can have the session's.
CallsInOrder ==
    /\ \A c \in Callers : InFlight(c) => calls[c].generation <= session.generation
    /\ \A c, d \in Callers :
          InFlight(c) /\ InFlight(d) /\ c # d => calls[c].generation # calls[d].generation
    /\ \A c \in Callers : calls[c].step = "leaving" => c \in Exits
    /\ \A c \in Callers : calls[c].step = "forgetting" => c \in Logins

\* A call waits for its mutation once.
TurnsAreQueued ==
    /\ \A i \in 1..Len(turns) : calls[turns[i]].step = "queued"
    /\ \A i, j \in 1..Len(turns) : turns[i] = turns[j] => i = j

JobIsQueued ==
    /\ job.of = "none" => job = Idle
    /\ job.of # "none" => /\ calls[job.of].step = "queued"
                          /\ \A i \in 1..Len(turns) : turns[i] # job.of

\* The mutation of the start comes before all others.
StartIsFirst ==
    /\ calls["start"].step \in {"queued", "over"}
    /\ calls["start"].step = "queued" =>
          \/ job.of = "start"
          \/ job.of = "none" /\ turns # <<>> /\ turns[1] = "start"

Known(heard) == heard # "unknown"
Kept(s, heard) == Known(heard) => Loads(s) = heard
Emptied(s) == s.control = NoControl => s.legacy = "none"
SaveSteps == {"read", "authority", "slot", "undo_slot", "verify", "last_tombstone", "control",
              "restore", "tombstone", "cleanup", "end"}
StartSteps == {"read", "cleanup_all", "slot", "bootstrap", "migrate", "cleanup_slot",
               "control", "landed", "undo", "redo", "cleanup", "end"}

\* What the store holds while a session is saved: until its control record is written
\* a restart loads what it would have loaded, and after a failure again.
SaveHolds(s, j, heard, r) ==
    /\ j.step \in SaveSteps
    /\ Known(heard) => Emptied(s)
    /\ j.step \in {"read", "authority", "slot", "control"} => j.fails = "none"
    /\ j.step \in {"undo_slot", "verify", "restore"} => j.fails = "failed"
    /\ j.step \in {"last_tombstone", "tombstone"} => j.fails = "quarantined"
    /\ j.step = "cleanup" => j.fails # "none"
    /\ j.step \in {"read", "authority", "slot", "undo_slot", "verify", "control"} => Kept(s, heard)
    /\ j.step = "authority" => s.control = NoControl
    /\ j.step \in {"slot", "undo_slot", "verify", "control"} =>
          s.control = j.previous /\ s.control # NoControl
    /\ j.step \in {"control", "restore"} => s[Target(j.previous)] = r
    /\ j.step \in {"restore", "cleanup", "tombstone"} => j.previous # NoControl
    /\ j.step = "restore" =>
          /\ s.control \in {j.previous, Active(j.previous.generation + 1, Target(j.previous), r)}
          /\ Kept([s EXCEPT !.control = j.previous], heard)
    /\ j.step \in {"cleanup", "end"} /\ j.fails = "failed" => Kept(s, heard)
    /\ j.step = "cleanup" /\ j.fails = "failed" => s.control = j.previous
    /\ j.step = "end" /\ j.fails = "none" => Loads(s) = r

\* Until the tombstone is written a restart loads what it would have loaded.
ClearHolds(s, j, heard) ==
    /\ j.step \in {"read", "tombstone", "cleanup", "end"}
    /\ j.step \in {"read", "tombstone", "cleanup"} => j.fails = "none"
    /\ j.fails # "quarantined"
    /\ j.step \in {"read", "tombstone"} => Kept(s, heard)
    /\ j.step = "cleanup" \/ (j.step = "end" /\ j.fails = "none") => s.control.status = "cleared"
    /\ j.step = "end" => Kept(s, heard) \/ s.control.status = "cleared"

\* A migration leaves the former session the one that a restart loads.
StartHolds(s, j, heard) ==
    /\ j.step \in StartSteps
    /\ j.fails # "quarantined" => Kept(s, heard)
    /\ j.step \notin {"cleanup_slot", "end"} => j.fails = "none"
    /\ j.step = "cleanup_slot" => j.fails = "failed"
    /\ j.step = "cleanup_all" => s.control.status = "cleared"
    /\ j.step = "slot" => s.control.status = "active"
    /\ j.step = "bootstrap" => s.control = NoControl /\ s.legacy = "none" /\ s.a # "none"
    /\ j.step \in {"migrate", "cleanup_slot"} => s.control = NoControl /\ s.legacy = "former"
    /\ j.step = "control" => s.control = NoControl /\ s.legacy = "former" /\ s.a = "former"
    /\ j.step \in {"landed", "undo", "redo"} =>
          s.control \in {NoControl, Migrated} /\ s.legacy = "former" /\ s.a = "former"
    /\ j.step = "cleanup" => s.control.status = "active" /\ Loads(s) # "broken"
    /\ j.step = "end" /\ j.fails = "none" => Loads(s) # "broken" /\ Emptied(s)

StoreFits ==
    /\ WellFormed(store.control) /\ WellFormed(job.previous)
    /\ job.of = "none" => Kept(store, settled)
    /\ Known(settled) /\ calls["start"].step = "over" => Emptied(store)
    /\ job.of \in Logins => SaveHolds(store, job, settled, job.of)
    /\ job.of \in Exits => ClearHolds(store, job, settled)
    /\ job.of = "start" => StartHolds(store, job, settled)

\* The screen shows what was settled, or a call in flight will put it right, or say
\* that it strayed.
SessionFollows ==
    /\ Known(settled) /\ ~strayed /\ calls["start"].step = "over" =>
          \/ session.record = settled
          \/ \E c \in Callers : calls[c].step = "forgetting"
          \/ \E x \in Exits : InFlight(x)
    /\ \A r \in Logins :
          calls[r].step = "forgetting" /\ Current(r) /\ Known(settled) /\ ~strayed => settled = r

PhoneInv ==
    /\ PhoneTypeOK /\ CallsInOrder /\ TurnsAreQueued /\ JobIsQueued /\ StartIsFirst
    /\ StoreFits /\ SessionFollows

-----------------------------------------------------------------------------
(* Constants and rows *)

\* The assumption, in the form the steps below use it.
LEMMA PhoneConstants ==
    /\ MaxStoreFaults \in Nat /\ MaxKills \in Nat
    /\ "start" \in Callers /\ "start" \notin Logins /\ "start" \notin Exits
    /\ "none" \notin Callers /\ "none" \notin Records
    /\ "broken" \notin Records /\ "unknown" # "none"
    /\ Logins \cap Exits = {} /\ Logins \subseteq Callers /\ Exits \subseteq Callers
    /\ Logins \subseteq Records /\ "former" \in Records
    /\ \A c \in Callers : c \in Logins \/ c \in Exits \/ c = "start"
BY PhoneSessionAssumption DEF Callers, Records

\* The columns of the variables, by name.
LEMMA PhoneColumns ==
    ASSUME PhoneTypeOK
    PROVE  /\ store \in Store /\ session \in SessionRow /\ session.shown <= session.generation
           /\ calls \in [Callers -> CallRow] /\ turns \in Seq(Callers) /\ job \in MutationRow
           /\ settled \in Records \cup {"none", "unknown"} /\ strayed \in BOOLEAN
           /\ store_faults \in 0..MaxStoreFaults /\ kills \in 0..MaxKills
BY DEF PhoneTypeOK, Store, SessionRow, CallRow, MutationRow

\* The control records that the code writes.
LEMMA ControlRows ==
    /\ NoControl \in Control /\ WellFormed(NoControl)
    /\ NoControl.status = "none" /\ NoControl.generation = 0
    /\ \A n \in Nat :
          /\ Cleared(n) \in Control /\ WellFormed(Cleared(n))
          /\ Cleared(n).status = "cleared"
          /\ \A slot \in {"a", "b"}, r \in Records :
                /\ Active(n, slot, r) \in Control /\ WellFormed(Active(n, slot, r))
                /\ Active(n, slot, r).status = "active" /\ Active(n, slot, r).slot = slot
                /\ Active(n, slot, r).saved = r
BY DEF NoControl, Control, Cleared, Active, WellFormed

\* A well-formed record without a status is the absent one.
LEMMA StatusTells ==
    ASSUME NEW control \in Control, WellFormed(control)
    PROVE  /\ control.generation \in Nat
           /\ control.status = "none" <=> control = NoControl
           /\ control.status = "active" => control.slot \in {"a", "b"} /\ control.saved \in Records
           /\ control.status \in {"none", "active", "cleared"}
           /\ Target(control) \in {"a", "b"}
           /\ control.status = "active" => Target(control) # control.slot
BY DEF Control, WellFormed, NoControl, Target

\* A new control record leaves the slots alone.
LEMMA ControlIsWritten ==
    ASSUME NEW s \in Store, NEW x \in Control, NEW t, t = [s EXCEPT !.control = x]
    PROVE  /\ t \in Store /\ t.control = x
           /\ t.a = s.a /\ t.b = s.b /\ t.legacy = s.legacy
BY DEF Store

\* A clean-up takes what it is asked to, and never the control record.
LEMMA CleanedUp ==
    ASSUME NEW s \in Store, NEW keys \in SUBSET Keys, NEW t, t = Without(s, keys)
    PROVE  /\ t \in Store /\ t.control = s.control
           /\ t.a = IF "a" \in keys THEN "none" ELSE s.a
           /\ t.b = IF "b" \in keys THEN "none" ELSE s.b
           /\ t.legacy = IF "legacy" \in keys THEN "none" ELSE s.legacy
<1>1. DOMAIN s = StoreKeys
  BY DEF Store, StoreKeys
<1>2. t = [k \in StoreKeys |-> IF k \in keys THEN "none" ELSE s[k]]
  BY <1>1 DEF Without
<1>3. "control" \notin keys
  BY DEF Keys
<1>4. /\ t.control = s.control
      /\ t.a = IF "a" \in keys THEN "none" ELSE s.a
      /\ t.b = IF "b" \in keys THEN "none" ELSE s.b
      /\ t.legacy = IF "legacy" \in keys THEN "none" ELSE s.legacy
  BY <1>2, <1>3 DEF StoreKeys
<1>5. t = [control |-> t.control, a |-> t.a, b |-> t.b, legacy |-> t.legacy]
  BY <1>2 DEF StoreKeys
<1>6. t \in Store
  BY <1>4, <1>5 DEF Store
<1> QED
  BY <1>4, <1>6

\* What a start would load depends on the fields it reads.
LEMMA LoadsByFields ==
    ASSUME NEW s \in Store, WellFormed(s.control)
    PROVE  /\ Loads(s) \in Records \cup {"none", "broken"}
           /\ s.control.status = "cleared" => Loads(s) = "none"
           /\ s.control = NoControl => Loads(s) = IF s.legacy # "none" THEN s.legacy ELSE s.a
           /\ s.control.status = "active" /\ s.control.slot = "a" =>
                 Loads(s) = IF s.a = s.control.saved THEN s.a ELSE "broken"
           /\ s.control.status = "active" /\ s.control.slot = "b" =>
                 Loads(s) = IF s.b = s.control.saved THEN s.b ELSE "broken"
BY PhoneConstants, StatusTells, ControlRows DEF Store, Loads, Records

\* The mutation's next step, and no other field, is what these change.
LEMMA StepsAreTaken ==
    ASSUME job \in MutationRow, NEW step \in Steps
    PROVE  /\ To(step) \in MutationRow /\ To(step).of = job.of /\ To(step).step = step
           /\ To(step).previous = job.previous /\ To(step).fails = job.fails
           /\ Failing(step) \in MutationRow /\ Failing(step).of = job.of
           /\ Failing(step).step = step /\ Failing(step).previous = job.previous
           /\ Failing(step).fails = "failed"
           /\ Quarantine(step) \in MutationRow /\ Quarantine(step).of = job.of
           /\ Quarantine(step).step = step /\ Quarantine(step).previous = job.previous
           /\ Quarantine(step).fails = "quarantined"
BY DEF To, Failing, Quarantine, MutationRow

\* What a write leaves: done, or failed with its effect or without.
LEMMA WriteOutcome ==
    ASSUME NEW new, NEW next, NEW otherwise, Writes(new, next, otherwise),
           store_faults \in 0..MaxStoreFaults
    PROVE  /\ (store' = new /\ job' = next) \/ (store' \in {store, new} /\ job' = otherwise)
           /\ store_faults' \in 0..MaxStoreFaults
<1>1. \/ store' = new /\ job' = next /\ UNCHANGED store_faults
      \/ MayFail /\ store' \in {store, new} /\ job' = otherwise
  BY DEF Writes
<1>2. CASE store' = new /\ job' = next /\ UNCHANGED store_faults
  BY <1>2
<1>3. CASE MayFail /\ store' \in {store, new} /\ job' = otherwise
  <2>1. store_faults' \in 0..MaxStoreFaults
    BY <1>3, PhoneConstants DEF MayFail
  <2> QED
    BY <1>3, <2>1
<1> QED
  BY <1>1, <1>2, <1>3

\* A read that fails has read nothing.
LEMMA ReadOutcome ==
    ASSUME NEW next, NEW otherwise, Reads(next, otherwise),
           store_faults \in 0..MaxStoreFaults
    PROVE  /\ store' = store /\ job' \in {next, otherwise}
           /\ store_faults' \in 0..MaxStoreFaults
BY PhoneConstants DEF Reads, MayFail

\* A clean-up goes on whatever it could delete.
LEMMA CleanUpOutcome ==
    ASSUME NEW keys \in SUBSET Keys, NEW next, CleansUp(keys, next),
           store_faults \in 0..MaxStoreFaults
    PROVE  /\ job' = next
           /\ \E some \in SUBSET keys : store' = Without(store, some)
           /\ store_faults' \in 0..MaxStoreFaults
BY PhoneConstants DEF CleansUp, MayFail

-----------------------------------------------------------------------------
(* Saving *)

\* The other slot is written or emptied: what counts is not touched.
LEMMA SlotsApart ==
    ASSUME NEW s \in Store, NEW t \in Store, WellFormed(s.control), s.control # NoControl,
           t.control = s.control,
           \/ Target(s.control) = "a" /\ t.b = s.b
           \/ Target(s.control) = "b" /\ t.a = s.a
    PROVE  Loads(t) = Loads(s)
BY LoadsByFields, StatusTells, ControlRows DEF WellFormed, Store

\* Each step of save keeps what the store holds.
LEMMA SaveKeeps ==
    ASSUME NEW r \in Logins, save(r), SaveHolds(store, job, settled, r), store \in Store,
           job \in MutationRow, store_faults \in 0..MaxStoreFaults,
           WellFormed(store.control), WellFormed(job.previous)
    PROVE  /\ store' \in Store /\ job' \in MutationRow /\ store_faults' \in 0..MaxStoreFaults
           /\ job'.of = r
           /\ WellFormed(store'.control) /\ WellFormed(job'.previous)
           /\ SaveHolds(store', job', settled, r)
           /\ store.control.status = "cleared" => Loads(store') \in {"none", r}
           /\ job.of = r
<1>0. job.of = r /\ r \in Records /\ store.control \in Control /\ job.previous \in Control
      /\ job.previous.generation \in Nat
  BY PhoneConstants DEF save, Store, MutationRow, Control
<1>1. CASE AtStep("read") /\ Reads([job EXCEPT !.previous = store.control,
                                          !.step = IF store.control = NoControl THEN "authority" ELSE "slot"],
                              Failing("end"))
  <2> DEFINE next == [job EXCEPT !.previous = store.control,
                                 !.step = IF store.control = NoControl THEN "authority" ELSE "slot"]
  <2>1. /\ store' = store /\ job' \in {next, Failing("end")}
        /\ store_faults' \in 0..MaxStoreFaults
    BY <1>1, ReadOutcome
  <2>2. CASE job' = next
    <3>1. /\ job' \in MutationRow /\ job'.of = r /\ job'.previous = store.control
          /\ job'.step = IF store.control = NoControl THEN "authority" ELSE "slot"
          /\ job'.fails = job.fails
      BY <2>2, <1>0 DEF MutationRow, Steps
    <3> QED
      BY <2>1, <3>1, <1>0, <1>1, LoadsByFields DEF SaveHolds, AtStep, SaveSteps
  <2>3. CASE job' = Failing("end")
    <3>1. /\ job' \in MutationRow /\ job'.of = r /\ job'.step = "end" /\ job'.fails = "failed"
          /\ job'.previous = job.previous
      BY <2>3, <1>0, StepsAreTaken DEF Steps
    <3> QED
      BY <2>1, <3>1, <1>0, <1>1, LoadsByFields DEF SaveHolds, AtStep, SaveSteps
  <2> QED
    BY <2>1, <2>2, <2>3
<1>2. CASE AtStep("authority") /\ FirstAuthority
  <2> DEFINE control == IF store.a # "none" THEN Active(1, "a", store.a) ELSE Cleared(1)
             next == [job EXCEPT !.step = "slot", !.previous = control]
  <2>1. PICK new : new = [store EXCEPT !.control = control]
    OBVIOUS
  <2>2. /\ (store' = new /\ job' = next) \/ (store' \in {store, new} /\ job' = Failing("end"))
        /\ store_faults' \in 0..MaxStoreFaults
    BY <1>2, <2>1, WriteOutcome DEF FirstAuthority
  <2>3. /\ control \in Control /\ WellFormed(control) /\ control # NoControl
        /\ store.a = "none" => control.status = "cleared"
        /\ store.a # "none" => /\ control.status = "active" /\ control.slot = "a"
                               /\ control.saved = store.a
    BY ControlRows DEF Store
  <2>4. /\ next \in MutationRow /\ next.of = r /\ next.step = "slot" /\ next.previous = control
        /\ next.fails = job.fails
    BY <2>3, <1>0 DEF MutationRow, Steps
  <2> HIDE DEF control, next
  <2>5. /\ new \in Store /\ new.control = control
        /\ new.a = store.a /\ new.b = store.b /\ new.legacy = store.legacy
    BY <2>1, <2>3, ControlIsWritten
  <2>6. /\ store.control = NoControl /\ job.fails = "none"
        /\ Known(settled) => store.legacy = "none" /\ Loads(store) = settled
    BY <1>2 DEF SaveHolds, AtStep, Kept, Emptied
  <2>7. Known(settled) => Loads(new) = settled
    BY <2>3, <2>5, <2>6, LoadsByFields
  <2>8. store.control.status = "none"
    BY <2>6, ControlRows
  <2>9. CASE store' = new /\ job' = next
    BY <2>9, <2>2, <2>3, <2>4, <2>5, <2>6, <2>7, <2>8, <1>0
       DEF SaveHolds, SaveSteps, Kept, Emptied
  <2>10. CASE store' \in {store, new} /\ job' = Failing("end")
    BY <2>10, <2>2, <2>3, <2>5, <2>6, <2>7, <2>8, <1>0, StepsAreTaken
       DEF SaveHolds, SaveSteps, Steps, Kept, Emptied
  <2> QED
    BY <2>2, <2>9, <2>10
<1>3. CASE AtStep("slot") /\ Writes([store EXCEPT ![Target(job.previous)] = r],
                               To("control"), Failing("undo_slot"))
  <2>1. PICK new : new = [store EXCEPT ![Target(job.previous)] = r]
    OBVIOUS
  <2>2. /\ (store' = new /\ job' = To("control"))
             \/ (store' \in {store, new} /\ job' = Failing("undo_slot"))
        /\ store_faults' \in 0..MaxStoreFaults
    BY <1>3, <2>1, WriteOutcome
  <2>3. PICK k \in {"a", "b"} : k = Target(job.previous)
    BY <1>0, StatusTells
  <2>4. store.control = job.previous /\ store.control # NoControl
    BY <1>3 DEF SaveHolds, AtStep
  <2>5. /\ new \in Store /\ new.control = store.control /\ new.legacy = store.legacy
        /\ new[k] = r
        /\ new.a = (IF k = "a" THEN r ELSE store.a)
        /\ new.b = (IF k = "b" THEN r ELSE store.b)
    <3>1. CASE k = "a"
      BY <1>0, <2>1, <2>3, <3>1 DEF Store
    <3>2. CASE k = "b"
      BY <1>0, <2>1, <2>3, <3>2 DEF Store
    <3> QED
      BY <3>1, <3>2
  <2>6. Loads(new) = Loads(store)
    BY <2>3, <2>4, <2>5, SlotsApart
  <2>7. CASE store' = new /\ job' = To("control")
    BY <2>7, <2>2, <2>3, <2>4, <2>5, <2>6, <1>0, <1>3, StepsAreTaken, LoadsByFields
       DEF SaveHolds, AtStep, SaveSteps, Steps, Kept, Emptied
  <2>8. CASE store' \in {store, new} /\ job' = Failing("undo_slot")
    BY <2>8, <2>2, <2>3, <2>4, <2>5, <2>6, <1>0, <1>3, StepsAreTaken, LoadsByFields
       DEF SaveHolds, AtStep, SaveSteps, Steps, Kept, Emptied
  <2> QED
    BY <2>2, <2>7, <2>8
<1>4. CASE AtStep("undo_slot") /\ Writes(Without(store, {Target(job.previous)}), To("end"), To("verify"))
  <2>1. PICK k \in {"a", "b"} : k = Target(job.previous)
    BY <1>0, StatusTells
  <2>2. PICK new : new = Without(store, {k})
    OBVIOUS
  <2>3. /\ (store' = new /\ job' = To("end")) \/ (store' \in {store, new} /\ job' = To("verify"))
        /\ store_faults' \in 0..MaxStoreFaults
    BY <1>4, <2>1, <2>2, WriteOutcome
  <2>4. store.control = job.previous /\ store.control # NoControl
    BY <1>4 DEF SaveHolds, AtStep
  <2>5. {k} \in SUBSET Keys
    BY <2>1 DEF Keys
  <2>6. /\ new \in Store /\ new.control = store.control /\ new.legacy = store.legacy
        /\ k = "a" => new.b = store.b
        /\ k = "b" => new.a = store.a
    BY <2>1, <2>2, <2>5, CleanedUp
  <2>7. Loads(new) = Loads(store)
    BY <2>1, <2>4, <2>6, SlotsApart
  <2>8. CASE store' = new /\ job' = To("end")
    BY <2>8, <2>3, <2>4, <2>6, <2>7, <1>0, <1>4, StepsAreTaken, LoadsByFields
       DEF SaveHolds, AtStep, SaveSteps, Steps, Kept, Emptied
  <2>9. CASE store' \in {store, new} /\ job' = To("verify")
    BY <2>9, <2>3, <2>4, <2>6, <2>7, <1>0, <1>4, StepsAreTaken, LoadsByFields
       DEF SaveHolds, AtStep, SaveSteps, Steps, Kept, Emptied
  <2> QED
    BY <2>3, <2>8, <2>9
<1>5. CASE AtStep("verify") /\ Reads(To("end"), Quarantine("last_tombstone"))
  <2>1. /\ store' = store /\ job' \in {To("end"), Quarantine("last_tombstone")}
        /\ store_faults' \in 0..MaxStoreFaults
    BY <1>5, ReadOutcome
  <2> QED
    BY <2>1, <1>0, <1>5, StepsAreTaken, LoadsByFields
       DEF SaveHolds, AtStep, SaveSteps, Steps, Kept, Emptied
<1>6. CASE \/ AtStep("last_tombstone") /\ Writes([store EXCEPT !.control = Tombstone], To("end"), To("end"))
           \/ AtStep("tombstone") /\ Writes([store EXCEPT !.control = Tombstone], To("cleanup"), To("cleanup"))
  <2>1. PICK new : new = [store EXCEPT !.control = Tombstone]
    OBVIOUS
  <2>2. /\ store' \in {store, new}
        /\ job' = IF job.step = "last_tombstone" THEN To("end") ELSE To("cleanup")
        /\ store_faults' \in 0..MaxStoreFaults
    BY <1>6, <2>1, WriteOutcome DEF AtStep
  <2>3. Tombstone \in Control /\ WellFormed(Tombstone) /\ Tombstone.status = "cleared"
    BY <1>0, ControlRows DEF Tombstone
  <2>4. /\ new \in Store /\ new.control = Tombstone
        /\ new.a = store.a /\ new.b = store.b /\ new.legacy = store.legacy
    BY <2>1, <2>3, ControlIsWritten
  <2>5. Tombstone # NoControl /\ Loads(new) = "none"
    BY <2>3, <2>4, LoadsByFields, ControlRows
  <2> QED
    BY <2>2, <2>3, <2>4, <2>5, <1>0, <1>6, StepsAreTaken, LoadsByFields
       DEF SaveHolds, AtStep, SaveSteps, Steps, Kept, Emptied
<1>7. CASE AtStep("control") /\ Writes([store EXCEPT !.control = Active(job.previous.generation + 1,
                                                                   Target(job.previous), r)],
                                  To("end"), Failing("restore"))
  <2>1. PICK k \in {"a", "b"} : k = Target(job.previous)
    BY <1>0, StatusTells
  <2>2. PICK control : control = Active(job.previous.generation + 1, k, r)
    OBVIOUS
  <2>3. PICK new : new = [store EXCEPT !.control = control]
    OBVIOUS
  <2>4. /\ (store' = new /\ job' = To("end"))
             \/ (store' \in {store, new} /\ job' = Failing("restore"))
        /\ store_faults' \in 0..MaxStoreFaults
    BY <1>7, <2>1, <2>2, <2>3, WriteOutcome
  <2>5. /\ control \in Control /\ WellFormed(control) /\ control.status = "active"
        /\ control.slot = k /\ control.saved = r
    BY <1>0, <2>1, <2>2, ControlRows
  <2>6. /\ new \in Store /\ new.control = control
        /\ new.a = store.a /\ new.b = store.b /\ new.legacy = store.legacy
    BY <2>3, <2>5, ControlIsWritten
  <2>7. store.control = job.previous /\ store.control # NoControl /\ store[k] = r
        /\ Kept(store, settled)
    BY <1>7, <2>1 DEF SaveHolds, AtStep
  <2>8. /\ Loads(new) = r
        /\ control # NoControl
        /\ new[k] = r
    BY <2>1, <2>5, <2>6, <2>7, LoadsByFields, ControlRows
  <2>9. [new EXCEPT !.control = job.previous] = store /\ [store EXCEPT !.control = job.previous] = store
    BY <2>3, <2>7 DEF Store
  <2>10. CASE store' = new /\ job' = To("end")
    BY <2>10, <2>4, <2>5, <2>6, <2>7, <2>8, <1>0, <1>7, StepsAreTaken
       DEF SaveHolds, AtStep, SaveSteps, Steps, Emptied
  <2>11. CASE store' = store /\ job' = Failing("restore")
    BY <2>11, <2>1, <2>4, <2>7, <2>9, <1>0, <1>7, StepsAreTaken, LoadsByFields
       DEF SaveHolds, AtStep, SaveSteps, Steps, Emptied
  <2>12. CASE store' = new /\ job' = Failing("restore")
    BY <2>12, <2>1, <2>2, <2>4, <2>5, <2>6, <2>7, <2>8, <2>9, <1>0, <1>7, StepsAreTaken
       DEF SaveHolds, AtStep, SaveSteps, Steps, Emptied
  <2> QED
    BY <2>4, <2>10, <2>11, <2>12
<1>8. CASE AtStep("restore") /\ Writes([store EXCEPT !.control = job.previous],
                                  To("cleanup"), Quarantine("tombstone"))
  <2>1. PICK new : new = [store EXCEPT !.control = job.previous]
    OBVIOUS
  <2>2. /\ (store' = new /\ job' = To("cleanup"))
             \/ (store' \in {store, new} /\ job' = Quarantine("tombstone"))
        /\ store_faults' \in 0..MaxStoreFaults
    BY <1>8, <2>1, WriteOutcome
  <2>3. /\ new \in Store /\ new.control = job.previous
        /\ new.a = store.a /\ new.b = store.b /\ new.legacy = store.legacy
    BY <2>1, <1>0, ControlIsWritten
  <2>4. /\ job.previous # NoControl /\ Kept(new, settled) /\ job.fails = "failed"
        /\ Known(settled) => Emptied(store)
        /\ store.control \in {job.previous, Active(job.previous.generation + 1, Target(job.previous), r)}
    BY <1>8, <2>1 DEF SaveHolds, AtStep
  <2>5. store.control.status = "cleared" => store.control = job.previous
    BY <2>4, <1>0, StatusTells, ControlRows
  <2>6. store.control.status = "cleared" => Loads(new) = "none" /\ Loads(store) = "none"
    BY <2>3, <2>5, LoadsByFields
  <2>7. CASE store' = new /\ job' = To("cleanup")
    BY <2>7, <2>2, <2>3, <2>4, <2>6, <1>0, <1>8, StepsAreTaken
       DEF SaveHolds, AtStep, SaveSteps, Steps, Emptied
  <2>8. CASE store' \in {store, new} /\ job' = Quarantine("tombstone")
    BY <2>8, <2>2, <2>3, <2>4, <2>6, <1>0, <1>8, StepsAreTaken
       DEF SaveHolds, AtStep, SaveSteps, Steps, Emptied
  <2> QED
    BY <2>2, <2>7, <2>8
<1>9. CASE AtStep("cleanup") /\ CleansUp({Target(job.previous)}, To("end"))
  <2>1. PICK k \in {"a", "b"} : k = Target(job.previous)
    BY <1>0, StatusTells
  <2>2. {k} \in SUBSET Keys
    BY <2>1 DEF Keys
  <2>3. /\ job' = To("end") /\ store_faults' \in 0..MaxStoreFaults
        /\ \E some \in SUBSET {k} : store' = Without(store, some)
    BY <1>9, <2>1, <2>2, CleanUpOutcome
  <2>4. PICK some \in SUBSET {k} : store' = Without(store, some)
    BY <2>3
  <2>5. PICK new : new = Without(store, some)
    OBVIOUS
  <2>6. /\ new \in Store /\ new.control = store.control /\ new.legacy = store.legacy
        /\ k = "a" => new.b = store.b
        /\ k = "b" => new.a = store.a
    <3>1. some \in SUBSET Keys
      BY <2>2, <2>4
    <3> QED
      BY <2>1, <2>4, <2>5, <3>1, CleanedUp
  <2>7. job.fails = "failed" => /\ Kept(store, settled) /\ store.control = job.previous
                                /\ store.control # NoControl
    BY <1>9 DEF SaveHolds, AtStep
  <2>8. job.fails = "failed" => Loads(new) = Loads(store)
    BY <2>1, <2>6, <2>7, SlotsApart
  <2>9. store.control.status = "cleared" => Loads(new) = "none"
    BY <2>6, LoadsByFields
  <2> QED
    BY <2>3, <2>4, <2>5, <2>6, <2>7, <2>8, <2>9, <1>0, <1>9, StepsAreTaken
       DEF SaveHolds, AtStep, SaveSteps, Steps, Kept, Emptied
<1> QED
  BY <1>1, <1>2, <1>3, <1>4, <1>5, <1>6, <1>7, <1>8, <1>9 DEF save

-----------------------------------------------------------------------------
(* Clearing and the start *)

\* Each step of clear keeps what the store holds.
LEMMA ClearKeeps ==
    ASSUME NEW x \in Exits, clear(x), ClearHolds(store, job, settled), store \in Store,
           job \in MutationRow, store_faults \in 0..MaxStoreFaults,
           WellFormed(store.control), WellFormed(job.previous)
    PROVE  /\ store' \in Store /\ job' \in MutationRow /\ store_faults' \in 0..MaxStoreFaults
           /\ job.of = x /\ job'.of = x
           /\ WellFormed(store'.control) /\ WellFormed(job'.previous)
           /\ ClearHolds(store', job', settled)
           /\ Emptied(store) => Emptied(store')
           /\ store.control.status = "cleared" => Loads(store') = "none"
<1>0. job.of = x /\ store.control \in Control /\ job.previous \in Control
      /\ job.previous.generation \in Nat
  BY PhoneConstants DEF clear, Store, MutationRow, Control
<1>1. CASE AtStep("read") /\ Reads([job EXCEPT !.previous = store.control, !.step = "tombstone"], Failing("end"))
  <2>1. PICK next : next = [job EXCEPT !.previous = store.control, !.step = "tombstone"]
    OBVIOUS
  <2>2. /\ store' = store /\ job' \in {next, Failing("end")}
        /\ store_faults' \in 0..MaxStoreFaults
    BY <1>1, <2>1, ReadOutcome
  <2>3. /\ next \in MutationRow /\ next.of = x /\ next.previous = store.control
        /\ next.step = "tombstone" /\ next.fails = job.fails
    BY <2>1, <1>0 DEF MutationRow, Steps
  <2> QED
    BY <2>2, <2>3, <1>0, <1>1, StepsAreTaken, LoadsByFields DEF ClearHolds, AtStep, Steps
<1>2. CASE AtStep("tombstone") /\ Writes([store EXCEPT !.control = Cleared(job.previous.generation + 1)],
                                 To("cleanup"), Failing("end"))
  <2>1. PICK control : control = Cleared(job.previous.generation + 1)
    OBVIOUS
  <2>2. PICK new : new = [store EXCEPT !.control = control]
    OBVIOUS
  <2>3. /\ (store' = new /\ job' = To("cleanup"))
             \/ (store' \in {store, new} /\ job' = Failing("end"))
        /\ store_faults' \in 0..MaxStoreFaults
    BY <1>2, <2>1, <2>2, WriteOutcome
  <2>4. control \in Control /\ WellFormed(control) /\ control.status = "cleared"
    BY <1>0, <2>1, ControlRows
  <2>5. new \in Store /\ new.control = control
    BY <2>2, <2>4, ControlIsWritten
  <2>6. Loads(new) = "none" /\ Emptied(new)
    BY <2>4, <2>5, LoadsByFields, ControlRows DEF Emptied
  <2> QED
    BY <2>3, <2>4, <2>5, <2>6, <1>0, <1>2, StepsAreTaken, LoadsByFields
       DEF ClearHolds, AtStep, Steps, Kept
<1>3. CASE AtStep("cleanup") /\ CleansUp(Keys, To("end"))
  <2>1. /\ job' = To("end") /\ store_faults' \in 0..MaxStoreFaults
        /\ \E some \in SUBSET Keys : store' = Without(store, some)
    BY <1>3, CleanUpOutcome
  <2>2. PICK some \in SUBSET Keys : store' = Without(store, some)
    BY <2>1
  <2>3. PICK new : new = Without(store, some)
    OBVIOUS
  <2>4. /\ new \in Store /\ new.control = store.control
        /\ store.legacy = "none" => new.legacy = "none"
    BY <2>3, CleanedUp
  <2>5. store.control.status = "cleared" => Loads(new) = "none"
    BY <2>4, LoadsByFields
  <2> QED
    BY <2>1, <2>2, <2>3, <2>4, <2>5, <1>0, <1>3, StepsAreTaken
       DEF ClearHolds, AtStep, Steps, Kept, Emptied
<1> QED
  BY <1>1, <1>2, <1>3 DEF clear, ClearSteps

\* Each step of loadOrMigrate keeps what the store holds.
LEMMA StartKeeps ==
    ASSUME loadOrMigrate, StartHolds(store, job, settled), store \in Store,
           job \in MutationRow, store_faults \in 0..MaxStoreFaults,
           WellFormed(store.control), WellFormed(job.previous)
    PROVE  /\ store' \in Store /\ job' \in MutationRow /\ store_faults' \in 0..MaxStoreFaults
           /\ job.of = "start" /\ job'.of = "start"
           /\ WellFormed(store'.control) /\ WellFormed(job'.previous)
           /\ StartHolds(store', job', settled)
           /\ store.control.status = "cleared" => Loads(store') = "none"
<1>0. /\ job.of = "start" /\ store.control \in Control
      /\ store.control.status = "cleared" => Loads(store) = "none"
      /\ store.control.status = "none" <=> store.control = NoControl
      /\ store.control.status \in {"none", "active", "cleared"}
      /\ store.a \in Records \cup {"none"} /\ store.legacy \in {"none", "former"}
  BY LoadsByFields, StatusTells DEF loadOrMigrate, Store
<1>1. Migrated \in Control /\ WellFormed(Migrated) /\ Migrated.status = "active"
      /\ Migrated.slot = "a" /\ Migrated.saved = "former" /\ Migrated # NoControl
  BY ControlRows, PhoneConstants DEF Migrated
<1>2. PICK written : written = [store EXCEPT !.control = Migrated]
  OBVIOUS
<1>3. PICK withdrawn : withdrawn = [store EXCEPT !.control = NoControl]
  OBVIOUS
<1>4. /\ written \in Store /\ written.control = Migrated
      /\ written.a = store.a /\ written.b = store.b /\ written.legacy = store.legacy
      /\ withdrawn \in Store /\ withdrawn.control = NoControl
      /\ withdrawn.a = store.a /\ withdrawn.b = store.b /\ withdrawn.legacy = store.legacy
  BY <1>1, <1>2, <1>3, ControlIsWritten, ControlRows
<1>5. store.legacy = "former" /\ store.a = "former" =>
         Loads(written) = "former" /\ Loads(withdrawn) = "former"
  BY <1>1, <1>4, LoadsByFields, ControlRows
<1>6. /\ store.control = NoControl => Loads(store) = IF store.legacy # "none" THEN store.legacy ELSE store.a
      /\ store.control = Migrated => Loads(store) = IF store.a = "former" THEN store.a ELSE "broken"
  BY <1>1, LoadsByFields
<1>7. CASE AtStep("read") /\ Reads(CASE store.control.status = "cleared" -> To("cleanup_all")
                                [] store.control.status = "active" -> To("slot")
                                [] store.control = NoControl /\ store.legacy # "none" -> To("migrate")
                                [] store.control = NoControl /\ store.legacy = "none" /\ store.a # "none"
                                     -> To("bootstrap")
                                [] OTHER -> To("end"),
                              Failing("end"))
  <2>1. PICK next : next = CASE store.control.status = "cleared" -> To("cleanup_all")
                                [] store.control.status = "active" -> To("slot")
                                [] store.control = NoControl /\ store.legacy # "none" -> To("migrate")
                                [] store.control = NoControl /\ store.legacy = "none" /\ store.a # "none"
                                     -> To("bootstrap")
                                [] OTHER -> To("end")
    OBVIOUS
  <2>2. /\ store' = store /\ job' \in {next, Failing("end")}
        /\ store_faults' \in 0..MaxStoreFaults
    BY <1>7, <2>1, ReadOutcome
  <2>3. \/ store.control.status = "cleared" /\ next = To("cleanup_all")
        \/ store.control.status = "active" /\ next = To("slot")
        \/ store.control = NoControl /\ store.legacy = "former" /\ next = To("migrate")
        \/ store.control = NoControl /\ store.legacy = "none" /\ store.a # "none" /\ next = To("bootstrap")
        \/ store.control = NoControl /\ store.legacy = "none" /\ store.a = "none" /\ next = To("end")
    BY <2>1, <1>0, ControlRows
  <2>4. job.fails = "none" /\ Kept(store, settled)
    BY <1>7 DEF StartHolds, AtStep
  <2>5. CASE job' = next
    BY <2>2, <2>3, <2>4, <2>5, <1>0, <1>6, StepsAreTaken, PhoneConstants
       DEF StartHolds, StartSteps, Steps, Emptied
  <2>6. CASE job' = Failing("end")
    BY <2>2, <2>4, <2>6, <1>0, StepsAreTaken DEF StartHolds, StartSteps, Steps
  <2> QED
    BY <2>2, <2>5, <2>6
<1>8. CASE AtStep("cleanup_all") /\ CleansUp(Keys, To("end"))
  <2>1. /\ job' = To("end") /\ store_faults' \in 0..MaxStoreFaults
        /\ \E some \in SUBSET Keys : store' = Without(store, some)
    BY <1>8, CleanUpOutcome
  <2>2. PICK some \in SUBSET Keys : store' = Without(store, some)
    BY <2>1
  <2>3. PICK new : new = Without(store, some)
    OBVIOUS
  <2>4. /\ new \in Store /\ new.control = store.control
        /\ store.control.status = "cleared" /\ job.fails = "none" /\ Kept(store, settled)
    BY <2>3, <1>8, CleanedUp DEF StartHolds, AtStep
  <2>5. Loads(new) = "none" /\ Loads(store) = "none" /\ new.control # NoControl
    BY <2>4, LoadsByFields, ControlRows
  <2> QED
    BY <2>1, <2>2, <2>3, <2>4, <2>5, <1>0, StepsAreTaken
       DEF StartHolds, StartSteps, Steps, Kept, Emptied
<1>9. CASE AtStep("slot") /\ Reads(IF Loads(store) = "broken" THEN Failing("end") ELSE To("cleanup"),
                              Failing("end"))
  <2>1. /\ store' = store
        /\ job' \in {IF Loads(store) = "broken" THEN Failing("end") ELSE To("cleanup"), Failing("end")}
        /\ store_faults' \in 0..MaxStoreFaults
    BY <1>9, ReadOutcome
  <2> QED
    BY <2>1, <1>0, <1>9, StepsAreTaken DEF StartHolds, StartSteps, Steps, AtStep
<1>10. CASE AtStep("bootstrap") /\ Writes([store EXCEPT !.control = Active(1, "a", store.a)],
                                    To("slot"), Failing("end"))
  <2>1. PICK control : control = Active(1, "a", store.a)
    OBVIOUS
  <2>2. PICK new : new = [store EXCEPT !.control = control]
    OBVIOUS
  <2>3. /\ (store' = new /\ job' = To("slot"))
             \/ (store' \in {store, new} /\ job' = Failing("end"))
        /\ store_faults' \in 0..MaxStoreFaults
    BY <1>10, <2>1, <2>2, WriteOutcome
  <2>4. /\ store.control = NoControl /\ store.legacy = "none" /\ store.a \in Records
        /\ job.fails = "none" /\ Kept(store, settled)
    BY <1>10, <1>0 DEF StartHolds, AtStep
  <2>5. /\ control \in Control /\ WellFormed(control) /\ control.status = "active"
        /\ control.slot = "a" /\ control.saved = store.a
    <3>1. PICK held \in Records, n \in Nat, slot \in {"a", "b"} :
             held = store.a /\ n = 1 /\ slot = "a"
      BY <2>4
    <3>2. control = Active(n, slot, held)
      BY <2>1, <3>1
    <3> QED
      BY <3>1, <3>2, ControlRows
  <2>6. /\ new \in Store /\ new.control = control /\ new.a = store.a /\ new.legacy = store.legacy
    BY <2>2, <2>5, ControlIsWritten
  <2>7. Loads(new) = Loads(store) /\ store.control.status # "cleared"
    BY <2>4, <2>5, <2>6, <1>6, LoadsByFields, ControlRows
  <2> QED
    BY <2>3, <2>4, <2>5, <2>6, <2>7, <1>0, StepsAreTaken
       DEF StartHolds, StartSteps, Steps, Kept
<1>11. CASE AtStep("migrate") /\ Writes([store EXCEPT !.a = "former"], To("control"), Failing("cleanup_slot"))
  <2>1. PICK new : new = [store EXCEPT !.a = "former"]
    OBVIOUS
  <2>2. /\ (store' = new /\ job' = To("control"))
             \/ (store' \in {store, new} /\ job' = Failing("cleanup_slot"))
        /\ store_faults' \in 0..MaxStoreFaults
    BY <1>11, <2>1, WriteOutcome
  <2>3. /\ store.control = NoControl /\ store.legacy = "former"
        /\ job.fails = "none" /\ Kept(store, settled)
    BY <1>11 DEF StartHolds, AtStep
  <2>4. /\ new \in Store /\ new.control = store.control /\ new.a = "former"
        /\ new.legacy = store.legacy
    BY <2>1, PhoneConstants DEF Store
  <2>5. Loads(new) = Loads(store) /\ store.control.status # "cleared"
    BY <2>3, <2>4, <1>6, LoadsByFields, ControlRows
  <2> QED
    BY <2>2, <2>3, <2>4, <2>5, <1>0, StepsAreTaken
       DEF StartHolds, StartSteps, Steps, Kept
<1>12. CASE AtStep("cleanup_slot") /\ CleansUp({"a"}, To("end"))
  <2>1. {"a"} \in SUBSET Keys
    BY DEF Keys
  <2>2. /\ job' = To("end") /\ store_faults' \in 0..MaxStoreFaults
        /\ \E some \in SUBSET {"a"} : store' = Without(store, some)
    BY <1>12, <2>1, CleanUpOutcome
  <2>3. PICK some \in SUBSET {"a"} : store' = Without(store, some)
    BY <2>2
  <2>4. PICK new : new = Without(store, some)
    OBVIOUS
  <2>5. some \in SUBSET Keys /\ "legacy" \notin some
    BY <2>1, <2>3
  <2>6. /\ store.control = NoControl /\ store.legacy = "former"
        /\ job.fails = "failed" /\ Kept(store, settled)
    BY <1>12 DEF StartHolds, AtStep
  <2>7. new \in Store /\ new.control = store.control /\ new.legacy = store.legacy
    BY <2>4, <2>5, CleanedUp
  <2>8. Loads(new) = Loads(store) /\ store.control.status # "cleared"
    BY <2>6, <2>7, <1>6, LoadsByFields, ControlRows
  <2> QED
    BY <2>2, <2>3, <2>4, <2>6, <2>7, <2>8, <1>0, StepsAreTaken
       DEF StartHolds, StartSteps, Steps, Kept
<1>13. CASE AtStep("control") /\ Writes([store EXCEPT !.control = Migrated], To("cleanup"), To("landed"))
  <2>1. /\ (store' = written /\ job' = To("cleanup"))
             \/ (store' \in {store, written} /\ job' = To("landed"))
        /\ store_faults' \in 0..MaxStoreFaults
    BY <1>13, <1>2, WriteOutcome
  <2>2. /\ store.control = NoControl /\ store.legacy = "former" /\ store.a = "former"
        /\ job.fails = "none" /\ Kept(store, settled)
    BY <1>13 DEF StartHolds, AtStep
  <2>3. store.control.status # "cleared" /\ "former" # "broken"
    BY <2>2, ControlRows
  <2> QED
    BY <2>1, <2>2, <2>3, <1>0, <1>1, <1>4, <1>5, <1>6, StepsAreTaken
       DEF StartHolds, StartSteps, Steps, Kept
<1>14. CASE AtStep("landed") /\ Reads(IF store.control = Migrated THEN To("cleanup") ELSE To("undo"), To("undo"))
  <2>1. /\ store' = store
        /\ job' \in {IF store.control = Migrated THEN To("cleanup") ELSE To("undo"), To("undo")}
        /\ store_faults' \in 0..MaxStoreFaults
    BY <1>14, ReadOutcome
  <2>2. /\ store.control \in {NoControl, Migrated} /\ store.legacy = "former" /\ store.a = "former"
        /\ job.fails = "none" /\ Kept(store, settled)
    BY <1>14 DEF StartHolds, AtStep
  <2> QED
    BY <2>1, <2>2, <1>0, <1>1, <1>6, StepsAreTaken DEF StartHolds, StartSteps, Steps
<1>15. CASE \/ AtStep("undo") /\ Writes([store EXCEPT !.control = NoControl], Failing("end"), To("redo"))
            \/ AtStep("redo") /\ Writes([store EXCEPT !.control = Migrated], To("cleanup"), Quarantine("end"))
  <2>1. /\ store.control \in {NoControl, Migrated} /\ store.legacy = "former" /\ store.a = "former"
        /\ job.fails = "none" /\ Kept(store, settled)
    BY <1>15 DEF StartHolds, AtStep
  <2>2. store.control.status # "cleared" /\ "former" # "broken" /\ Loads(store) = "former"
    BY <2>1, <1>1, <1>6, ControlRows
  <2>3. CASE AtStep("undo") /\ Writes([store EXCEPT !.control = NoControl], Failing("end"), To("redo"))
    <3>1. /\ (store' = withdrawn /\ job' = Failing("end"))
               \/ (store' \in {store, withdrawn} /\ job' = To("redo"))
          /\ store_faults' \in 0..MaxStoreFaults
      BY <2>3, <1>3, WriteOutcome
    <3> QED
      BY <3>1, <2>1, <2>2, <1>0, <1>4, <1>5, StepsAreTaken, ControlRows
         DEF StartHolds, StartSteps, Steps, Kept
  <2>4. CASE AtStep("redo") /\ Writes([store EXCEPT !.control = Migrated], To("cleanup"), Quarantine("end"))
    <3>1. /\ (store' = written /\ job' = To("cleanup"))
               \/ (store' \in {store, written} /\ job' = Quarantine("end"))
          /\ store_faults' \in 0..MaxStoreFaults
      BY <2>4, <1>2, WriteOutcome
    <3> QED
      BY <3>1, <2>1, <2>2, <1>0, <1>1, <1>4, <1>5, StepsAreTaken
         DEF StartHolds, StartSteps, Steps, Kept
  <2> QED
    BY <1>15, <2>3, <2>4
<1>16. CASE AtStep("cleanup") /\ CleansUp({"legacy"}, To("end"))
  <2>1. {"legacy"} \in SUBSET Keys
    BY DEF Keys
  <2>2. /\ job' = To("end") /\ store_faults' \in 0..MaxStoreFaults
        /\ \E some \in SUBSET {"legacy"} : store' = Without(store, some)
    BY <1>16, <2>1, CleanUpOutcome
  <2>3. PICK some \in SUBSET {"legacy"} : store' = Without(store, some)
    BY <2>2
  <2>4. PICK new : new = Without(store, some)
    OBVIOUS
  <2>5. some \in SUBSET Keys /\ "a" \notin some /\ "b" \notin some
    BY <2>1, <2>3
  <2>6. /\ store.control.status = "active" /\ Loads(store) # "broken"
        /\ job.fails = "none" /\ Kept(store, settled)
    BY <1>16 DEF StartHolds, AtStep
  <2>7. new \in Store /\ new.control = store.control /\ new.a = store.a /\ new.b = store.b
    BY <2>4, <2>5, CleanedUp
  <2>8. Loads(new) = Loads(store) /\ store.control # NoControl
    BY <2>6, <2>7, <1>0, LoadsByFields, StatusTells, ControlRows
  <2> QED
    BY <2>2, <2>3, <2>4, <2>6, <2>7, <2>8, <1>0, StepsAreTaken
       DEF StartHolds, StartSteps, Steps, Kept, Emptied
<1> QED
  BY <1>7, <1>8, <1>9, <1>10, <1>11, <1>12, <1>13, <1>14, <1>15, <1>16 DEF loadOrMigrate

-----------------------------------------------------------------------------
(* The calls *)

\* One call's row is set, the others stay.
LEMMA CallIsSet ==
    ASSUME calls \in [Callers -> CallRow], NEW c \in Callers, NEW row \in CallRow,
           calls' = [calls EXCEPT ![c] = row]
    PROVE  /\ calls' \in [Callers -> CallRow] /\ calls'[c] = row
           /\ \A d \in Callers : d # c => calls'[d] = calls[d]
OBVIOUS

\* A call joins the turns.
LEMMA TurnsGrow ==
    ASSUME turns \in Seq(Callers), TurnsAreQueued, NEW c \in Callers,
           calls[c].step # "queued", calls'[c].step = "queued",
           \A d \in Callers : d # c => calls'[d] = calls[d],
           turns' = Append(turns, c)
    PROVE  /\ turns' \in Seq(Callers) /\ TurnsAreQueued'
           /\ \A d : d # c /\ (\A i \in 1..Len(turns) : turns[i] # d) =>
                 \A i \in 1..Len(turns') : turns'[i] # d
           /\ turns' # <<>> /\ (turns # <<>> => turns'[1] = turns[1])
<1>1. /\ turns' \in Seq(Callers) /\ Len(turns') = Len(turns) + 1 /\ Len(turns) \in Nat
      /\ turns'[Len(turns) + 1] = c
      /\ \A i \in 1..Len(turns) : turns'[i] = turns[i] /\ turns[i] \in Callers
  OBVIOUS
<1>2. turns # <<>> => Len(turns) > 0
  OBVIOUS
<1>3. \A i \in 1..Len(turns) : turns[i] # c
  BY DEF TurnsAreQueued
<1>4. \A i \in 1..Len(turns') : i \in 1..Len(turns) \/ i = Len(turns) + 1
  BY <1>1
<1>5. TurnsAreQueued'
  BY <1>1, <1>3, <1>4 DEF TurnsAreQueued
<1>6. turns' # <<>> /\ (turns # <<>> => turns'[1] = turns[1])
  BY <1>1, <1>2
<1> QED
  BY <1>1, <1>4, <1>5, <1>6

\* The first of the turns leaves it.
LEMMA TurnsShrink ==
    ASSUME turns \in Seq(Callers), TurnsAreQueued, turns # <<>>,
           calls' = calls, turns' = Tail(turns)
    PROVE  /\ turns' \in Seq(Callers) /\ TurnsAreQueued'
           /\ Head(turns) = turns[1] /\ turns[1] \in Callers /\ calls[turns[1]].step = "queued"
           /\ \A i \in 1..Len(turns') : turns'[i] # turns[1]
<1>1. /\ Len(turns) \in Nat /\ Len(turns) > 0 /\ Head(turns) = turns[1] /\ turns[1] \in Callers
      /\ turns' \in Seq(Callers) /\ Len(turns') = Len(turns) - 1
      /\ \A i \in 1..Len(turns') : turns'[i] = turns[i + 1]
  OBVIOUS
<1>2. \A i \in 1..Len(turns') : i + 1 \in 1..Len(turns) /\ i + 1 # 1 /\ i \in Nat
  BY <1>1
<1>3. 1 \in 1..Len(turns)
  BY <1>1
<1>4. TurnsAreQueued'
  BY <1>1, <1>2 DEF TurnsAreQueued
<1> QED
  BY <1>1, <1>2, <1>3, <1>4 DEF TurnsAreQueued

\* A step of the mutation at work touches nothing but the store.
LEMMA StoreStepKeeps ==
    ASSUME PhoneInv, Step, job.of # "none", job'.of = job.of,
           store' \in Store, job' \in MutationRow, store_faults' \in 0..MaxStoreFaults
    PROVE  /\ PhoneTypeOK' /\ CallsInOrder' /\ TurnsAreQueued' /\ JobIsQueued' /\ StartIsFirst'
           /\ SessionFollows'
<1>1. /\ session' = session /\ calls' = calls /\ turns' = turns /\ settled' = settled
      /\ strayed' = strayed /\ kills' = kills
  BY DEF Step
<1>2. PhoneTypeOK'
  BY <1>1 DEF PhoneInv, PhoneTypeOK, Store, MutationRow
<1>3. CallsInOrder' /\ TurnsAreQueued'
  BY <1>1 DEF PhoneInv, CallsInOrder, TurnsAreQueued, InFlight
<1>4. JobIsQueued' /\ StartIsFirst'
  BY <1>1 DEF PhoneInv, JobIsQueued, StartIsFirst
<1>5. SessionFollows'
  BY <1>1 DEF PhoneInv, SessionFollows, InFlight, Current, Known
<1> QED
  BY <1>2, <1>3, <1>4, <1>5

\* save, clear and loadOrMigrate.
LEMMA SaveStep ==
    ASSUME PhoneInv, NEW r \in Logins, save(r)
    PROVE  /\ PhoneInv'
           /\ store.control.status = "cleared" => Loads(store') \in {"none", r}
           /\ job.of = r
<1>1. job.of = r /\ r \in Callers /\ r # "none" /\ r # "start" /\ r \notin Exits
  BY PhoneConstants DEF save
<1>2. /\ store' \in Store /\ job' \in MutationRow /\ store_faults' \in 0..MaxStoreFaults
      /\ job'.of = r
      /\ WellFormed(store'.control) /\ WellFormed(job'.previous)
      /\ SaveHolds(store', job', settled, r)
      /\ store.control.status = "cleared" => Loads(store') \in {"none", r}
  BY <1>1, SaveKeeps, PhoneColumns DEF PhoneInv, StoreFits
<1>3. Step
  BY DEF save
<1>4. settled' = settled
  BY <1>3 DEF Step
<1>5. StoreFits'
  BY <1>1, <1>2, <1>4 DEF StoreFits, SaveHolds
<1> QED
  BY <1>1, <1>2, <1>3, <1>5, StoreStepKeeps DEF PhoneInv

\* A clear that fails leaves what was there, or nothing.
LEMMA ClearStep ==
    ASSUME PhoneInv, NEW x \in Exits, clear(x)
    PROVE  /\ PhoneInv'
           /\ store.control.status = "cleared" => Loads(store') = "none"
<1>1. job.of = x /\ x \in Callers /\ x # "none" /\ x # "start" /\ x \notin Logins
  BY PhoneConstants DEF clear
<1>2. /\ store' \in Store /\ job' \in MutationRow /\ store_faults' \in 0..MaxStoreFaults
      /\ job'.of = x
      /\ WellFormed(store'.control) /\ WellFormed(job'.previous)
      /\ ClearHolds(store', job', settled)
      /\ Emptied(store) => Emptied(store')
      /\ store.control.status = "cleared" => Loads(store') = "none"
  BY <1>1, ClearKeeps, PhoneColumns DEF PhoneInv, StoreFits
<1>3. Step
  BY DEF clear
<1>4. settled' = settled /\ calls' = calls
  BY <1>3 DEF Step
<1>5. StoreFits'
  BY <1>1, <1>2, <1>4 DEF StoreFits, PhoneInv
<1> QED
  BY <1>1, <1>2, <1>3, <1>5, StoreStepKeeps DEF PhoneInv

\* The start is not over while it loads, and asks nothing of an empty store yet.
LEMMA StartStep ==
    ASSUME PhoneInv, loadOrMigrate
    PROVE  /\ PhoneInv'
           /\ store.control.status = "cleared" => Loads(store') = "none"
<1>1. job.of = "start" /\ "start" # "none" /\ "start" \notin Logins /\ "start" \notin Exits
  BY PhoneConstants DEF loadOrMigrate
<1>2. /\ store' \in Store /\ job' \in MutationRow /\ store_faults' \in 0..MaxStoreFaults
      /\ job'.of = "start"
      /\ WellFormed(store'.control) /\ WellFormed(job'.previous)
      /\ StartHolds(store', job', settled)
      /\ store.control.status = "cleared" => Loads(store') = "none"
  BY <1>1, StartKeeps, PhoneColumns DEF PhoneInv, StoreFits
<1>3. Step
  BY DEF loadOrMigrate
<1>4. settled' = settled /\ calls' = calls
  BY <1>3 DEF Step
<1>5. calls["start"].step = "queued"
  BY <1>1 DEF PhoneInv, JobIsQueued
<1>6. StoreFits'
  BY <1>1, <1>2, <1>4, <1>5 DEF StoreFits
<1> QED
  BY <1>1, <1>2, <1>3, <1>6, StoreStepKeeps DEF PhoneInv

\* An overtaking call takes the next generation, and no call in flight keeps the present.
LEMMA Overtaking ==
    ASSUME PhoneInv, NEW c \in Callers, NEW step \in {"leaving", "queued"},
           calls[c].step = "none", Overtakes(c, step), c # "start",
           step = "leaving" => c \in Exits,
           session'.generation = session.generation + 1
    PROVE  /\ calls' \in [Callers -> CallRow]
           /\ calls'[c].step = step /\ \A d \in Callers : d # c => calls'[d] = calls[d]
           /\ CallsInOrder'
           /\ \A r \in Logins : calls'[r].step = "forgetting" => ~Current(r)'
<1>1. PICK row : row = [step |-> step, generation |-> session.generation + 1,
                        previous |-> session.record]
  OBVIOUS
<1>2. /\ row \in CallRow /\ row.step = step /\ row.generation = session.generation + 1
      /\ session.generation \in Nat
  BY <1>1, PhoneColumns DEF PhoneInv, CallRow, SessionRow
<1>3. calls' = [calls EXCEPT ![c] = row]
  BY <1>1 DEF Overtakes
<1>4. /\ calls' \in [Callers -> CallRow] /\ calls'[c] = row
      /\ \A d \in Callers : d # c => calls'[d] = calls[d]
  BY <1>2, <1>3, CallIsSet, PhoneColumns DEF PhoneInv
<1>5. \A d \in Callers : calls[d].generation \in Nat
  BY PhoneColumns DEF PhoneInv, CallRow
<1>6. \A d \in Callers : d # c /\ InFlight(d)' =>
         calls'[d].generation <= session.generation
  BY <1>4 DEF PhoneInv, CallsInOrder, InFlight
<1>7. CallsInOrder'
  <2>1. (\A d \in Callers : InFlight(d) => calls[d].generation <= session.generation)'
    BY <1>2, <1>4, <1>5, <1>6
  <2>2. (\A d, e \in Callers :
           InFlight(d) /\ InFlight(e) /\ d # e => calls[d].generation # calls[e].generation)'
    <3> SUFFICES ASSUME NEW d \in Callers, NEW e \in Callers, InFlight(d)', InFlight(e)', d # e
                 PROVE  calls'[d].generation # calls'[e].generation
      OBVIOUS
    <3>1. CASE d # c /\ e # c
      BY <1>4, <3>1 DEF PhoneInv, CallsInOrder, InFlight
    <3>2. CASE d = c \/ e = c
      BY <1>2, <1>4, <1>5, <1>6, <3>2
    <3> QED
      BY <3>1, <3>2
  <2>3. (\A d \in Callers : calls[d].step = "leaving" => d \in Exits)'
    BY <1>2, <1>4 DEF PhoneInv, CallsInOrder
  <2>4. (\A d \in Callers : calls[d].step = "forgetting" => d \in Logins)'
    BY <1>2, <1>4 DEF PhoneInv, CallsInOrder
  <2> QED
    BY <2>1, <2>2, <2>3, <2>4 DEF CallsInOrder
<1>8. \A r \in Logins : calls'[r].step = "forgetting" => ~Current(r)'
  <2> SUFFICES ASSUME NEW r \in Logins, calls'[r].step = "forgetting"
               PROVE  calls'[r].generation # session'.generation
    BY DEF Current
  <2>1. r \in Callers /\ r # c
    BY <1>2, <1>4, PhoneConstants
  <2> QED
    BY <1>2, <1>4, <1>5, <1>6, <2>1 DEF InFlight
<1> QED
  BY <1>2, <1>4, <1>7, <1>8

\* What the store holds is known as before when only calls and screen change.
LEMMA StoreStands ==
    ASSUME StoreFits, store' = store, job' = job, settled' = settled,
           calls'["start"] = calls["start"]
    PROVE  StoreFits'
BY DEF StoreFits

\* A new login: the screen stays.
LEMMA ReplaceStep ==
    ASSUME PhoneInv, NEW r \in Logins, replaceSession(r)
    PROVE  PhoneInv'
<1>1. /\ calls[r].step = "none" /\ Overtakes(r, "queued") /\ turns' = Append(turns, r)
      /\ session' = [session EXCEPT !.shown = session.generation + 1, !.generation = session.generation + 1]
      /\ store' = store /\ job' = job /\ settled' = settled /\ strayed' = strayed
      /\ store_faults' = store_faults /\ kills' = kills
      /\ r \in Callers /\ r # "start" /\ "start" \in Callers
  BY PhoneConstants DEF replaceSession
<1>2. /\ session' \in SessionRow /\ session'.shown <= session'.generation
      /\ session'.generation = session.generation + 1 /\ session'.record = session.record
  <2>1. PICK n : n = session.generation + 1
    OBVIOUS
  <2>2. session' = [session EXCEPT !.shown = n, !.generation = n]
    BY <1>1, <2>1
  <2>3. n \in Nat /\ session \in SessionRow
    BY <2>1, PhoneColumns DEF PhoneInv, SessionRow
  <2>4. /\ session' \in SessionRow /\ session'.shown = n /\ session'.generation = n
        /\ session'.record = session.record
    BY <2>2, <2>3 DEF SessionRow
  <2> QED
    BY <2>1, <2>3, <2>4
<1>3. /\ calls' \in [Callers -> CallRow]
      /\ calls'[r].step = "queued" /\ \A d \in Callers : d # r => calls'[d] = calls[d]
      /\ CallsInOrder'
      /\ \A s \in Logins : calls'[s].step = "forgetting" => ~Current(s)'
  BY <1>1, <1>2, Overtaking
<1>4. /\ turns' \in Seq(Callers) /\ TurnsAreQueued'
      /\ \A d : d # r /\ (\A i \in 1..Len(turns) : turns[i] # d) =>
            \A i \in 1..Len(turns') : turns'[i] # d
      /\ turns' # <<>> /\ (turns # <<>> => turns'[1] = turns[1])
  BY <1>1, <1>3, TurnsGrow, PhoneColumns DEF PhoneInv
<1>5. PhoneTypeOK'
  BY <1>1, <1>2, <1>3, <1>4, PhoneColumns DEF PhoneInv, PhoneTypeOK, SessionRow, CallRow
<1>6. JobIsQueued'
  BY <1>1, <1>3, <1>4, PhoneColumns DEF PhoneInv, JobIsQueued, MutationRow
<1>7. StartIsFirst'
  BY <1>1, <1>3, <1>4 DEF PhoneInv, StartIsFirst
<1>8. StoreFits'
  BY <1>1, <1>3, StoreStands DEF PhoneInv
<1>9. SessionFollows'
  BY <1>1, <1>2, <1>3, PhoneConstants DEF PhoneInv, SessionFollows, InFlight, Known
<1> QED
  BY <1>3, <1>4, <1>5, <1>6, <1>7, <1>8, <1>9 DEF PhoneInv

\* An exit: it is in flight until it has said what became of the session.
LEMMA ExitStep ==
    ASSUME PhoneInv, NEW x \in Exits, NEW revoked \in BOOLEAN, clearSession(x, revoked)
    PROVE  PhoneInv'
<1>1. /\ calls[x].step = "none" /\ Overtakes(x, "leaving") /\ turns' = turns
      /\ session' = [record |-> IF revoked THEN "none" ELSE session.record,
                     shown |-> session.generation + 1, generation |-> session.generation + 1]
      /\ store' = store /\ job' = job /\ settled' = settled /\ strayed' = strayed
      /\ store_faults' = store_faults /\ kills' = kills
      /\ x \in Callers /\ x # "start" /\ "start" \in Callers
  BY PhoneConstants DEF clearSession
<1>2. /\ session' \in SessionRow /\ session'.shown <= session'.generation
      /\ session'.generation = session.generation + 1
  <2>1. PICK shown : shown = IF revoked THEN "none" ELSE session.record
    OBVIOUS
  <2>2. session' = [record |-> shown, shown |-> session.generation + 1,
                    generation |-> session.generation + 1]
    BY <1>1, <2>1
  <2>3. shown \in Records \cup {"none"} /\ session.generation \in Nat
    BY <2>1, PhoneColumns DEF PhoneInv, SessionRow
  <2> QED
    BY <2>2, <2>3 DEF SessionRow
<1>3. /\ calls' \in [Callers -> CallRow]
      /\ calls'[x].step = "leaving" /\ \A d \in Callers : d # x => calls'[d] = calls[d]
      /\ CallsInOrder'
      /\ \A s \in Logins : calls'[s].step = "forgetting" => ~Current(s)'
  BY <1>1, <1>2, Overtaking
<1>4. PhoneTypeOK'
  BY <1>1, <1>2, <1>3, PhoneColumns DEF PhoneInv, PhoneTypeOK, SessionRow, CallRow
<1>5. \A i \in 1..Len(turns) : turns[i] \in Callers /\ turns[i] # x
  BY <1>1, PhoneColumns DEF PhoneInv, TurnsAreQueued
<1>6. TurnsAreQueued'
  BY <1>1, <1>3, <1>5 DEF PhoneInv, TurnsAreQueued
<1>7. JobIsQueued'
  BY <1>1, <1>3, PhoneColumns DEF PhoneInv, JobIsQueued, MutationRow
<1>8. StartIsFirst'
  BY <1>1, <1>3 DEF PhoneInv, StartIsFirst
<1>9. StoreFits'
  BY <1>1, <1>3, StoreStands DEF PhoneInv
<1>10. SessionFollows'
  BY <1>1, <1>2, <1>3 DEF PhoneInv, SessionFollows, InFlight, Known
<1> QED
  BY <1>3, <1>4, <1>6, <1>7, <1>8, <1>9, <1>10 DEF PhoneInv

\* The exit's mutation is due: overtaken, it goes on and has strayed.
LEMMA DueStep ==
    ASSUME PhoneInv, NEW x \in Exits, clear_is_due(x)
    PROVE  PhoneInv'
<1>1. /\ calls[x].step = "leaving" /\ calls' = [calls EXCEPT ![x].step = "queued"]
      /\ turns' = Append(turns, x) /\ strayed' = (strayed \/ ~Current(x))
      /\ session' = session /\ store' = store /\ job' = job /\ settled' = settled
      /\ store_faults' = store_faults /\ kills' = kills
      /\ x \in Callers /\ x # "start" /\ "start" \in Callers
  BY PhoneConstants DEF clear_is_due
<1>2. PICK row : row = [calls[x] EXCEPT !.step = "queued"]
  OBVIOUS
<1>3. /\ row \in CallRow /\ row.step = "queued" /\ row.generation = calls[x].generation
  BY <1>1, <1>2, PhoneColumns DEF PhoneInv, CallRow
<1>4. calls' = [calls EXCEPT ![x] = row]
  BY <1>1, <1>2
<1>5. /\ calls' \in [Callers -> CallRow] /\ calls'[x] = row
      /\ \A d \in Callers : d # x => calls'[d] = calls[d]
  BY <1>1, <1>3, <1>4, CallIsSet, PhoneColumns DEF PhoneInv
<1>6. /\ turns' \in Seq(Callers) /\ TurnsAreQueued'
      /\ \A d : d # x /\ (\A i \in 1..Len(turns) : turns[i] # d) =>
            \A i \in 1..Len(turns') : turns'[i] # d
      /\ turns' # <<>> /\ (turns # <<>> => turns'[1] = turns[1])
  BY <1>1, <1>3, <1>5, TurnsGrow, PhoneColumns DEF PhoneInv
<1>7. strayed' \in BOOLEAN
  BY <1>1, PhoneColumns, Zenon DEF PhoneInv
<1>8. PhoneTypeOK'
  BY <1>1, <1>5, <1>6, <1>7, PhoneColumns DEF PhoneInv, PhoneTypeOK, CallRow
<1>9. \A d \in Callers : /\ calls'[d].generation = calls[d].generation
                         /\ InFlight(d)' <=> InFlight(d)
                         /\ Current(d)' <=> Current(d)
                         /\ calls'[d].step = "forgetting" <=> calls[d].step = "forgetting"
                         /\ calls'[d].step = "leaving" => calls[d].step = "leaving"
  BY <1>1, <1>3, <1>5 DEF InFlight, Current
<1>10. CallsInOrder'
  BY <1>1, <1>9 DEF PhoneInv, CallsInOrder
<1>11. JobIsQueued'
  BY <1>1, <1>5, <1>6, PhoneColumns DEF PhoneInv, JobIsQueued, MutationRow
<1>12. StartIsFirst'
  BY <1>1, <1>5, <1>6 DEF PhoneInv, StartIsFirst
<1>13. StoreFits'
  BY <1>1, <1>5, StoreStands DEF PhoneInv
<1>14. strayed => strayed'
  BY <1>1
<1>15. SessionFollows'
  BY <1>1, <1>5, <1>9, <1>14, PhoneConstants DEF PhoneInv, SessionFollows
<1> QED
  BY <1>6, <1>8, <1>10, <1>11, <1>12, <1>13, <1>15 DEF PhoneInv

\* A login has forgotten its predecessor: overtaken, it has strayed.
LEMMA ForgottenStep ==
    ASSUME PhoneInv, NEW r \in Logins, replaced_is_forgotten(r)
    PROVE  PhoneInv'
<1>1. /\ calls[r].step = "forgetting" /\ calls' = [calls EXCEPT ![r].step = "over"]
      /\ session' = [session EXCEPT !.record = r, !.shown = calls[r].generation]
      /\ strayed' = (strayed \/ ~Current(r))
      /\ turns' = turns /\ store' = store /\ job' = job /\ settled' = settled
      /\ store_faults' = store_faults /\ kills' = kills
      /\ r \in Callers /\ r # "start" /\ "start" \in Callers /\ r \in Records
  BY PhoneConstants DEF replaced_is_forgotten, Ended
<1>2. PICK row : row = [calls[r] EXCEPT !.step = "over"]
  OBVIOUS
<1>3. /\ row \in CallRow /\ row.step = "over" /\ row.generation = calls[r].generation
      /\ calls[r].generation \in Nat
  BY <1>1, <1>2, PhoneColumns DEF PhoneInv, CallRow
<1>4. calls' = [calls EXCEPT ![r] = row]
  BY <1>1, <1>2
<1>5. /\ calls' \in [Callers -> CallRow] /\ calls'[r] = row
      /\ \A d \in Callers : d # r => calls'[d] = calls[d]
  BY <1>1, <1>3, <1>4, CallIsSet, PhoneColumns DEF PhoneInv
<1>6. /\ session' \in SessionRow /\ session'.shown <= session'.generation
      /\ session'.record = r /\ session'.generation = session.generation
  BY <1>1, <1>3, PhoneColumns DEF PhoneInv, SessionRow, CallsInOrder, InFlight
<1>7. strayed' \in BOOLEAN
  BY <1>1, PhoneColumns, Zenon DEF PhoneInv
<1>8. PhoneTypeOK'
  BY <1>1, <1>5, <1>6, <1>7, PhoneColumns DEF PhoneInv, PhoneTypeOK, CallRow, SessionRow
<1>9. \A d \in Callers : /\ calls'[d].generation = calls[d].generation
                         /\ InFlight(d)' => InFlight(d)
                         /\ Current(d)' <=> Current(d)
                         /\ calls'[d].step = "forgetting" => calls[d].step = "forgetting"
                         /\ calls'[d].step = "leaving" => calls[d].step = "leaving"
                         /\ calls[d].step = "queued" => calls'[d].step = "queued"
  BY <1>1, <1>3, <1>5, <1>6 DEF InFlight, Current
<1>10. CallsInOrder'
  BY <1>6, <1>9 DEF PhoneInv, CallsInOrder
<1>11. TurnsAreQueued'
  BY <1>1, <1>9, PhoneColumns DEF PhoneInv, TurnsAreQueued
<1>12. JobIsQueued'
  BY <1>1, <1>9, PhoneColumns DEF PhoneInv, JobIsQueued, MutationRow
<1>13. StartIsFirst'
  BY <1>1, <1>5 DEF PhoneInv, StartIsFirst
<1>14. StoreFits'
  BY <1>1, <1>5, StoreStands DEF PhoneInv
<1>15. /\ strayed => strayed'
       /\ ~strayed' => Current(r)
  BY <1>1
<1>16. ~strayed' /\ Known(settled) => settled = r
  BY <1>1, <1>15 DEF PhoneInv, SessionFollows
<1>17. SessionFollows'
  BY <1>1, <1>6, <1>9, <1>15, <1>16, PhoneConstants DEF PhoneInv, SessionFollows
<1> QED
  BY <1>8, <1>10, <1>11, <1>12, <1>13, <1>14, <1>17 DEF PhoneInv

-----------------------------------------------------------------------------
(* The mutation begins and ends; the app is killed *)

\* The first of the turns begins, on a store that keeps its word.
LEMMA BeginStep ==
    ASSUME PhoneInv, mutation_begins
    PROVE  PhoneInv'
<1>1. /\ job = Idle /\ turns # <<>> /\ turns' = Tail(turns)
      /\ job' = [Idle EXCEPT !.of = Head(turns), !.step = "read"]
      /\ store' = store /\ session' = session /\ calls' = calls /\ settled' = settled
      /\ strayed' = strayed /\ store_faults' = store_faults /\ kills' = kills
  BY DEF mutation_begins
<1>2. /\ turns' \in Seq(Callers) /\ TurnsAreQueued'
      /\ Head(turns) = turns[1] /\ turns[1] \in Callers /\ calls[turns[1]].step = "queued"
      /\ \A i \in 1..Len(turns') : turns'[i] # turns[1]
  BY <1>1, TurnsShrink, PhoneColumns DEF PhoneInv
<1>3. PICK c \in Callers : c = turns[1]
  BY <1>2
<1>4. /\ job' \in MutationRow /\ job'.of = c /\ job'.step = "read" /\ job'.previous = NoControl
      /\ job'.fails = "none" /\ job.of = "none"
  BY <1>1, <1>2, <1>3, ControlRows DEF Idle, MutationRow, Steps
<1>5. PhoneTypeOK'
  BY <1>1, <1>2, <1>4, PhoneColumns DEF PhoneInv, PhoneTypeOK, MutationRow
<1>6. CallsInOrder'
  BY <1>1 DEF PhoneInv, CallsInOrder, InFlight
<1>7. JobIsQueued'
  BY <1>1, <1>2, <1>3, <1>4, PhoneConstants DEF JobIsQueued
<1>8. StartIsFirst'
  BY <1>1, <1>3, <1>4 DEF PhoneInv, StartIsFirst
<1>9. c # "start" => calls["start"].step = "over"
  BY <1>3, <1>4, PhoneConstants DEF PhoneInv, StartIsFirst
<1>10. StoreFits'
  <2>1. Kept(store, settled) /\ WellFormed(store.control) /\ WellFormed(NoControl)
    BY <1>4, ControlRows DEF PhoneInv, StoreFits
  <2>2. Known(settled) /\ calls["start"].step = "over" => Emptied(store)
    BY DEF PhoneInv, StoreFits
  <2>3. c \in Logins => SaveHolds(store, job', settled, c)
    BY <1>4, <1>9, <2>1, <2>2, PhoneConstants DEF SaveHolds, SaveSteps
  <2>4. c \in Exits => ClearHolds(store, job', settled)
    BY <1>4, <2>1 DEF ClearHolds
  <2>5. c = "start" => StartHolds(store, job', settled)
    BY <1>4, <2>1 DEF StartHolds, StartSteps
  <2> QED
    BY <1>1, <1>4, <2>1, <2>2, <2>3, <2>4, <2>5, PhoneConstants DEF StoreFits
<1>11. SessionFollows'
  BY <1>1 DEF PhoneInv, SessionFollows, InFlight, Current, Known
<1> QED
  BY <1>2, <1>5, <1>6, <1>7, <1>8, <1>10, <1>11 DEF PhoneInv

\* What a mutation says when it ends is what a restart will load.
LEMMA WordHolds ==
    ASSUME PhoneInv, AtStep("end")
    PROVE  /\ Word(job.of) \in Records \cup {"none", "unknown"}
           /\ Kept(store, Word(job.of))
           /\ (calls["start"].step = "over" \/ job.of = "start") /\ Known(Word(job.of)) => Emptied(store)
           /\ job.of \in Callers
           /\ job.fails \in {"none", "failed", "quarantined"}
           /\ job.of \in Logins /\ job.fails = "none" => Word(job.of) = job.of
           /\ job.of \in Logins /\ job.fails = "failed" => Word(job.of) = settled
           /\ job.of \in Exits /\ job.fails = "none" => Word(job.of) = "none"
           /\ job.of = "start" /\ job.fails = "none" => Word(job.of) = Loads(store)
           /\ job.fails = "quarantined" => Word(job.of) = "unknown"
           /\ job.of \notin Logins /\ job.fails # "none" => Word(job.of) = "unknown"
<1>1. /\ job.step = "end" /\ store \in Store /\ WellFormed(store.control)
      /\ settled \in Records \cup {"none", "unknown"}
      /\ job.fails \in {"none", "failed", "quarantined"} /\ job.of \in Callers \cup {"none"}
  BY PhoneColumns DEF AtStep, PhoneInv, StoreFits, MutationRow
<1>2. job.of \in Callers
  BY <1>1 DEF PhoneInv, JobIsQueued, Idle
<1>3. Loads(store) \in Records \cup {"none", "broken"}
  BY <1>1, LoadsByFields
<1>4. CASE job.fails = "quarantined"
  <2>1. Word(job.of) = "unknown"
    BY <1>4, PhoneConstants DEF Word
  <2> QED
    BY <2>1, <1>2, <1>4 DEF Kept, Known
<1>5. CASE job.of \in Logins /\ job.fails # "quarantined"
  <2>1. SaveHolds(store, job, settled, job.of)
    BY <1>5 DEF PhoneInv, StoreFits
  <2>2. Word(job.of) = IF job.fails = "none" THEN job.of ELSE settled
    BY <1>1, <1>5, PhoneConstants DEF Word
  <2>3. CASE job.fails = "none"
    <3>1. Loads(store) = job.of /\ job.of \in Records /\ job.of # "former"
      BY <1>1, <1>5, <2>1, <2>3, PhoneSessionAssumption DEF SaveHolds, Records
    <3>2. Emptied(store)
      BY <1>1, <3>1, LoadsByFields DEF Emptied, Store
    <3> QED
      BY <1>2, <1>5, <2>2, <2>3, <3>1, <3>2, PhoneConstants DEF Kept
  <2>4. CASE job.fails = "failed"
    <3>1. Kept(store, settled) /\ (Known(settled) => Emptied(store))
      BY <1>1, <2>1, <2>4 DEF SaveHolds
    <3> QED
      BY <1>1, <1>2, <1>5, <2>2, <2>4, <3>1, PhoneConstants
  <2> QED
    BY <1>1, <1>5, <2>3, <2>4
<1>6. CASE job.of \in Exits /\ job.fails # "quarantined"
  <2>1. ClearHolds(store, job, settled) /\ job.of \notin Logins /\ job.of # "start"
    BY <1>6, PhoneConstants DEF PhoneInv, StoreFits
  <2>2. Word(job.of) = IF job.fails = "none" THEN "none" ELSE "unknown"
    BY <1>6, <2>1, PhoneConstants DEF Word
  <2>3. job.fails = "none" => Loads(store) = "none" /\ Emptied(store)
    BY <1>1, <2>1, LoadsByFields, ControlRows DEF ClearHolds, Emptied
  <2> QED
    BY <1>1, <1>2, <1>6, <2>1, <2>2, <2>3 DEF Kept, Known
<1>7. CASE job.of = "start" /\ job.fails # "quarantined"
  <2>1. StartHolds(store, job, settled) /\ job.of \notin Logins /\ job.of \notin Exits
    BY <1>7, PhoneConstants DEF PhoneInv, StoreFits
  <2>2. Word(job.of) = IF job.fails = "none" THEN Loads(store) ELSE "unknown"
    BY <1>7, <2>1, PhoneConstants DEF Word
  <2>3. job.fails = "none" => Loads(store) # "broken" /\ Emptied(store)
    BY <1>1, <2>1 DEF StartHolds
  <2> QED
    BY <1>1, <1>2, <1>3, <1>7, <2>1, <2>2, <2>3 DEF Kept, Known
<1> QED
  BY <1>1, <1>2, <1>4, <1>5, <1>6, <1>7, PhoneConstants

\* The mutation ends: a current call shows what it settled, an overtaken one strays.
LEMMA EndStep ==
    ASSUME PhoneInv, mutation_ends
    PROVE  PhoneInv'
<1>1. PICK c : c = job.of
  OBVIOUS
<1>2. PICK found : found = IF c = "start" THEN Loads(store) ELSE IF c \in Logins THEN c ELSE "none"
  OBVIOUS
<1>3. PICK n : n = IF c = "start" THEN session.generation + 1 ELSE session.generation
  OBVIOUS
<1>4. PICK forgets \in BOOLEAN : forgets = (c \in Logins /\ job.fails = "none" /\ Current(c) /\ Replaces(c))
  OBVIOUS
<1>5. /\ AtStep("end") /\ job' = Idle /\ settled' = Word(c)
      /\ strayed' = IF Current(c) /\ job.fails = "none" /\ NoneBut(c) THEN FALSE
                    ELSE strayed \/ (~Current(c) /\ job.fails = "none")
      /\ calls' = [calls EXCEPT ![c].step = IF forgets THEN "forgetting" ELSE "over"]
      /\ store' = store /\ turns' = turns /\ store_faults' = store_faults /\ kills' = kills
  <2>1. /\ AtStep("end") /\ job' = Idle /\ settled' = Word(c)
        /\ store' = store /\ turns' = turns /\ store_faults' = store_faults /\ kills' = kills
        /\ strayed' = IF Current(c) /\ job.fails = "none" /\ NoneBut(c) THEN FALSE
                      ELSE strayed \/ (~Current(c) /\ job.fails = "none")
    BY <1>1 DEF mutation_ends
  <2>2. calls' = IF c \in Logins /\ job.fails = "none" /\ Current(c) /\ Replaces(c)
                 THEN [calls EXCEPT ![c].step = "forgetting"] ELSE Ended(c)
    BY <1>1 DEF mutation_ends
  <2>3. calls' = [calls EXCEPT ![c].step = IF forgets THEN "forgetting" ELSE "over"]
    BY <1>4, <2>2 DEF Ended
  <2> QED
    BY <2>1, <2>3
<1>6. /\ ~Current(c) => session' = session
      /\ Current(c) => session' = [record |-> IF job.fails = "none" /\ ~Replaces(c) THEN found
                                              ELSE IF job.fails = "quarantined" THEN "none"
                                              ELSE session.record,
                                   shown |-> n, generation |-> n]
  BY <1>1, <1>2, <1>3 DEF mutation_ends
<1>7. /\ settled' \in Records \cup {"none", "unknown"}
      /\ Kept(store, settled')
      /\ (calls["start"].step = "over" \/ c = "start") /\ Known(settled') => Emptied(store)
      /\ c \in Callers /\ job.fails \in {"none", "failed", "quarantined"}
      /\ c \in Logins /\ job.fails = "none" => settled' = c
      /\ c \in Logins /\ job.fails = "failed" => settled' = settled
      /\ c \in Exits /\ job.fails = "none" => settled' = "none"
      /\ c = "start" /\ job.fails = "none" => settled' = Loads(store)
      /\ job.fails = "quarantined" => settled' = "unknown"
      /\ c \notin Logins /\ job.fails # "none" => settled' = "unknown"
  BY <1>1, <1>5, WordHolds
<1>8. calls[c].step = "queued" /\ \A i \in 1..Len(turns) : turns[i] # c
  BY <1>1, <1>7, PhoneConstants DEF PhoneInv, JobIsQueued
<1>9. PICK row : row = [calls[c] EXCEPT !.step = IF forgets THEN "forgetting" ELSE "over"]
  OBVIOUS
<1>10. /\ row \in CallRow /\ row.step = (IF forgets THEN "forgetting" ELSE "over")
       /\ row.generation = calls[c].generation
  <2>1. calls[c] \in CallRow
    BY <1>7, PhoneColumns DEF PhoneInv
  <2>2. PICK step \in {"forgetting", "over"} : step = IF forgets THEN "forgetting" ELSE "over"
    OBVIOUS
  <2>3. row = [calls[c] EXCEPT !.step = step]
    BY <1>9, <2>2
  <2> QED
    BY <2>1, <2>2, <2>3 DEF CallRow
<1>11. /\ calls' \in [Callers -> CallRow] /\ calls'[c] = row
       /\ \A d \in Callers : d # c => calls'[d] = calls[d]
  <2>1. calls' = [calls EXCEPT ![c] = row]
    BY <1>5, <1>9
  <2> QED
    BY <1>7, <1>10, <2>1, CallIsSet, PhoneColumns DEF PhoneInv
<1>12. found \in Records \cup {"none", "broken"}
       /\ (job.fails = "none" => found = settled' /\ found \in Records \cup {"none"})
  <2>1. Loads(store) \in Records \cup {"none", "broken"}
    BY LoadsByFields, PhoneColumns DEF PhoneInv, StoreFits
  <2>2. c = "start" /\ job.fails = "none" => Loads(store) # "broken"
    BY <1>1, <1>5 DEF PhoneInv, StoreFits, StartHolds, AtStep
  <2> QED
    BY <1>2, <1>7, <2>1, <2>2, PhoneConstants
<1>13. /\ session.generation \in Nat /\ session.record \in Records \cup {"none"}
       /\ session \in SessionRow /\ session.shown <= session.generation
       /\ n \in Nat /\ session.generation <= n
       /\ c # "start" => n = session.generation
       /\ c = "start" => n = session.generation + 1
  BY <1>3, PhoneColumns DEF PhoneInv, SessionRow
<1>14. Replaces(c) => c \in Logins
  BY DEF Replaces
<1>15. /\ session' \in SessionRow /\ session'.shown <= session'.generation
       /\ session.generation <= session'.generation
       /\ c # "start" => session'.generation = session.generation
       /\ c = "start" /\ Current(c) => session'.generation = session.generation + 1
       /\ Current(c) /\ job.fails = "none" /\ ~forgets => session'.record = settled'
       /\ ~Current(c) \/ forgets \/ job.fails = "failed" => session'.record = session.record
  <2>1. CASE ~Current(c)
    BY <1>4, <1>6, <1>13, <2>1
  <2>2. CASE Current(c)
    <3>1. PICK shown : shown = IF job.fails = "none" /\ ~Replaces(c) THEN found
                               ELSE IF job.fails = "quarantined" THEN "none"
                               ELSE session.record
      OBVIOUS
    <3>2. session' = [record |-> shown, shown |-> n, generation |-> n]
      BY <1>6, <2>2, <3>1
    <3>3. forgets <=> job.fails = "none" /\ Replaces(c)
      BY <1>4, <1>14, <2>2
    <3>4. /\ shown \in Records \cup {"none"}
          /\ job.fails = "none" /\ ~forgets => shown = settled'
          /\ forgets \/ job.fails = "failed" => shown = session.record
      BY <1>12, <1>13, <3>1, <3>3
    <3>5. session' \in SessionRow /\ session'.record = shown /\ session'.shown = n
          /\ session'.generation = n
      BY <1>13, <3>2, <3>4 DEF SessionRow
    <3> QED
      BY <1>13, <2>2, <3>4, <3>5
  <2> QED
    BY <2>1, <2>2
<1>16. /\ strayed' \in BOOLEAN
       /\ ~strayed' => \/ Current(c) /\ job.fails = "none" /\ NoneBut(c)
                       \/ ~strayed /\ (Current(c) \/ job.fails # "none")
  BY <1>5, PhoneColumns, Zenon DEF PhoneInv
<1>17. \A d \in Callers : /\ calls'[d].generation = calls[d].generation
                          /\ InFlight(d)' => InFlight(d)
                          /\ calls'[d].step = "leaving" => calls[d].step = "leaving"
                          /\ d # c => (InFlight(d)' <=> InFlight(d))
  BY <1>8, <1>10, <1>11 DEF InFlight
<1>18. PhoneTypeOK'
  BY <1>5, <1>7, <1>11, <1>15, <1>16, PhoneColumns, ControlRows
     DEF PhoneInv, PhoneTypeOK, CallRow, SessionRow, Idle, Steps
<1>19. CallsInOrder'
  <2>1. \A d \in Callers : calls[d].generation \in Nat
    BY PhoneColumns DEF PhoneInv, CallRow
  <2>2. session'.generation \in Nat
    BY <1>15 DEF SessionRow
  <2>3. (\A d \in Callers : InFlight(d) => calls[d].generation <= session.generation)'
    BY <1>13, <1>15, <1>17, <2>1, <2>2 DEF PhoneInv, CallsInOrder
  <2>4. \A d \in Callers : calls'[d].step = "forgetting" => d \in Logins
    BY <1>4, <1>10, <1>11 DEF PhoneInv, CallsInOrder
  <2> QED
    BY <1>17, <2>3, <2>4 DEF PhoneInv, CallsInOrder
<1>20. TurnsAreQueued'
  BY <1>5, <1>8, <1>11, PhoneColumns DEF PhoneInv, TurnsAreQueued
<1>21. JobIsQueued'
  BY <1>5 DEF JobIsQueued, Idle
<1>22. /\ StartIsFirst'
       /\ calls'["start"].step = "over"
  <2>1. c = "start" => ~forgets
    BY <1>4, PhoneConstants
  <2>2. c # "start" => calls["start"].step = "over"
    BY <1>1, <1>7, PhoneConstants DEF PhoneInv, StartIsFirst
  <2>3. calls'["start"].step = "over"
    BY <1>10, <1>11, <2>1, <2>2, PhoneConstants
  <2> QED
    BY <2>3 DEF StartIsFirst
<1>23. StoreFits'
  <2>1. /\ job'.of = "none" /\ WellFormed(job'.previous)
    BY <1>5, ControlRows DEF Idle
  <2>2. c = "start" \/ calls["start"].step = "over"
    BY <1>1, <1>7, PhoneConstants DEF PhoneInv, StartIsFirst
  <2> QED
    BY <1>5, <1>7, <2>1, <2>2, PhoneConstants DEF PhoneInv, StoreFits
<1>24. SessionFollows'
  <2>1. ASSUME Known(settled'), ~strayed'
        PROVE  \/ session'.record = settled'
               \/ \E d \in Callers : calls'[d].step = "forgetting"
               \/ \E x \in Exits : InFlight(x)'
    <3>1. CASE job.fails = "none" /\ forgets
      BY <1>7, <1>10, <1>11, <3>1
    <3>2. CASE job.fails = "none" /\ ~forgets
      BY <1>15, <1>16, <2>1, <3>2
    <3>3. CASE job.fails = "failed"
      <4>1. c \in Logins /\ ~strayed /\ settled' = settled /\ session'.record = session.record
        BY <1>7, <1>15, <1>16, <2>1, <3>3 DEF Known
      <4>2. c # "start" /\ c \notin Exits /\ calls["start"].step = "over"
        BY <1>1, <1>7, <4>1, PhoneConstants DEF PhoneInv, StartIsFirst
      <4>3. \/ session.record = settled
            \/ \E d \in Callers : calls[d].step = "forgetting"
            \/ \E x \in Exits : InFlight(x)
        BY <2>1, <4>1, <4>2 DEF PhoneInv, SessionFollows
      <4>4. ASSUME NEW d \in Callers, calls[d].step = "forgetting"
            PROVE  calls'[d].step = "forgetting"
        BY <1>8, <1>11, <4>4
      <4>5. ASSUME NEW x \in Exits, InFlight(x)
            PROVE  InFlight(x)'
        BY <1>17, <4>2, <4>5, PhoneConstants
      <4> QED
        BY <4>1, <4>3, <4>4, <4>5
    <3>4. CASE job.fails = "quarantined"
      BY <1>7, <2>1, <3>4 DEF Known
    <3> QED
      BY <1>7, <3>1, <3>2, <3>3, <3>4
  <2>2. ASSUME NEW r \in Logins, calls'[r].step = "forgetting", Current(r)', Known(settled'), ~strayed'
        PROVE  settled' = r
    <3>0. r \in Callers /\ InFlight(c)
      BY <1>8, PhoneConstants DEF InFlight
    <3>1. CASE r = c
      <4>1. forgets
        BY <1>10, <1>11, <2>2, <3>1
      <4> QED
        BY <1>4, <1>7, <3>1, <4>1
    <3>2. CASE r # c
      <4>1. calls[r] = calls'[r] /\ calls[r].step = "forgetting" /\ InFlight(r)
        BY <1>11, <2>2, <3>0, <3>2 DEF InFlight
      <4>2. /\ calls[r].generation <= session.generation /\ calls[r].generation # calls[c].generation
            /\ calls[r].generation \in Nat
        BY <1>7, <3>0, <3>2, <4>1, PhoneColumns DEF PhoneInv, CallsInOrder, CallRow
      <4>3. session'.generation = session.generation /\ ~Current(c) /\ Current(r)
        <5>1. calls[r].generation = session'.generation
          BY <2>2, <4>1 DEF Current
        <5>2. session'.generation = session.generation
          <6>1. session'.generation \in Nat
            BY <1>15 DEF SessionRow
          <6> QED
            BY <1>13, <1>15, <4>2, <5>1, <6>1
        <5> QED
          BY <4>2, <5>1, <5>2 DEF Current
      <4>4. ~strayed /\ job.fails # "none"
        BY <1>16, <2>2, <4>3
      <4>5. job.fails = "failed" /\ c \in Logins /\ settled' = settled
        BY <1>7, <2>2, <4>4 DEF Known
      <4> QED
        BY <2>2, <4>1, <4>3, <4>4, <4>5 DEF PhoneInv, SessionFollows
    <3> QED
      BY <3>1, <3>2
  <2> QED
    BY <2>1, <2>2 DEF SessionFollows
<1> QED
  BY <1>18, <1>19, <1>20, <1>21, <1>22, <1>23, <1>24 DEF PhoneInv

\* The app comes up again with the store it left.
LEMMA KillStep ==
    ASSUME PhoneInv, PhoneKill
    PROVE  PhoneInv'
<1>1. /\ kills < MaxKills /\ kills' = kills + 1 /\ session' = NoSession
      /\ calls' = [c \in Callers |-> IF c = "start" THEN AtStart
                                     ELSE IF calls[c].step = "none" THEN calls[c]
                                     ELSE [NotCalled EXCEPT !.step = "over"]]
      /\ turns' = <<"start">> /\ job' = Idle
      /\ settled' = IF Loads(store) = "broken" THEN "unknown" ELSE Loads(store)
      /\ strayed' = FALSE /\ store' = store /\ store_faults' = store_faults
  BY DEF PhoneKill
<1>2. /\ AtStart \in CallRow /\ AtStart.step = "queued"
      /\ [NotCalled EXCEPT !.step = "over"] \in CallRow
      /\ [NotCalled EXCEPT !.step = "over"].step = "over"
  BY DEF AtStart, NotCalled, CallRow
<1>3. /\ calls' \in [Callers -> CallRow] /\ calls'["start"].step = "queued"
      /\ calls'["start"] = AtStart
      /\ \A c \in Callers \ {"start"} : calls'[c].step \in {"none", "over"}
  BY <1>1, <1>2, PhoneColumns, PhoneConstants DEF PhoneInv
<1>4. /\ session' \in SessionRow /\ session'.shown = 0 /\ session'.generation = 0
  BY <1>1 DEF NoSession, SessionRow
<1>5. /\ turns' \in Seq(Callers) /\ Len(turns') = 1 /\ turns'[1] = "start" /\ turns' # <<>>
  BY <1>1, PhoneConstants
<1>6. Loads(store) \in Records \cup {"none", "broken"}
  BY LoadsByFields, PhoneColumns DEF PhoneInv, StoreFits
<1>7. job'.of = "none" /\ job' \in MutationRow /\ WellFormed(job'.previous)
  BY <1>1, ControlRows DEF Idle, MutationRow, Steps
<1>8. kills' \in 0..MaxKills
  BY <1>1, PhoneColumns, PhoneConstants DEF PhoneInv
<1>9. settled' \in Records \cup {"none", "unknown"}
  BY <1>1, <1>6
<1>10. PhoneTypeOK'
  <2>1. store' \in Store /\ strayed' \in BOOLEAN /\ store_faults' \in 0..MaxStoreFaults
    BY <1>1, PhoneColumns DEF PhoneInv
  <2>2. session' \in SessionRow /\ session'.shown <= session'.generation
    BY <1>4
  <2> QED
    BY <1>3, <1>5, <1>7, <1>8, <1>9, <2>1, <2>2
       DEF PhoneTypeOK, Store, CallRow, SessionRow, MutationRow
<1>11. CallsInOrder'
  <2>1. AtStart.generation = 0
    BY DEF AtStart, NotCalled
  <2>2. \A c \in Callers : InFlight(c)' => c = "start"
    BY <1>3 DEF InFlight
  <2>3. \A c \in Callers : calls'[c].step \notin {"leaving", "forgetting"}
    BY <1>3
  <2> QED
    BY <1>3, <1>4, <2>1, <2>2, <2>3 DEF CallsInOrder
<1>12. TurnsAreQueued' /\ JobIsQueued' /\ StartIsFirst'
  <2>1. \A i \in 1..Len(turns') : i = 1
    BY <1>5
  <2> QED
    BY <1>1, <1>3, <1>5, <1>7, <2>1 DEF TurnsAreQueued, JobIsQueued, StartIsFirst
<1>13. StoreFits'
  BY <1>1, <1>3, <1>6, <1>7, PhoneConstants DEF PhoneInv, StoreFits, Kept, Known
<1>14. SessionFollows'
  BY <1>3, PhoneConstants DEF SessionFollows
<1> QED
  BY <1>10, <1>11, <1>12, <1>13, <1>14 DEF PhoneInv

-----------------------------------------------------------------------------
(* The theorems *)

\* The app starts with nothing, or with the record of an earlier version.
LEMMA InitKeeps == PhoneInit => PhoneInv
<1> SUFFICES ASSUME PhoneInit
             PROVE  PhoneInv
  OBVIOUS
<1>1. PICK a \in {"none", "former"}, legacy \in {"none", "former"} :
         /\ a = "none" \/ legacy = "none"
         /\ store = [control |-> NoControl, a |-> a, b |-> "none", legacy |-> legacy]
         /\ settled = Loads(store)
  BY DEF PhoneInit
<1>2. /\ session = NoSession /\ turns = <<"start">> /\ job = Idle
      /\ calls = [c \in Callers |-> IF c = "start" THEN AtStart ELSE NotCalled]
      /\ strayed = FALSE /\ store_faults = 0 /\ kills = 0
  BY DEF PhoneInit
<1>3. /\ store \in Store /\ store.control = NoControl
      /\ Loads(store) \in Records \cup {"none"}
  <2>1. store \in Store /\ store.control = NoControl /\ store.a = a /\ store.legacy = legacy
    BY <1>1, ControlRows, PhoneConstants DEF Store
  <2>2. Loads(store) = IF legacy # "none" THEN legacy ELSE a
    BY <2>1, ControlRows, LoadsByFields
  <2> QED
    BY <2>1, <2>2, PhoneConstants
<1>4. /\ AtStart \in CallRow /\ AtStart.step = "queued" /\ AtStart.generation = 0
      /\ NotCalled \in CallRow /\ NotCalled.step = "none"
  BY DEF AtStart, NotCalled, CallRow
<1>5. /\ calls \in [Callers -> CallRow] /\ calls["start"] = AtStart
      /\ \A c \in Callers \ {"start"} : calls[c].step = "none"
  BY <1>2, <1>4, PhoneConstants
<1>6. turns \in Seq(Callers) /\ Len(turns) = 1 /\ turns[1] = "start" /\ turns # <<>>
  BY <1>2, PhoneConstants
<1>7. session \in SessionRow /\ session.shown = 0 /\ session.generation = 0
  BY <1>2 DEF NoSession, SessionRow
<1>8. job.of = "none" /\ job \in MutationRow /\ WellFormed(job.previous)
  BY <1>2, ControlRows DEF Idle, MutationRow, Steps
<1>9. PhoneTypeOK
  <2>0. strayed \in BOOLEAN
    BY <1>2
  <2>1. store_faults \in 0..MaxStoreFaults /\ kills \in 0..MaxKills
    BY <1>2, PhoneConstants
  <2>2. session \in SessionRow /\ session.shown <= session.generation
    BY <1>7
  <2>3. settled \in Records \cup {"none", "unknown"}
    BY <1>1, <1>3
  <2> QED
    BY <1>3, <1>5, <1>6, <1>8, <2>0, <2>1, <2>2, <2>3
       DEF PhoneTypeOK, Store, CallRow, SessionRow, MutationRow
<1>10. CallsInOrder
  <2>1. \A c \in Callers : InFlight(c) => c = "start"
    BY <1>5 DEF InFlight
  <2> QED
    BY <1>4, <1>5, <1>7, <2>1 DEF CallsInOrder
<1>11. TurnsAreQueued /\ JobIsQueued /\ StartIsFirst
  <2>1. \A i \in 1..Len(turns) : i = 1
    BY <1>6
  <2> QED
    BY <1>2, <1>4, <1>5, <1>6, <1>8, <2>1 DEF TurnsAreQueued, JobIsQueued, StartIsFirst
<1>12. StoreFits
  BY <1>1, <1>3, <1>4, <1>5, <1>8, ControlRows, PhoneConstants DEF StoreFits, Kept
<1>13. SessionFollows
  BY <1>4, <1>5, PhoneConstants DEF SessionFollows
<1> QED
  BY <1>9, <1>10, <1>11, <1>12, <1>13 DEF PhoneInv

\* A cleared store stays so in every step, or a login has been saved in it.
ClearedStep ==
    store.control.status = "cleared" /\ Loads(store)' # "none" =>
        job.of \in Logins /\ Loads(store)' = job.of

\* A step that leaves the store alone leaves it cleared.
LEMMA StandsCleared ==
    ASSUME PhoneInv, store' = store
    PROVE  ClearedStep
BY LoadsByFields, PhoneColumns DEF PhoneInv, StoreFits, ClearedStep

\* Every step keeps the inductive invariant, and a cleared store cleared.
LEMMA NextKeeps ==
    ASSUME PhoneInv, [PhoneNext]_phoneVars
    PROVE  PhoneInv' /\ ClearedStep
<1>1. ASSUME NEW r \in Logins, replaceSession(r)
      PROVE  PhoneInv' /\ ClearedStep
  BY <1>1, ReplaceStep, StandsCleared DEF replaceSession
<1>2. ASSUME NEW r \in Logins, save(r)
      PROVE  PhoneInv' /\ ClearedStep
  BY <1>2, SaveStep DEF ClearedStep
<1>3. ASSUME NEW r \in Logins, replaced_is_forgotten(r)
      PROVE  PhoneInv' /\ ClearedStep
  BY <1>3, ForgottenStep, StandsCleared DEF replaced_is_forgotten
<1>4. ASSUME NEW x \in Exits, clear_is_due(x)
      PROVE  PhoneInv' /\ ClearedStep
  BY <1>4, DueStep, StandsCleared DEF clear_is_due
<1>5. ASSUME NEW x \in Exits, clear(x)
      PROVE  PhoneInv' /\ ClearedStep
  BY <1>5, ClearStep DEF ClearedStep
<1>6. ASSUME NEW x \in Exits, NEW revoked \in BOOLEAN, clearSession(x, revoked)
      PROVE  PhoneInv' /\ ClearedStep
  BY <1>6, ExitStep, StandsCleared DEF clearSession
<1>7. CASE mutation_begins
  BY <1>7, BeginStep, StandsCleared DEF mutation_begins
<1>8. CASE loadOrMigrate
  BY <1>8, StartStep DEF ClearedStep
<1>9. CASE mutation_ends
  <2>1. store' = store
    BY <1>9 DEF mutation_ends
  <2> QED
    BY <1>9, <2>1, EndStep, StandsCleared
<1>10. CASE PhoneKill
  <2>1. store' = store
    BY <1>10 DEF PhoneKill
  <2> QED
    BY <1>10, <2>1, KillStep, StandsCleared
<1>11. CASE UNCHANGED phoneVars
  <2>1. /\ store' = store /\ session' = session /\ calls' = calls /\ turns' = turns
        /\ job' = job /\ settled' = settled /\ strayed' = strayed
        /\ store_faults' = store_faults /\ kills' = kills
    BY <1>11 DEF phoneVars
  <2>2. PhoneTypeOK' /\ CallsInOrder' /\ TurnsAreQueued' /\ JobIsQueued' /\ StartIsFirst'
    BY <2>1 DEF PhoneInv, PhoneTypeOK, CallsInOrder, TurnsAreQueued, JobIsQueued, StartIsFirst,
                InFlight
  <2>3. StoreFits'
    BY <2>1, StoreStands DEF PhoneInv
  <2>4. SessionFollows'
    BY <2>1 DEF PhoneInv, SessionFollows, InFlight, Current
  <2> QED
    BY <2>1, <2>2, <2>3, <2>4, StandsCleared DEF PhoneInv
<1> QED
  BY <1>1, <1>2, <1>3, <1>4, <1>5, <1>6, <1>7, <1>8, <1>9, <1>10, <1>11 DEF PhoneNext

\* The three parts about states follow from the inductive invariant.
LEMMA SessionIsTold ==
    ASSUME PhoneInv
    PROVE  WordIsKept /\ KillIsHarmless /\ SessionTellsStore
<1>1. /\ job \in MutationRow /\ store \in Store /\ WellFormed(store.control)
      /\ store.control \in Control /\ job.previous \in Control /\ WellFormed(job.previous)
      /\ job.previous.generation \in Nat
  BY PhoneColumns DEF PhoneInv, StoreFits, MutationRow, Store, Control
<1>2. WordIsKept
  BY DEF PhoneInv, StoreFits, WordIsKept, Kept, Known, Idle
<1>3. KillIsHarmless
  <2> SUFFICES ASSUME job # Idle, Known(settled), job.fails # "quarantined"
               PROVE  \/ Loads(store) = settled
                      \/ job.of \in Logins /\ Loads(store) = job.of
                      \/ job.of \in Exits /\ Loads(store) = "none"
    BY PhoneConstants DEF KillIsHarmless, Known
  <2>1. job.of \in Callers /\ job.fails \in {"none", "failed", "quarantined"}
    BY <1>1 DEF PhoneInv, JobIsQueued, MutationRow
  <2>2. CASE job.of \in Logins
    <3>1. SaveHolds(store, job, settled, job.of)
      BY <2>2 DEF PhoneInv, StoreFits
    <3>2. CASE job.step = "restore"
      <4>1. PICK k \in {"a", "b"} : k = Target(job.previous)
        BY <1>1, StatusTells
      <4>2. /\ store[k] = job.of
            /\ Loads([store EXCEPT !.control = job.previous]) = settled
            /\ store.control \in {job.previous, Active(job.previous.generation + 1, k, job.of)}
        BY <3>1, <3>2, <4>1 DEF SaveHolds, Kept
      <4>3. CASE store.control = job.previous
        <5>1. [store EXCEPT !.control = job.previous] = store
          BY <1>1, <4>3 DEF Store
        <5> QED
          BY <4>2, <5>1
      <4>4. CASE store.control = Active(job.previous.generation + 1, k, job.of)
        <5>1. PICK r \in Records, n \in Nat : r = job.of /\ n = job.previous.generation + 1
          BY <1>1, <2>2, PhoneConstants
        <5>2. /\ store.control.status = "active" /\ store.control.slot = k
              /\ store.control.saved = r
          BY <4>4, <5>1, ControlRows
        <5>3. k = "a" \/ k = "b"
          BY <4>1
        <5> QED
          BY <1>1, <2>2, <4>2, <5>1, <5>2, <5>3, LoadsByFields
      <4> QED
        BY <4>2, <4>3, <4>4
    <3>3. CASE job.step # "restore"
      BY <2>1, <2>2, <3>1, <3>3 DEF SaveHolds, SaveSteps, Kept
    <3> QED
      BY <3>2, <3>3
  <2>3. CASE job.of \in Exits
    <3>1. ClearHolds(store, job, settled)
      BY <2>3 DEF PhoneInv, StoreFits
    <3>2. store.control.status = "cleared" => Loads(store) = "none"
      BY <1>1, LoadsByFields
    <3> QED
      BY <2>3, <3>1, <3>2 DEF ClearHolds, Kept
  <2>4. CASE job.of = "start"
    BY <2>4 DEF PhoneInv, StoreFits, StartHolds, Kept
  <2> QED
    BY <2>1, <2>2, <2>3, <2>4, PhoneConstants
<1>4. SessionTellsStore
  <2> SUFFICES ASSUME NoneBut("start"), calls["start"].step = "over", Known(settled), ~strayed
               PROVE  session.record = Loads(store)
    BY DEF SessionTellsStore, Known
  <2>1. \A c \in Callers : calls[c].step \in {"none", "over"}
    BY DEF NoneBut
  <2>2. job.of = "none"
    BY <1>1, <2>1 DEF PhoneInv, JobIsQueued, MutationRow
  <2>3. Loads(store) = settled
    BY <2>2 DEF PhoneInv, StoreFits, Kept
  <2>4. session.record = settled
    BY <2>1, PhoneConstants DEF PhoneInv, SessionFollows, InFlight
  <2> QED
    BY <2>3, <2>4
<1> QED
  BY <1>2, <1>3, <1>4

\* The inductive invariant holds of every behaviour.
LEMMA PhoneInvariant == PhoneSpec => []PhoneInv
<1>1. PhoneInit => PhoneInv
  BY InitKeeps
<1>2. PhoneInv /\ [PhoneNext]_phoneVars => PhoneInv'
  BY NextKeeps
<1> QED
  BY <1>1, <1>2, PTL DEF PhoneSpec

\* Store, screen, calls and turns keep their types, for any number of calls.
THEOREM PhoneTypeCorrect == PhoneSpec => []PhoneTypeOK
<1>1. PhoneInv => PhoneTypeOK
  BY DEF PhoneInv
<1> QED
  BY <1>1, PhoneInvariant, PTL

\* The store and the screen tell the same session, through failed writes, kills and
\* calls that overlap, for any number of them (save, clear, loadOrMigrate,
\* SessionProvider).
THEOREM SessionIsDurableAlways == PhoneSpec => SessionIsDurable
<1>1. PhoneInv => WordIsKept /\ KillIsHarmless /\ SessionTellsStore
  BY SessionIsTold
<1>2. PhoneInv /\ [PhoneNext]_phoneVars
        => [store.control.status = "cleared" /\ Loads(store)' # "none" =>
               job.of \in Logins /\ Loads(store)' = job.of]_phoneVars
  BY NextKeeps DEF ClearedStep
<1> QED
  BY <1>1, <1>2, PhoneInvariant, PTL DEF PhoneSpec, SessionIsDurable, ClearedStaysCleared

--------------------------------------------------------------------------------
(***************************************************************************)
(* Proofs about PhoneRealtime, for any number of pairings, clients,        *)
(* sockets, broadcasts and troubles: the screen says of the connection     *)
(* what is so, and a connection that is due is held or sought.             *)
(* The session and the screen may be ahead of the client until the effect  *)
(* runs: the invariant ties the present client's wire to the client's own  *)
(* token, which is the session's when nothing is out of date.              *)
(*                                                                         *)
(* What the screen says is the present client's state, so the invariant    *)
(* says which client that is and what it waits for (CurrentHolds), that    *)
(* the former ones wait for nothing but a ticket's answer (ClientsHold),   *)
(* and what may be on a wire (WiresHold): a served one carries snapshots   *)
(* the backend numbered since its start, which is why the number of a      *)
(* connected state is never ahead of the backend's.                        *)
(***************************************************************************)

\* A client that was replaced waits for nothing; a ticket it asked for may still be
\* answered.
ClientsHold ==
    \A n \in DOMAIN clients :
        n # current => /\ clients[n].stopped /\ clients[n].socket = 0
                       /\ ~clients[n].reconnectTimer /\ ~clients[n].requestPending

\* The present client's state is the provider's; unless it is revoked, which tries
\* nothing, it is started, and it asks for one ticket at a time, without a socket.
CurrentHolds ==
    current # 0 =>
        LET c == clients[current]
        IN  /\ realtime = c.state
            /\ c.asked = c.requestPending
            /\ c.asked => c.socket = 0
            /\ ~c.state.revoked => /\ ~c.stopped
                                   /\ c.socket # 0 \/ c.reconnectTimer \/ c.asked
            /\ c.state.revoked => c.socket = 0 /\ ~c.asked /\ ~c.reconnectTimer
            /\ c.socket \in 0..Len(wires)
            /\ c.socket # 0 => wires[c.socket].token = c.token

\* No wire is open but the present client's.
OnlyMine == \A k \in DOMAIN wires : wires[k].phone = "open" => k = MySocket

\* A state that is connected needs no snapshot, the rendered one neither.
StateHolds ==
    /\ realtime.status = "connected" => ~realtime.requiresSnapshot
    /\ rendered.realtime.status = "connected" => ~rendered.realtime.requiresSnapshot

\* No snapshot came before the baseline counted, and none is newer than the state.
HeardHolds ==
    MySocket # 0 =>
        /\ wires[MySocket].awaitingBaseline => wires[MySocket].heard = 0
        /\ ~wires[MySocket].awaitingBaseline => wires[MySocket].heard <= realtime.lastSequence

\* What is on a wire: before the backend accepts it nothing; while it serves it
\* snapshots it has numbered since its start; a revocation only for a revoked token.
WiresHold ==
    \A k \in DOMAIN wires :
        /\ wires[k].server = "asked" => wires[k].inbox = <<>> /\ wires[k].awaitingBaseline
        /\ \A i \in DOMAIN wires[k].inbox :
              /\ wires[k].server = "open" =>
                    /\ wires[k].inbox[i].event_type = "cockpit"
                    /\ wires[k].inbox[i].sequence <= mobile_realtime_sequence
              /\ wires[k].inbox[i].event_type = "token_revoked" => wires[k].token \in revoked_tokens

\* A broadcast underway has a number that was given out, and goes to wires there are.
UnderwayHolds ==
    \A u \in underway : u.sequence <= mobile_realtime_sequence /\ u.to \subseteq DOMAIN wires

\* A served wire is heard, or its baseline is on its way.
BaselineIsComing ==
    current # 0 /\ MySocket # 0 /\ wires[MySocket].server = "open" =>
        \/ realtime.status \in {"connected", "stale"}
        \/ wires[MySocket].awaitingBaseline /\ wires[MySocket].inbox # <<>>

RealtimeInv ==
    /\ RealtimeTypeOK
    /\ ClientsHold /\ CurrentHolds /\ StateHolds /\ WiresHold /\ UnderwayHolds
    /\ BaselineIsComing /\ ConnectedIsTrue /\ OnlyMine /\ RevokedByBackendOnly
    /\ HeardHolds /\ NewestIsShown

-----------------------------------------------------------------------------
(* The operators of the model.                                             *)

\* The assumptions, in the form the steps below use them.
LEMMA RealtimeConstants ==
    /\ MaxPairings \in Nat /\ MaxPairings > 0
    /\ MaxRealtimeClients \in Nat /\ MaxRealtimeClients > 0
    /\ MaxWires \in Nat /\ MaxWires > 0
    /\ MaxSequence \in Nat /\ MaxSequence > 0
    /\ MaxTroubles \in Nat
<1>1. {MaxPairings, MaxRealtimeClients, MaxWires, MaxSequence} \subseteq Nat \ {0}
  BY PhoneRealtimeAssumption
<1> QED
  BY <1>1, PhoneRealtimeAssumption

\* The variables have their types, a conjunct each.
LEMMA RealtimeTyped ==
  ASSUME RealtimeTypeOK
  PROVE  /\ tokens \in 1..MaxPairings /\ token \in 0..tokens /\ token \in 0..MaxPairings
         /\ revoked_tokens \subseteq 1..tokens
         /\ visible \in BOOLEAN /\ wrongly_revoked \in BOOLEAN
         /\ realtime \in MobileRealtimeState
         /\ rendered \in Rendered /\ rendered.realtime \in MobileRealtimeState
         /\ rendered.token \in 0..MaxPairings
         /\ clients \in Seq(Client) /\ Len(clients) \in 0..MaxRealtimeClients
         /\ DOMAIN clients = 1..Len(clients)
         /\ current \in 0..Len(clients)
         /\ wires \in Seq(Wire) /\ Len(wires) \in 0..MaxWires
         /\ DOMAIN wires = 1..Len(wires)
         /\ mobile_realtime_sequence \in 0..MaxSequence
         /\ underway \subseteq Broadcast
         /\ troubles \in 0..MaxTroubles
         /\ \A n \in DOMAIN clients : clients[n] \in Client
         /\ \A k \in DOMAIN wires : wires[k] \in Wire
<1>1. rendered \in Rendered
  BY DEF RealtimeTypeOK
<1>2. rendered.realtime \in MobileRealtimeState /\ rendered.token \in 0..MaxPairings
  BY <1>1 DEF Rendered
<1> QED
  BY <1>1, <1>2, RealtimeConstants DEF RealtimeTypeOK

\* The columns of a client.
LEMMA ClientColumns ==
  ASSUME NEW c \in Client
  PROVE  /\ c.token \in 1..MaxPairings /\ c.state \in MobileRealtimeState
         /\ c.stopped \in BOOLEAN /\ c.asked \in BOOLEAN /\ c.requestPending \in BOOLEAN
         /\ c.reconnectTimer \in BOOLEAN /\ c.socket \in 0..MaxWires
  BY DEF Client

\* The columns of a state.
LEMMA StateColumns ==
  ASSUME NEW s \in MobileRealtimeState
  PROVE  /\ s.lastSequence \in 0..MaxSequence /\ s.requiresSnapshot \in BOOLEAN
         /\ s.revoked \in BOOLEAN
         /\ s.status \in {"offline", "connecting", "connected", "stale", "revoked"}
  BY DEF MobileRealtimeState

\* The columns of a wire.
LEMMA WireColumns ==
  ASSUME NEW w \in Wire
  PROVE  /\ w.phone \in {"open", "closed"} /\ w.server \in {"asked", "open", "closed"}
         /\ w.token \in 1..MaxPairings /\ w.awaitingBaseline \in BOOLEAN
         /\ w.inbox \in Seq(Envelope) /\ w.heard \in 0..MaxSequence
  BY DEF Wire

\* What a state becomes, column by column.
LEMMA StatesMade ==
  ASSUME NEW s \in MobileRealtimeState
  PROVE  /\ Stale(s) \in MobileRealtimeState
         /\ Stale(s).status = "stale" /\ Stale(s).revoked = s.revoked
         /\ Stale(s).lastSequence = s.lastSequence
         /\ Revoked(s) \in MobileRealtimeState
         /\ Revoked(s).status = "revoked" /\ Revoked(s).revoked
         /\ Offline(s) \in MobileRealtimeState
         /\ Offline(s).status = "offline" /\ Offline(s).revoked = s.revoked
         /\ Offline(s).lastSequence = s.lastSequence
         /\ \A m \in Envelope :
               /\ Advanced(s, m) \in MobileRealtimeState
               /\ Advanced(s, m).status = "connected" /\ ~Advanced(s, m).requiresSnapshot
               /\ Advanced(s, m).revoked = s.revoked
               /\ Advanced(s, m).lastSequence = m.sequence
<1>1. /\ Stale(s) \in MobileRealtimeState
      /\ Stale(s).status = "stale" /\ Stale(s).revoked = s.revoked
      /\ Stale(s).lastSequence = s.lastSequence
  BY DEF MobileRealtimeState, Stale
<1>2. /\ Revoked(s) \in MobileRealtimeState
      /\ Revoked(s).status = "revoked" /\ Revoked(s).revoked
  BY DEF MobileRealtimeState, Revoked
<1>3. /\ Offline(s) \in MobileRealtimeState
      /\ Offline(s).status = "offline" /\ Offline(s).revoked = s.revoked
      /\ Offline(s).lastSequence = s.lastSequence
  BY DEF MobileRealtimeState, Offline
<1>4. ASSUME NEW m \in Envelope
      PROVE  /\ Advanced(s, m) \in MobileRealtimeState
             /\ Advanced(s, m).status = "connected" /\ ~Advanced(s, m).requiresSnapshot
             /\ Advanced(s, m).revoked = s.revoked
             /\ Advanced(s, m).lastSequence = m.sequence
  <2>1. m.sequence \in 0..MaxSequence
    BY RealtimeConstants DEF Envelope
  <2>2. /\ Advanced(s, m) \in MobileRealtimeState
        /\ Advanced(s, m).status = "connected" /\ ~Advanced(s, m).requiresSnapshot
        /\ Advanced(s, m).revoked = s.revoked
        /\ Advanced(s, m).lastSequence = m.sequence
    BY <2>1 DEF MobileRealtimeState, Advanced
  <2> QED
    BY <2>2
<1> QED
  BY <1>1, <1>2, <1>3, <1>4

\* A message makes the state stale, or advances it, or leaves it as it is; only a
\* revocation revokes it (reduceRealtime).
LEMMA Reduced ==
  ASSUME NEW s \in MobileRealtimeState, NEW m \in Envelope,
         NEW drifted \in BOOLEAN, NEW baseline \in BOOLEAN
  PROVE  LET next == reduceRealtime(s, m, drifted, baseline)
         IN  /\ next \in MobileRealtimeState
             /\ next.revoked => s.revoked \/ m.event_type = "token_revoked"
             /\ \/ /\ next = s /\ ~drifted /\ ~(baseline /\ m.event_type = "cockpit")
                   /\ m.event_type = "cockpit" => m.sequence <= s.lastSequence
                \/ /\ next.status = "stale" /\ s.lastSequence <= next.lastSequence
                   /\ drifted \/ m.event_type # "cockpit"
                \/ next.status = "revoked" /\ next.revoked /\ m.event_type = "token_revoked"
                \/ /\ next.status = "connected" /\ ~next.requiresSnapshot
                   /\ next.lastSequence = m.sequence
                   /\ m.event_type = "cockpit" /\ ~drifted
                   /\ baseline \/ s.lastSequence <= m.sequence
<1>1. SUFFICES ASSUME NEW next, next = reduceRealtime(s, m, drifted, baseline)
      PROVE  /\ next \in MobileRealtimeState
             /\ next.revoked => s.revoked \/ m.event_type = "token_revoked"
             /\ \/ /\ next = s /\ ~drifted /\ ~(baseline /\ m.event_type = "cockpit")
                   /\ m.event_type = "cockpit" => m.sequence <= s.lastSequence
                \/ /\ next.status = "stale" /\ s.lastSequence <= next.lastSequence
                   /\ drifted \/ m.event_type # "cockpit"
                \/ next.status = "revoked" /\ next.revoked /\ m.event_type = "token_revoked"
                \/ /\ next.status = "connected" /\ ~next.requiresSnapshot
                   /\ next.lastSequence = m.sequence
                   /\ m.event_type = "cockpit" /\ ~drifted
                   /\ baseline \/ s.lastSequence <= m.sequence
  OBVIOUS
<1>a. /\ m.sequence \in 0..MaxSequence /\ m.sequence \in Nat
      /\ s.lastSequence \in 0..MaxSequence /\ s.lastSequence \in Nat
  BY RealtimeConstants, StateColumns DEF Envelope
<1>2. CASE /\ next = s /\ ~drifted /\ ~(baseline /\ m.event_type = "cockpit")
           /\ m.event_type = "cockpit" => m.sequence <= s.lastSequence
  BY <1>2
<1>3. CASE /\ \/ next = Stale(s)
              \/ /\ next = [Stale(s) EXCEPT !.lastSequence = m.sequence]
                 /\ s.lastSequence <= m.sequence
           /\ drifted \/ m.event_type # "cockpit"
  <2>1. /\ next \in MobileRealtimeState /\ next.status = "stale" /\ next.revoked = s.revoked
        /\ s.lastSequence <= next.lastSequence
    <3>1. /\ Stale(s) \in MobileRealtimeState /\ Stale(s).status = "stale"
          /\ Stale(s).revoked = s.revoked /\ Stale(s).lastSequence = s.lastSequence
      BY StatesMade
    <3>3. CASE next = Stale(s)
      BY <1>a, <3>1, <3>3
    <3>4. CASE /\ next = [Stale(s) EXCEPT !.lastSequence = m.sequence]
               /\ s.lastSequence <= m.sequence
      BY <1>a, <3>1, <3>4 DEF MobileRealtimeState
    <3> QED
      BY <1>3, <3>3, <3>4
  <2> QED
    BY <1>3, <2>1
<1>4. CASE next = Revoked(s) /\ m.event_type = "token_revoked"
  <2>1. next \in MobileRealtimeState /\ next.status = "revoked" /\ next.revoked
    BY <1>4, StatesMade
  <2> QED
    BY <1>4, <2>1
<1>5. CASE /\ next = Advanced(s, m) /\ m.event_type = "cockpit" /\ ~drifted
           /\ baseline \/ s.lastSequence <= m.sequence
  <2>1. /\ next \in MobileRealtimeState /\ next.status = "connected" /\ ~next.requiresSnapshot
        /\ next.revoked = s.revoked /\ next.lastSequence = m.sequence
    BY <1>5, StatesMade
  <2> QED
    BY <1>5, <2>1
<1>6. CASE drifted
  BY <1>1, <1>3, <1>6 DEF reduceRealtime
<1>7. CASE ~drifted /\ m.event_type = "token_revoked"
  BY <1>1, <1>4, <1>7 DEF reduceRealtime
<1>8. CASE ~drifted /\ m.event_type = "cockpit"
  <2>1. next = Cockpit(s, m, baseline)
    BY <1>1, <1>8 DEF reduceRealtime
  <2> QED
    BY <1>a, <1>2, <1>5, <1>8, <2>1 DEF Cockpit
<1>9. CASE ~drifted /\ m.event_type = "invalidate"
  <2>1. next = Invalidated(s, m, baseline)
    BY <1>1, <1>9 DEF reduceRealtime
  <2> QED
    BY <1>a, <1>2, <1>3, <1>9, <2>1 DEF Invalidated
<1>10. m.event_type \in {"cockpit", "invalidate", "token_revoked"}
  BY DEF Envelope
<1> QED
  BY <1>6, <1>7, <1>8, <1>9, <1>10

\* A client that is disconnected waits for nothing (disconnect).
LEMMA Disconnected ==
  ASSUME NEW c \in Client
  PROVE  /\ Stopped(c) \in Client /\ disconnect(c) \in Client
         /\ Stopped(c).stopped /\ Stopped(c).socket = 0
         /\ ~Stopped(c).reconnectTimer /\ ~Stopped(c).requestPending
         /\ disconnect(c).stopped /\ disconnect(c).socket = 0
         /\ ~disconnect(c).reconnectTimer /\ ~disconnect(c).requestPending
<1>1. /\ Stopped(c) \in Client
      /\ Stopped(c).stopped /\ Stopped(c).socket = 0
      /\ ~Stopped(c).reconnectTimer /\ ~Stopped(c).requestPending
  <2>1. 0 \in 0..MaxWires
    BY RealtimeConstants
  <2> QED
    BY <2>1 DEF Client, Stopped
<1>2. Offline(c.state) \in MobileRealtimeState
  BY ClientColumns, StatesMade
<1> DEFINE off == [Stopped(c) EXCEPT !.state = Offline(c.state)]
<1>3. off \in Client /\ off.stopped /\ off.socket = 0 /\ ~off.reconnectTimer /\ ~off.requestPending
  BY <1>1, <1>2 DEF Client
<1>4. disconnect(c) = Stopped(c) \/ disconnect(c) = off
  BY DEF disconnect
<1> QED
  BY <1>1, <1>3, <1>4

\* A client that connects asks for a ticket unless it has a socket, a request or a
\* timer, or its state is revoked (connect).
LEMMA SocketsAsConnected ==
  ASSUME NEW c \in Client
  PROVE  LET d == connect_client(c)
         IN  /\ d \in Client
             /\ d.token = c.token /\ d.socket = c.socket
             /\ d.reconnectTimer = c.reconnectTimer
             /\ d.state.lastSequence = c.state.lastSequence
             /\ c.state.revoked => d = c
             /\ ~c.state.revoked =>
                   /\ ~d.stopped /\ ~d.state.revoked
                   /\ d.socket # 0 \/ d.reconnectTimer \/ d.requestPending
                   /\ c.socket # 0 \/ c.reconnectTimer \/ c.requestPending =>
                         /\ d.state = c.state /\ d.asked = c.asked
                         /\ d.requestPending = c.requestPending
                   /\ ~(c.socket # 0 \/ c.reconnectTimer \/ c.requestPending) =>
                         /\ d.asked /\ d.requestPending /\ d.state.status = "connecting"
<1>1. c.state \in MobileRealtimeState
  BY ClientColumns
<1>2. /\ [c.state EXCEPT !.status = "connecting"] \in MobileRealtimeState
      /\ [c.state EXCEPT !.status = "connecting"].status = "connecting"
      /\ [c.state EXCEPT !.status = "connecting"].revoked = c.state.revoked
      /\ [c.state EXCEPT !.status = "connecting"].lastSequence = c.state.lastSequence
  BY <1>1 DEF MobileRealtimeState
<1>3. CASE c.state.revoked
  BY <1>3 DEF connect_client
<1>4. CASE ~c.state.revoked /\ (c.socket # 0 \/ c.reconnectTimer \/ c.requestPending)
  <2>1. connect_client(c) = [c EXCEPT !.stopped = FALSE]
    BY <1>4 DEF connect_client
  <2> QED
    BY <1>4, <2>1 DEF Client
<1>5. CASE ~c.state.revoked /\ ~(c.socket # 0 \/ c.reconnectTimer \/ c.requestPending)
  <2>1. connect_client(c) = [c EXCEPT !.stopped = FALSE, !.requestPending = TRUE, !.asked = TRUE,
                                      !.state = [c.state EXCEPT !.status = "connecting"]]
    BY <1>5 DEF connect_client, Client
  <2> HIDE DEF connect_client
  <2> QED
    BY <1>2, <1>5, <2>1 DEF Client
<1> QED
  BY <1>3, <1>4, <1>5

\* One client in the place of another.
LEMMA Replaced ==
  ASSUME NEW cs \in Seq(Client), NEW n \in DOMAIN cs, NEW c \in Client,
         NEW new, new = [cs EXCEPT ![n] = c]
  PROVE  /\ new \in Seq(Client) /\ Len(new) = Len(cs)
         /\ DOMAIN new = DOMAIN cs /\ new[n] = c
         /\ \A i \in DOMAIN cs : i # n => new[i] = cs[i]
  OBVIOUS

\* A closed wire is heard no more; the backend's side stays as it is (SocketClosed).
LEMMA WireClosed ==
  ASSUME NEW ws \in Seq(Wire), NEW k \in 0..Len(ws)
  PROVE  LET closed == SocketClosed(ws, k)
         IN  /\ closed \in Seq(Wire) /\ Len(closed) = Len(ws)
             /\ DOMAIN closed = DOMAIN ws
             /\ \A j \in DOMAIN ws :
                   /\ closed[j].server = ws[j].server /\ closed[j].token = ws[j].token
                   /\ closed[j].awaitingBaseline = ws[j].awaitingBaseline
                   /\ closed[j].inbox = ws[j].inbox \/ closed[j].inbox = <<>>
                   /\ closed[j].phone = ws[j].phone \/ closed[j].phone = "closed"
                   /\ j # k => closed[j] = ws[j]
             /\ k # 0 => closed[k].phone = "closed"
<1>1. CASE k = 0
  BY <1>1 DEF SocketClosed
<1>2. CASE k # 0
  <2> DEFINE w == [ws[k] EXCEPT !.phone = "closed", !.inbox = <<>>, !.heard = 0]
  <2>1. k \in DOMAIN ws /\ ws[k] \in Wire
    BY <1>2
  <2>2. /\ w \in Wire /\ w.phone = "closed" /\ w.inbox = <<>> /\ w.server = ws[k].server
        /\ w.token = ws[k].token /\ w.awaitingBaseline = ws[k].awaitingBaseline
    <3>1. <<>> \in Seq(Envelope) /\ 0 \in 0..MaxSequence
      BY RealtimeConstants
    <3> QED
      BY <2>1, <3>1 DEF Wire
  <2>3. SocketClosed(ws, k) = [ws EXCEPT ![k] = w]
    BY <1>2, <2>1 DEF SocketClosed, Wire
  <2> HIDE DEF w
  <2> QED
    BY <1>2, <2>1, <2>2, <2>3
<1> QED
  BY <1>1, <1>2

-----------------------------------------------------------------------------
(* The provider's effect *)

\* The next client asks for a ticket unless it starts revoked (ConnectionProvider).
LEMMA FreshMade ==
  ASSUME RealtimeTypeOK, StateHolds, rendered.token # 0
  PROVE  /\ FreshClient \in Client
         /\ FreshClient.state \in MobileRealtimeState
         /\ FreshClient.state.status # "connected"
         /\ FreshClient.socket = 0 /\ ~FreshClient.reconnectTimer
         /\ FreshClient.asked = FreshClient.requestPending
         /\ FreshClient.state.revoked => ~FreshClient.asked
         /\ ~FreshClient.state.revoked => ~FreshClient.stopped /\ FreshClient.asked
<1>1. PICK rt \in MobileRealtimeState :
         rt = rendered.realtime /\ (rt.status = "connected" => ~rt.requiresSnapshot)
  BY RealtimeTyped DEF StateHolds
<1>2. PICK s \in MobileRealtimeState : /\ s = IF rt.requiresSnapshot THEN rt ELSE Offline(rt)
                                       /\ s.status # "connected"
  BY <1>1, StatesMade
<1>3. PICK base \in Client : /\ base = [token |-> rendered.token, state |-> s,
                                        stopped |-> TRUE, asked |-> FALSE,
                                        requestPending |-> FALSE,
                                        reconnectTimer |-> FALSE, socket |-> 0]
                             /\ base.state = s /\ ~base.asked /\ ~base.requestPending
                             /\ ~base.reconnectTimer /\ base.socket = 0
  <2>1. rendered.token \in 1..MaxPairings /\ 0 \in 0..MaxWires
    BY RealtimeTyped, RealtimeConstants
  <2> DEFINE made == [token |-> rendered.token, state |-> s, stopped |-> TRUE, asked |-> FALSE,
                      requestPending |-> FALSE, reconnectTimer |-> FALSE, socket |-> 0]
  <2>2. /\ made \in Client /\ made.state = s /\ ~made.asked /\ ~made.requestPending
        /\ ~made.reconnectTimer /\ made.socket = 0
    BY <2>1 DEF Client
  <2> QED
    BY <2>2
<1>4. PICK fresh : fresh = connect_client(base)
  OBVIOUS
<1>5. fresh = FreshClient
  BY <1>1, <1>2, <1>3, <1>4 DEF FreshClient
<1>6. /\ fresh \in Client /\ fresh.socket = 0 /\ ~fresh.reconnectTimer
      /\ s.revoked => fresh = base
      /\ ~s.revoked => /\ ~fresh.stopped /\ ~fresh.state.revoked
                       /\ fresh.asked /\ fresh.requestPending
                       /\ fresh.state.status = "connecting"
  BY <1>3, <1>4, SocketsAsConnected
<1>7. fresh.state \in MobileRealtimeState /\ fresh.asked \in BOOLEAN /\ fresh.requestPending \in BOOLEAN
  BY <1>6, ClientColumns
<1>8. CASE s.revoked
  BY <1>2, <1>3, <1>5, <1>6, <1>7, <1>8
<1>9. CASE ~s.revoked
  BY <1>5, <1>6, <1>7, <1>9
<1> QED
  BY <1>8, <1>9

\* Wires that are only closed on the phone's side carry nothing new.
LEMMA WiresKept ==
  ASSUME RealtimeTypeOK, WiresHold, UnderwayHolds,
         wires' \in Seq(Wire), Len(wires') = Len(wires),
         \A k \in 1..Len(wires) :
            /\ wires'[k].server = wires[k].server /\ wires'[k].token = wires[k].token
            /\ wires'[k].awaitingBaseline = wires[k].awaitingBaseline
            /\ wires'[k].inbox = wires[k].inbox \/ wires'[k].inbox = <<>>,
         UNCHANGED <<revoked_tokens, mobile_realtime_sequence, underway>>
  PROVE  WiresHold' /\ UnderwayHolds'
<1>1. DOMAIN wires = 1..Len(wires) /\ DOMAIN wires' = 1..Len(wires)
  BY RealtimeTyped
<1>2. UnderwayHolds'
  BY <1>1 DEF UnderwayHolds
<1>3. WiresHold'
  <2>1. DOMAIN <<>> = {}
    OBVIOUS
  <2> QED
    BY <1>1, <2>1 DEF WiresHold
<1> QED
  BY <1>2, <1>3

\* With no wire open and the provider's state as the effect left it, the screen
\* promises nothing.
LEMMA NothingPromised ==
  ASSUME wires' \in Seq(Wire), \A k \in 1..Len(wires') : wires'[k].phone = "closed",
         realtime'.status # "connected", current' # 0 => clients'[current'].socket = 0
  PROVE  BaselineIsComing' /\ ConnectedIsTrue' /\ OnlyMine' /\ HeardHolds' /\ NewestIsShown'
<1>1. DOMAIN wires' = 1..Len(wires')
  OBVIOUS
<1>2. OnlyMine'
  BY <1>1 DEF OnlyMine
<1> QED
  BY <1>2 DEF BaselineIsComing, ConnectedIsTrue, HeardHolds, NewestIsShown, MySocket

\* Who has an open wire (OnlyMine, CurrentHolds).
LEMMA OpenIsMine ==
  ASSUME RealtimeTypeOK, CurrentHolds, OnlyMine
  PROVE  /\ current # 0 => clients[current].socket \in 0..Len(wires)
         /\ \A k \in 1..Len(wires) : wires[k].phone = "open" =>
               current # 0 /\ k = clients[current].socket /\ clients[current].socket # 0
<1>1. DOMAIN wires = 1..Len(wires)
  BY RealtimeTyped
<1> QED
  BY <1>1 DEF CurrentHolds, OnlyMine, MySocket

\* The session, the screen and what was rendered may change without the client.
LEMMA AheadStep ==
  ASSUME RealtimeInv,
         tokens' \in 1..MaxPairings, tokens' >= tokens, token' \in 0..tokens',
         visible' \in BOOLEAN, rendered' \in Rendered,
         rendered'.realtime.status = "connected" => ~rendered'.realtime.requiresSnapshot,
         UNCHANGED <<revoked_tokens, realtime, clients, current, wires, mobile_realtime_sequence,
                     underway, troubles, wrongly_revoked>>
  PROVE  RealtimeInv'
<1> USE DEF RealtimeInv
<1>1. RealtimeTypeOK'
  <2>1. tokens \in Nat /\ tokens' \in Nat /\ 1..tokens \subseteq 1..tokens'
    BY RealtimeTyped, RealtimeConstants
  <2>2. revoked_tokens' \subseteq 1..tokens'
    BY <2>1, RealtimeTyped
  <2>3. {visible', wrongly_revoked'} \subseteq BOOLEAN
    BY RealtimeTyped
  <2> QED
    BY <2>2, <2>3 DEF RealtimeTypeOK
<1>2. MySocket' = MySocket
  BY DEF MySocket
<1>3. ClientsHold' /\ CurrentHolds' /\ StateHolds' /\ WiresHold' /\ UnderwayHolds'
  <2>1. ClientsHold' /\ CurrentHolds'
    BY DEF ClientsHold, CurrentHolds
  <2> QED
    BY <2>1 DEF StateHolds, WiresHold, UnderwayHolds
<1>4. BaselineIsComing' /\ ConnectedIsTrue' /\ OnlyMine' /\ RevokedByBackendOnly'
  BY <1>2 DEF BaselineIsComing, ConnectedIsTrue, OnlyMine, RevokedByBackendOnly
<1>5. HeardHolds' /\ NewestIsShown'
  BY <1>2 DEF HeardHolds, NewestIsShown
<1> QED
  BY <1>1, <1>3, <1>4, <1>5

\* A session is loaded, paired, or left.
LEMMA SessionStep ==
  ASSUME RealtimeInv, NEW t \in 0..MaxPairings, session_changes(t)
  PROVE  RealtimeInv'
<1>1. tokens \in 1..MaxPairings /\ rendered \in Rendered /\ visible \in BOOLEAN
  BY RealtimeTyped DEF RealtimeInv
<1>2. tokens' \in 1..MaxPairings /\ tokens' >= tokens /\ token' \in 0..tokens'
  BY <1>1, RealtimeConstants DEF session_changes
<1>3. rendered.realtime.status = "connected" => ~rendered.realtime.requiresSnapshot
  BY DEF RealtimeInv, StateHolds
<1> QED
  BY <1>1, <1>2, <1>3, AheadStep DEF session_changes

\* The network or the foreground comes or goes, or the provider renders.
LEMMA VisibilityStep ==
  ASSUME RealtimeInv, visibility_changes \/ provider_renders
  PROVE  RealtimeInv'
<1>1. /\ tokens \in 1..MaxPairings /\ rendered \in Rendered /\ visible \in BOOLEAN
      /\ token \in 0..tokens /\ token \in 0..MaxPairings /\ realtime \in MobileRealtimeState
  BY RealtimeTyped DEF RealtimeInv
<1>2. UNCHANGED <<token, tokens>> /\ tokens' >= tokens
  BY <1>1 DEF visibility_changes, provider_renders
<1>3. visible' \in BOOLEAN
  <2>1. CASE visibility_changes
    <3>1. (~visible) \in BOOLEAN
      OBVIOUS
    <3> QED
      BY <2>1, <3>1 DEF visibility_changes
  <2> QED
    BY <1>1, <2>1 DEF provider_renders
<1>4. /\ rendered' \in Rendered
      /\ rendered'.realtime.status = "connected" => ~rendered'.realtime.requiresSnapshot
  <2>1. CASE UNCHANGED rendered
    BY <1>1, <2>1 DEF RealtimeInv, StateHolds
  <2>2. CASE rendered' = [due |-> TRUE, token |-> token, visible |-> visible, realtime |-> realtime]
    <3>1. rendered'.realtime = realtime
      BY <2>2
    <3>2. rendered' \in Rendered
      BY <1>1, <2>2 DEF Rendered
    <3> QED
      BY <3>1, <3>2 DEF RealtimeInv, StateHolds
  <2> QED
    BY <2>1, <2>2 DEF visibility_changes, provider_renders
<1> QED
  BY <1>1, <1>2, <1>3, <1>4, AheadStep DEF visibility_changes, provider_renders

\* The effect drops the present client and closes its wire; the next one starts.
LEMMA EffectStep ==
  ASSUME RealtimeInv, connection_effect
  PROVE  RealtimeInv'
<1> USE DEF RealtimeInv
<1>1. /\ current \in 0..Len(clients) /\ Len(clients) \in 0..MaxRealtimeClients
      /\ DOMAIN clients = 1..Len(clients) /\ clients \in Seq(Client)
      /\ \A n \in DOMAIN clients : clients[n] \in Client
      /\ wires \in Seq(Wire) /\ DOMAIN wires = 1..Len(wires) /\ Len(wires) \in 0..MaxWires
      /\ realtime \in MobileRealtimeState
  BY RealtimeTyped
<1>2. PICK kept : kept = IF current = 0 THEN clients
                         ELSE [clients EXCEPT ![current] = disconnect(clients[current])]
  OBVIOUS
<1>3. /\ kept \in Seq(Client) /\ Len(kept) = Len(clients)
      /\ DOMAIN kept = 1..Len(clients)
      /\ \A n \in 1..Len(clients) :
            /\ kept[n].stopped /\ kept[n].socket = 0
            /\ ~kept[n].reconnectTimer /\ ~kept[n].requestPending
  <2>1. CASE current = 0
    BY <1>1, <1>2, <2>1 DEF ClientsHold
  <2>2. CASE current # 0
    <3>1. clients[current] \in Client /\ current \in 1..Len(clients)
      BY <1>1, <2>2
    <3>2. PICK d \in Client : d = disconnect(clients[current])
      BY <3>1, Disconnected
    <3>3. d.stopped /\ d.socket = 0 /\ ~d.reconnectTimer /\ ~d.requestPending
      BY <3>1, <3>2, Disconnected
    <3>4. kept = [clients EXCEPT ![current] = d]
      BY <1>2, <2>2, <3>2
    <3>5. kept \in Seq(Client) /\ Len(kept) = Len(clients) /\ DOMAIN kept = 1..Len(clients)
      BY <1>1, <3>1, <3>4
    <3>6. \A n \in 1..Len(clients) : kept[n] = IF n = current THEN d ELSE clients[n]
      BY <1>1, <3>1, <3>4
    <3> QED
      BY <1>1, <3>3, <3>5, <3>6 DEF ClientsHold
  <2> QED
    BY <2>1, <2>2
<1>4. /\ wires' \in Seq(Wire) /\ Len(wires') = Len(wires)
      /\ \A k \in 1..Len(wires) :
            /\ wires'[k].phone = "closed" /\ wires'[k].server = wires[k].server
            /\ wires'[k].token = wires[k].token
            /\ wires'[k].awaitingBaseline = wires[k].awaitingBaseline
            /\ wires'[k].inbox = wires[k].inbox \/ wires'[k].inbox = <<>>
  <2>1. \A k \in 1..Len(wires) : wires[k].phone \in {"open", "closed"}
    BY <1>1, WireColumns
  <2>2. /\ current # 0 => clients[current].socket \in 0..Len(wires)
        /\ \A k \in 1..Len(wires) : wires[k].phone = "open" =>
              current # 0 /\ k = clients[current].socket
    BY OpenIsMine
  <2>3. CASE current = 0
    <3>1. wires' = wires
      BY <2>3 DEF connection_effect
    <3> QED
      BY <1>1, <2>1, <2>2, <2>3, <3>1
  <2>4. CASE current # 0
    <3>1. wires' = SocketClosed(wires, clients[current].socket)
      BY <2>4 DEF connection_effect
    <3> QED
      BY <1>1, <2>1, <2>2, <2>4, <3>1, WireClosed
  <2> QED
    BY <2>3, <2>4
<1>5. /\ rendered.due /\ rendered' = NoRender
      /\ \/ /\ clients' = kept /\ current' = 0 /\ realtime' = Offline(realtime)
         \/ /\ rendered.token # 0
            /\ Len(clients) < MaxRealtimeClients
            /\ clients' = Append(kept, FreshClient) /\ current' = Len(clients) + 1
            /\ realtime' = FreshClient.state
      /\ UNCHANGED <<token, tokens, revoked_tokens, visible, mobile_realtime_sequence, underway,
                     troubles, wrongly_revoked>>
  BY <1>2 DEF connection_effect
<1>6. /\ clients' \in Seq(Client) /\ Len(clients') \in 0..MaxRealtimeClients
      /\ current' \in 0..Len(clients')
      /\ realtime' \in MobileRealtimeState /\ realtime'.status # "connected"
      /\ current' # 0 => clients'[current'].socket = 0
      /\ ClientsHold' /\ CurrentHolds'
  <2>1. CASE clients' = kept /\ current' = 0 /\ realtime' = Offline(realtime)
    <3>1. ClientsHold' /\ CurrentHolds'
      BY <1>3, <2>1 DEF ClientsHold, CurrentHolds
    <3> QED
      BY <1>1, <1>3, <2>1, <3>1, StatesMade
  <2>2. CASE /\ rendered.token # 0
             /\ Len(clients) < MaxRealtimeClients
             /\ clients' = Append(kept, FreshClient) /\ current' = Len(clients) + 1
             /\ realtime' = FreshClient.state
    <3>1. PICK fresh \in Client :
             /\ fresh = FreshClient /\ fresh.state \in MobileRealtimeState
             /\ fresh.state.status # "connected"
             /\ fresh.socket = 0 /\ ~fresh.reconnectTimer /\ fresh.asked = fresh.requestPending
             /\ fresh.state.revoked => ~fresh.asked
             /\ ~fresh.state.revoked => ~fresh.stopped /\ fresh.asked
      BY <2>2, FreshMade
    <3> DEFINE n == Len(clients) + 1
    <3>2. /\ clients' \in Seq(Client) /\ Len(clients') = n /\ DOMAIN clients' = 1..n
          /\ clients'[n] = fresh
          /\ \A i \in 1..Len(clients) : clients'[i] = kept[i]
      BY <1>1, <1>3, <2>2, <3>1
    <3>3. ClientsHold'
      <4>1. \A i \in 1..n : i # n => i \in 1..Len(clients)
        BY <1>1
      <4> QED
        BY <1>3, <2>2, <3>2, <4>1 DEF ClientsHold
    <3>4. 0 \in 0..Len(wires') /\ n \in 0..MaxRealtimeClients /\ n \in 0..n
      BY <1>1, <1>4, <2>2, RealtimeConstants
    <3>5. CurrentHolds'
      BY <2>2, <3>1, <3>2, <3>4 DEF CurrentHolds
    <3> QED
      BY <2>2, <3>1, <3>2, <3>3, <3>4, <3>5
  <2> QED
    BY <1>5, <2>1, <2>2
<1>7. NoRender \in Rendered /\ NoRender.realtime.status # "connected"
  BY RealtimeConstants DEF NoRender, Rendered, initialRealtimeState, MobileRealtimeState
<1>8. RealtimeTypeOK'
  <2>1. Len(clients') <= MaxRealtimeClients /\ Len(wires') <= MaxWires
    BY <1>1, <1>4, <1>6, RealtimeConstants
  <2> QED
    BY <1>4, <1>5, <1>6, <1>7, <2>1 DEF RealtimeTypeOK
<1>9. WiresHold' /\ UnderwayHolds'
  BY <1>4, <1>5, WiresKept
<1>10. BaselineIsComing' /\ ConnectedIsTrue' /\ OnlyMine' /\ HeardHolds' /\ NewestIsShown'
  BY <1>4, <1>6, NothingPromised
<1>11. StateHolds' /\ RevokedByBackendOnly'
  BY <1>5, <1>6, <1>7 DEF StateHolds, RevokedByBackendOnly
<1> QED
  BY <1>6, <1>8, <1>9, <1>10, <1>11

-----------------------------------------------------------------------------
(* The client *)

\* Nothing has been given up wrongly.
LEMMA NotWrong ==
  ASSUME RealtimeInv
  PROVE  wrongly_revoked = FALSE
<1>1. wrongly_revoked \in BOOLEAN /\ ~wrongly_revoked
  BY RealtimeTyped DEF RealtimeInv, RevokedByBackendOnly
<1> QED
  BY <1>1

\* The present client becomes c, and the provider shows its state.
LEMMA ClientStep ==
  ASSUME RealtimeInv, NEW n \in DOMAIN clients, n = current, NEW c \in Client,
         clients' = [clients EXCEPT ![n] = c], realtime' = c.state, c.token = clients[n].token,
         c.asked = c.requestPending, c.asked => c.socket = 0,
         ~c.state.revoked => ~c.stopped /\ (c.socket # 0 \/ c.reconnectTimer \/ c.asked),
         c.state.revoked => c.socket = 0 /\ ~c.asked /\ ~c.reconnectTimer,
         c.state.status = "connected" => ~c.state.requiresSnapshot,
         wires' \in Seq(Wire), Len(wires') \in Len(wires)..MaxWires,
         c.socket \in 0..Len(wires'), c.socket # 0 => wires'[c.socket].token = c.token,
         c.state.status = "connected" =>
            /\ c.socket # 0 /\ ~wires'[c.socket].awaitingBaseline
            /\ wires'[c.socket].server = "open" =>
                  c.state.lastSequence <= mobile_realtime_sequence,
         c.socket # 0 /\ wires'[c.socket].server = "open" =>
            \/ c.state.status \in {"connected", "stale"}
            \/ wires'[c.socket].awaitingBaseline /\ wires'[c.socket].inbox # <<>>,
         \A k \in 1..Len(wires') : wires'[k].phone = "open" => k = c.socket,
         c.socket # 0 =>
            /\ wires'[c.socket].awaitingBaseline => wires'[c.socket].heard = 0
            /\ ~wires'[c.socket].awaitingBaseline =>
                  wires'[c.socket].heard <= c.state.lastSequence,
         c.state.status = "connected" => c.state.lastSequence = wires'[c.socket].heard,
         WiresHold', troubles' \in 0..MaxTroubles,
         token' \in {0, token}, wrongly_revoked' = FALSE,
         UNCHANGED <<tokens, revoked_tokens, visible, rendered, current, mobile_realtime_sequence,
                     underway>>
  PROVE  RealtimeInv'
<1> USE DEF RealtimeInv
<1>1. /\ clients \in Seq(Client) /\ DOMAIN clients = 1..Len(clients) /\ n # 0
      /\ Len(clients) \in 0..MaxRealtimeClients
  BY RealtimeTyped
<1>2. /\ clients' \in Seq(Client) /\ Len(clients') = Len(clients) /\ clients'[current'] = c
      /\ DOMAIN clients' = DOMAIN clients
      /\ \A i \in DOMAIN clients : i # current => clients'[i] = clients[i]
  BY <1>1
<1>3. RealtimeTypeOK'
  <2>1. /\ tokens \in 1..MaxPairings /\ token' \in 0..tokens /\ revoked_tokens \subseteq 1..tokens
        /\ {visible', wrongly_revoked'} \subseteq BOOLEAN /\ rendered \in Rendered
        /\ current \in 0..Len(clients) /\ mobile_realtime_sequence \in 0..MaxSequence
        /\ underway \subseteq Broadcast
    <3>1. tokens \in 1..MaxPairings /\ token \in 0..tokens /\ visible \in BOOLEAN
      BY RealtimeTyped
    <3>2. token' \in 0..tokens
      BY <3>1, RealtimeConstants
    <3>3. {visible', wrongly_revoked'} \subseteq BOOLEAN
      BY <3>1
    <3> QED
      BY <3>1, <3>2, <3>3, RealtimeTyped
  <2>2. Len(clients') <= MaxRealtimeClients /\ Len(wires') <= MaxWires
    BY <1>1, <1>2, RealtimeTyped, RealtimeConstants
  <2>3. realtime' \in MobileRealtimeState
    BY ClientColumns
  <2> QED
    BY <1>2, <2>1, <2>2, <2>3 DEF RealtimeTypeOK
<1>4. ClientsHold'
  BY <1>2 DEF ClientsHold
<1>6. MySocket' = c.socket
  BY <1>1, <1>2 DEF MySocket
<1>7. DOMAIN wires' = 1..Len(wires') /\ DOMAIN wires \subseteq DOMAIN wires'
  BY RealtimeTyped, RealtimeConstants
<1>8. CurrentHolds'
  BY <1>1, <1>2 DEF CurrentHolds
<1>9. StateHolds' /\ UnderwayHolds' /\ RevokedByBackendOnly'
  BY <1>7 DEF StateHolds, UnderwayHolds, RevokedByBackendOnly
<1>10. BaselineIsComing' /\ ConnectedIsTrue'
  BY <1>2, <1>6 DEF BaselineIsComing, ConnectedIsTrue
<1>11. OnlyMine' /\ HeardHolds' /\ NewestIsShown'
  BY <1>6, <1>7 DEF OnlyMine, HeardHolds, NewestIsShown
<1> QED
  BY <1>3, <1>4, <1>8, <1>9, <1>10, <1>11

\* The present client's wire, as its invariants have it.
LEMMA MyWire ==
  ASSUME RealtimeInv, NEW n \in DOMAIN clients, n = current
  PROVE  /\ n # 0 /\ MySocket = clients[n].socket
         /\ realtime = clients[n].state
         /\ clients[n] \in Client
         /\ clients[n].socket \in 0..Len(wires)
         /\ clients[n].socket # 0 => /\ clients[n].socket \in DOMAIN wires
                                     /\ wires[clients[n].socket].token = clients[n].token
         /\ \A k \in 1..Len(wires) : wires[k].phone = "open" => k = clients[n].socket
<1>1. DOMAIN clients = 1..Len(clients) /\ clients[n] \in Client
  BY RealtimeTyped DEF RealtimeInv
<1>2. DOMAIN wires = 1..Len(wires) /\ Len(wires) \in Nat
  BY RealtimeTyped, RealtimeConstants DEF RealtimeInv
<1>3. n # 0
  BY <1>1
<1>4. MySocket = clients[n].socket
      /\ realtime = clients[n].state /\ clients[n].socket \in 0..Len(wires)
      /\ (clients[n].socket # 0 => wires[clients[n].socket].token = clients[n].token)
  BY <1>3 DEF MySocket, CurrentHolds, RealtimeInv
<1> QED
  BY <1>1, <1>2, <1>3, <1>4, OpenIsMine DEF RealtimeInv

\* A client that goes offline or connects again without touching a wire.
LEMMA QuietStep ==
  ASSUME RealtimeInv, NEW n \in DOMAIN clients, n = current, NEW c \in Client,
         clients' = [clients EXCEPT ![n] = c], realtime' = c.state, c.token = clients[n].token,
         c.asked = c.requestPending, c.asked => c.socket = 0,
         ~c.state.revoked => ~c.stopped /\ (c.socket # 0 \/ c.reconnectTimer \/ c.asked),
         c.state.revoked => c.socket = 0 /\ ~c.asked /\ ~c.reconnectTimer,
         c.socket = clients[n].socket,
         c.state = clients[n].state \/
            (/\ c.state.status # "connected"
             /\ c.socket # 0 => wires[c.socket].server # "open"),
         troubles' \in 0..MaxTroubles,
         c.state.lastSequence = clients[n].state.lastSequence,
         UNCHANGED <<token, tokens, revoked_tokens, visible, rendered, current, wires,
                     mobile_realtime_sequence, underway, wrongly_revoked>>
  PROVE  RealtimeInv'
<1>1. /\ n # 0 /\ MySocket = clients[n].socket
      /\ realtime = clients[n].state
      /\ clients[n].socket \in 0..Len(wires)
      /\ clients[n].socket # 0 => wires[clients[n].socket].token = clients[n].token
      /\ \A k \in 1..Len(wires) : wires[k].phone = "open" => k = clients[n].socket
  BY MyWire
<1>2. wires \in Seq(Wire) /\ Len(wires) \in Len(wires)..MaxWires
  BY RealtimeTyped, RealtimeConstants DEF RealtimeInv
<1>3. c.state.status = "connected" =>
         /\ ~c.state.requiresSnapshot
         /\ c.socket # 0 /\ ~wires[c.socket].awaitingBaseline
         /\ wires[c.socket].server = "open" => c.state.lastSequence <= mobile_realtime_sequence
  BY <1>1 DEF RealtimeInv, StateHolds, ConnectedIsTrue
<1>4. c.socket # 0 /\ wires[c.socket].server = "open" =>
         \/ c.state.status \in {"connected", "stale"}
         \/ wires[c.socket].awaitingBaseline /\ wires[c.socket].inbox # <<>>
  BY <1>1 DEF RealtimeInv, BaselineIsComing
<1>5. WiresHold'
  BY DEF RealtimeInv, WiresHold
<1>6. /\ c.socket # 0 =>
            /\ wires[c.socket].awaitingBaseline => wires[c.socket].heard = 0
            /\ ~wires[c.socket].awaitingBaseline => wires[c.socket].heard <= c.state.lastSequence
      /\ c.state.status = "connected" => c.state.lastSequence = wires[c.socket].heard
  BY <1>1 DEF RealtimeInv, HeardHolds, NewestIsShown
<1>7. wrongly_revoked' = FALSE
  BY NotWrong
<1> QED
  BY <1>1, <1>2, <1>3, <1>4, <1>5, <1>6, <1>7, ClientStep

\* The present client gives up the session there is, which the backend has revoked
\* unless an effect is due (revoke, revokeSession).
LEMMA RevokeStep ==
  ASSUME RealtimeInv, NEW n \in DOMAIN clients, n = current,
         NEW c \in Client, c.token = clients[n].token, c.socket = clients[n].socket, ~c.asked,
         NEW state \in MobileRealtimeState, state.revoked,
         state.status # "connected", revoke(n, c, state), clients[n].token \in revoked_tokens,
         UNCHANGED <<tokens, revoked_tokens, visible, rendered, mobile_realtime_sequence, underway>>,
         troubles' \in 0..MaxTroubles
  PROVE  RealtimeInv'
<1>1. /\ n # 0 /\ clients[n].socket \in 0..Len(wires)
      /\ \A k \in 1..Len(wires) : wires[k].phone = "open" => k = clients[n].socket
  BY MyWire
<1>2. PICK gone \in Client : /\ gone = [Stopped(c) EXCEPT !.state = state]
                             /\ gone.socket = 0 /\ gone.state = state /\ gone.token = c.token
                             /\ ~gone.asked /\ ~gone.requestPending /\ ~gone.reconnectTimer
  <2>1. Stopped(c) \in Client /\ Stopped(c).socket = 0 /\ ~Stopped(c).requestPending
        /\ ~Stopped(c).reconnectTimer
    BY Disconnected
  <2>2. Stopped(c).token = c.token /\ ~Stopped(c).asked
    BY DEF Stopped, Client
  <2>3. /\ [Stopped(c) EXCEPT !.state = state] \in Client
        /\ [Stopped(c) EXCEPT !.state = state].socket = 0
        /\ [Stopped(c) EXCEPT !.state = state].state = state
        /\ [Stopped(c) EXCEPT !.state = state].token = c.token
        /\ ~[Stopped(c) EXCEPT !.state = state].asked
        /\ ~[Stopped(c) EXCEPT !.state = state].requestPending
        /\ ~[Stopped(c) EXCEPT !.state = state].reconnectTimer
    BY <2>1, <2>2 DEF Client
  <2> QED
    BY <2>3
<1>3. /\ clients' = [clients EXCEPT ![n] = gone] /\ realtime' = gone.state
      /\ wires' = SocketClosed(wires, clients[n].socket) /\ token' = 0
      /\ UNCHANGED current
  BY <1>2 DEF revoke
<1>4. wires \in Seq(Wire) /\ DOMAIN wires = 1..Len(wires) /\ Len(wires) \in 0..MaxWires
  BY RealtimeTyped DEF RealtimeInv
<1>5. /\ wires' \in Seq(Wire) /\ Len(wires') = Len(wires)
      /\ \A j \in 1..Len(wires) :
            /\ wires'[j].server = wires[j].server /\ wires'[j].token = wires[j].token
            /\ wires'[j].awaitingBaseline = wires[j].awaitingBaseline
            /\ wires'[j].inbox = wires[j].inbox \/ wires'[j].inbox = <<>>
            /\ wires'[j].phone = wires[j].phone \/ wires'[j].phone = "closed"
      /\ clients[n].socket # 0 => wires'[clients[n].socket].phone = "closed"
  BY <1>1, <1>3, <1>4, WireClosed
<1>6. \A j \in 1..Len(wires) : wires'[j].phone # "open"
  BY <1>1, <1>4, <1>5
<1>7. WiresHold'
  BY <1>5, WiresKept DEF RealtimeInv
<1>8. wrongly_revoked' = FALSE
  <2>1. token # 0 /\ token \notin revoked_tokens => OutOfDate
    BY <1>1 DEF OutOfDate
  <2> QED
    BY <2>1, NotWrong DEF revoke
<1>9. Len(wires') \in Len(wires)..MaxWires /\ 0 \in 0..Len(wires')
  BY <1>4, <1>5
<1>10. gone.asked = gone.requestPending
  BY <1>2, ClientColumns
<1>11. /\ gone.socket = 0 /\ gone.token = clients[n].token /\ ~gone.asked /\ gone.state.revoked
       /\ gone.state.status # "connected" /\ ~gone.reconnectTimer
       /\ clients' = [clients EXCEPT ![n] = gone] /\ realtime' = gone.state
       /\ \A k \in 1..Len(wires') : wires'[k].phone = "open" => k = gone.socket
       /\ gone.socket \in 0..Len(wires') /\ token' \in {0, token} /\ UNCHANGED current
  BY <1>2, <1>3, <1>5, <1>6, <1>9
<1> QED
  BY <1>5, <1>7, <1>8, <1>9, <1>10, <1>11, ClientStep

\* Only the present client waits for a timer or a socket, and it hears an answer
\* only while it is not stopped.
LEMMA WhoWaits ==
  ASSUME RealtimeInv, NEW n \in DOMAIN clients
  PROVE  /\ clients[n].reconnectTimer => n = current
         /\ clients[n].socket # 0 => n = current
         /\ ~clients[n].stopped => n = current
         /\ clients[n].asked /\ clients[n].stopped => n # current
         /\ clients[n].asked \/ clients[n].socket # 0 \/ clients[n].reconnectTimer =>
               (n = current => ~clients[n].state.revoked /\ ~clients[n].stopped)
         /\ n = current => clients[n].asked = clients[n].requestPending
         /\ clients[n].asked /\ n = current => clients[n].socket = 0
<1>1. n # 0
  BY RealtimeTyped DEF RealtimeInv
<1> QED
  BY <1>1 DEF RealtimeInv, ClientsHold, CurrentHolds

\* The timer of a reconnect runs out.
LEMMA TimerStep ==
  ASSUME RealtimeInv, NEW n \in DOMAIN clients, reconnect_timer(n)
  PROVE  RealtimeInv'
<1>1. n = current /\ ~clients[n].state.revoked /\ clients[n] \in Client
  BY WhoWaits, RealtimeTyped DEF reconnect_timer, RealtimeInv
<1>2. PICK b \in Client : /\ b = [clients[n] EXCEPT !.reconnectTimer = FALSE]
                          /\ b.state = clients[n].state /\ b.socket = clients[n].socket
                          /\ b.token = clients[n].token /\ b.asked = clients[n].asked
                          /\ b.requestPending = clients[n].requestPending
                          /\ ~b.reconnectTimer
  <2>1. [clients[n] EXCEPT !.reconnectTimer = FALSE] \in Client
    BY <1>1 DEF Client
  <2> QED
    BY <1>1, <2>1 DEF Client
<1>3. PICK c \in Client : c = connect_client(b)
  BY SocketsAsConnected
<1>4. /\ c.token = b.token /\ c.socket = b.socket /\ c.reconnectTimer = b.reconnectTimer
      /\ ~c.stopped /\ ~c.state.revoked
      /\ c.socket # 0 \/ c.reconnectTimer \/ c.requestPending
      /\ b.socket # 0 \/ b.reconnectTimer \/ b.requestPending =>
            c.state = b.state /\ c.asked = b.asked /\ c.requestPending = b.requestPending
      /\ ~(b.socket # 0 \/ b.reconnectTimer \/ b.requestPending) =>
            c.asked /\ c.requestPending /\ c.state.status = "connecting"
      /\ c.state.lastSequence = b.state.lastSequence
  BY <1>1, <1>2, <1>3, SocketsAsConnected
<1>5. clients[n].asked = clients[n].requestPending /\ (clients[n].asked => clients[n].socket = 0)
  BY <1>1, WhoWaits
<1>6. /\ clients' = [clients EXCEPT ![n] = c] /\ realtime' = c.state
      /\ UNCHANGED <<token, tokens, revoked_tokens, visible, rendered, current, wires,
                     mobile_realtime_sequence, underway, troubles, wrongly_revoked>>
  BY <1>2, <1>3 DEF reconnect_timer, Updated
<1>7. troubles' \in 0..MaxTroubles
  BY <1>6, RealtimeTyped DEF RealtimeInv
<1>8. CASE b.socket # 0 \/ b.reconnectTimer \/ b.requestPending
  <2>1. c.state = clients[n].state /\ c.asked = c.requestPending /\ (c.asked => c.socket = 0)
        /\ (c.socket # 0 \/ c.reconnectTimer \/ c.asked)
    BY <1>2, <1>4, <1>5, <1>8
  <2> QED
    BY <1>1, <1>2, <1>4, <1>6, <1>7, <2>1, QuietStep
<1>9. CASE ~(b.socket # 0 \/ b.reconnectTimer \/ b.requestPending)
  <2>1. c.asked = c.requestPending /\ c.socket = 0 /\ c.asked /\ c.state.status # "connected"
    BY <1>4, <1>9, ClientColumns
  <2> QED
    BY <1>1, <1>2, <1>4, <1>6, <1>7, <2>1, QuietStep
<1> QED
  BY <1>8, <1>9

\* The socket reports an error; the backend's side is closed.
LEMMA ErrorStep ==
  ASSUME RealtimeInv, NEW n \in DOMAIN clients, onerror(n)
  PROVE  RealtimeInv'
<1>1. /\ n = current /\ ~clients[n].state.revoked /\ ~clients[n].stopped
      /\ clients[n] \in Client /\ clients[n].state \in MobileRealtimeState
      /\ clients[n].asked = clients[n].requestPending /\ (clients[n].asked => clients[n].socket = 0)
  BY WhoWaits, RealtimeTyped, ClientColumns DEF onerror, RealtimeInv
<1>2. PICK s \in MobileRealtimeState : /\ s = Offline(clients[n].state)
                                       /\ s.status = "offline" /\ ~s.revoked
                                       /\ s.lastSequence = clients[n].state.lastSequence
  BY <1>1, StatesMade
<1>3. PICK c \in Client : c = [clients[n] EXCEPT !.state = s]
  <2>1. [clients[n] EXCEPT !.state = s] \in Client
    BY <1>1 DEF Client
  <2> QED
    BY <2>1
<1>4. /\ c.state = s /\ c.token = clients[n].token /\ c.socket = clients[n].socket
      /\ c.asked = clients[n].asked /\ c.requestPending = clients[n].requestPending
      /\ c.stopped = clients[n].stopped /\ c.reconnectTimer = clients[n].reconnectTimer
  BY <1>1, <1>3 DEF Client
<1>5. /\ clients' = [clients EXCEPT ![n] = c] /\ realtime' = c.state
      /\ clients[n].socket # 0 /\ wires[clients[n].socket].server = "closed"
      /\ UNCHANGED <<token, tokens, revoked_tokens, visible, rendered, current, wires,
                     mobile_realtime_sequence, underway, troubles, wrongly_revoked>>
  BY <1>2, <1>3 DEF onerror, Updated
<1>6. troubles' \in 0..MaxTroubles
  BY <1>5, RealtimeTyped DEF RealtimeInv
<1> QED
  BY <1>1, <1>2, <1>4, <1>5, <1>6, QuietStep

\* The socket closes when all it brought was heard; a reconnect is scheduled.
LEMMA CloseStep ==
  ASSUME RealtimeInv, NEW n \in DOMAIN clients, onclose(n)
  PROVE  RealtimeInv'
<1>1. /\ n = current /\ ~clients[n].state.revoked /\ ~clients[n].stopped
      /\ clients[n] \in Client /\ clients[n].state \in MobileRealtimeState
      /\ clients[n].asked = clients[n].requestPending /\ (clients[n].asked => clients[n].socket = 0)
  BY WhoWaits, RealtimeTyped, ClientColumns DEF onclose, RealtimeInv
<1>2. PICK s \in MobileRealtimeState : /\ s = Offline(clients[n].state)
                                       /\ s.status = "offline" /\ ~s.revoked
                                       /\ s.lastSequence = clients[n].state.lastSequence
  BY <1>1, StatesMade
<1>3. PICK c \in Client : c = scheduleReconnect([clients[n] EXCEPT !.socket = 0, !.state = s])
  <2>1. 0 \in 0..MaxWires
    BY RealtimeConstants
  <2>2. scheduleReconnect([clients[n] EXCEPT !.socket = 0, !.state = s]) \in Client
    BY <1>1, <2>1 DEF Client, scheduleReconnect
  <2> QED
    BY <2>2
<1>4. /\ c.state = s /\ c.token = clients[n].token /\ c.socket = 0 /\ c.reconnectTimer
      /\ c.asked = clients[n].asked /\ c.requestPending = clients[n].requestPending
      /\ c.stopped = clients[n].stopped
  BY <1>1, <1>3 DEF Client, scheduleReconnect
<1> DEFINE k == clients[n].socket
<1>5. /\ clients' = [clients EXCEPT ![n] = c] /\ realtime' = c.state
      /\ k # 0 /\ wires' = SocketClosed(wires, k)
      /\ UNCHANGED <<token, tokens, revoked_tokens, visible, rendered, current,
                     mobile_realtime_sequence, underway, troubles, wrongly_revoked>>
  BY <1>2, <1>3 DEF onclose, Updated
<1>6. k \in 0..Len(wires) /\ \A j \in 1..Len(wires) : wires[j].phone = "open" => j = k
  BY <1>1, MyWire
<1>7. wires \in Seq(Wire) /\ DOMAIN wires = 1..Len(wires) /\ Len(wires) \in 0..MaxWires
  BY RealtimeTyped DEF RealtimeInv
<1>8. /\ wires' \in Seq(Wire) /\ Len(wires') = Len(wires)
      /\ \A j \in 1..Len(wires) :
            /\ wires'[j].server = wires[j].server /\ wires'[j].token = wires[j].token
            /\ wires'[j].awaitingBaseline = wires[j].awaitingBaseline
            /\ wires'[j].inbox = wires[j].inbox \/ wires'[j].inbox = <<>>
            /\ wires'[j].phone # "open"
  <2>1. /\ wires' \in Seq(Wire) /\ Len(wires') = Len(wires)
        /\ \A j \in 1..Len(wires) :
              /\ wires'[j].server = wires[j].server /\ wires'[j].token = wires[j].token
              /\ wires'[j].awaitingBaseline = wires[j].awaitingBaseline
              /\ wires'[j].inbox = wires[j].inbox \/ wires'[j].inbox = <<>>
              /\ wires'[j].phone = wires[j].phone \/ wires'[j].phone = "closed"
        /\ wires'[k].phone = "closed"
    <3> HIDE DEF k
    <3> QED
      BY <1>5, <1>6, <1>7, WireClosed
  <2> QED
    BY <1>6, <2>1
<1>9. WiresHold'
  BY <1>5, <1>8, WiresKept DEF RealtimeInv
<1>10. troubles' \in 0..MaxTroubles /\ Len(wires') \in Len(wires)..MaxWires /\ 0 \in 0..Len(wires')
  BY <1>5, <1>7, <1>8, RealtimeTyped DEF RealtimeInv
<1>11. wrongly_revoked' = FALSE /\ token' \in {0, token}
  BY <1>5, NotWrong
<1> QED
  BY <1>1, <1>2, <1>4, <1>5, <1>8, <1>9, <1>10, <1>11, ClientStep

\* A ticket's answer to a client that was stopped changes nothing else.
LEMMA IgnoredStep ==
  ASSUME RealtimeInv, NEW n \in DOMAIN clients, clients[n].asked, clients[n].stopped,
         NEW c \in Client, c = [clients[n] EXCEPT !.asked = FALSE],
         clients' = [clients EXCEPT ![n] = c], troubles' \in 0..MaxTroubles,
         UNCHANGED <<token, tokens, revoked_tokens, visible, realtime, rendered, current, wires,
                     mobile_realtime_sequence, underway, wrongly_revoked>>
  PROVE  RealtimeInv'
<1> USE DEF RealtimeInv
<1>1. n # current /\ clients[n] \in Client
  BY WhoWaits, RealtimeTyped
<1>2. /\ c.stopped = clients[n].stopped /\ c.socket = clients[n].socket
      /\ c.reconnectTimer = clients[n].reconnectTimer
      /\ c.requestPending = clients[n].requestPending
  BY <1>1 DEF Client
<1>3. clients \in Seq(Client) /\ DOMAIN clients = 1..Len(clients)
  BY RealtimeTyped
<1>4. /\ clients' \in Seq(Client) /\ Len(clients') = Len(clients)
      /\ DOMAIN clients' = DOMAIN clients /\ clients'[n] = c
      /\ \A i \in DOMAIN clients : i # n => clients'[i] = clients[i]
  BY <1>3, Replaced
<1>5. RealtimeTypeOK'
  BY <1>4 DEF RealtimeTypeOK
<1>6. ClientsHold'
  BY <1>2, <1>4 DEF ClientsHold
<1>7. current # 0 => clients'[current] = clients[current]
  <2>1. current # 0 => current \in DOMAIN clients
    BY <1>3, RealtimeTyped
  <2> QED
    BY <1>1, <1>4, <2>1
<1>8. CurrentHolds'
  BY <1>7 DEF CurrentHolds
<1>9. MySocket' = MySocket
  BY <1>7 DEF MySocket
<1>10. ConnectedIsTrue'
  <2>1. MySocket # 0 => current # 0
    BY DEF MySocket
  <2> QED
    BY <1>7, <1>9, <2>1 DEF ConnectedIsTrue
<1>11. StateHolds' /\ WiresHold' /\ UnderwayHolds' /\ BaselineIsComing' /\ OnlyMine'
       /\ RevokedByBackendOnly' /\ HeardHolds' /\ NewestIsShown'
  BY <1>9 DEF StateHolds, WiresHold, UnderwayHolds, BaselineIsComing, OnlyMine,
     RevokedByBackendOnly, HeardHolds, NewestIsShown
<1> QED
  BY <1>5, <1>6, <1>8, <1>10, <1>11

\* The number of troubles stays within its bound.
LEMMA TroublesTyped ==
  ASSUME RealtimeInv, Trouble \/ UNCHANGED troubles
  PROVE  troubles' \in 0..MaxTroubles
<1>1. troubles \in 0..MaxTroubles
  BY RealtimeTyped DEF RealtimeInv
<1> QED
  BY <1>1, RealtimeConstants DEF Trouble

\* A ticket's answer: a socket, a revocation, or a failure (openSocket).
LEMMA AnswerStep ==
  ASSUME RealtimeInv, NEW n \in DOMAIN clients, NEW answer \in {"ticket", "denied", "failed"},
         openSocket(n, answer)
  PROVE  RealtimeInv'
<1>1. /\ clients[n] \in Client /\ clients[n].state \in MobileRealtimeState
      /\ clients[n].asked /\ clients[n].token \in 1..MaxPairings
      /\ clients[n].reconnectTimer \in BOOLEAN
  BY RealtimeTyped, ClientColumns DEF openSocket, RealtimeInv
<1>2. troubles' \in 0..MaxTroubles
  <2>1. Trouble \/ UNCHANGED troubles
    BY DEF openSocket
  <2> QED
    BY <2>1, TroublesTyped
<1>3. PICK b \in Client : /\ b = [clients[n] EXCEPT !.asked = FALSE, !.requestPending = FALSE]
                          /\ b.token = clients[n].token /\ b.state = clients[n].state
                          /\ b.stopped = clients[n].stopped /\ b.socket = clients[n].socket
                          /\ b.reconnectTimer = clients[n].reconnectTimer
                          /\ ~b.asked /\ ~b.requestPending
  <2>1. [clients[n] EXCEPT !.asked = FALSE, !.requestPending = FALSE] \in Client
    BY <1>1 DEF Client
  <2> QED
    BY <1>1, <2>1 DEF Client
<1>4. /\ answer = "denied" => clients[n].token \in revoked_tokens
      /\ UNCHANGED <<tokens, revoked_tokens, visible, rendered, mobile_realtime_sequence, underway>>
      /\ \/ /\ clients[n].stopped
            /\ clients' = [clients EXCEPT ![n].asked = FALSE]
            /\ UNCHANGED <<token, realtime, current, wires, wrongly_revoked>>
         \/ /\ ~clients[n].stopped /\ answer = "ticket"
            /\ Len(wires) < MaxWires
            /\ wires' = Append(wires, [phone |-> "open", server |-> "asked",
                                       token |-> clients[n].token,
                                       awaitingBaseline |-> TRUE, inbox |-> <<>>,
                                       heard |-> 0])
            /\ clients' = [clients EXCEPT ![n] = [b EXCEPT !.socket = Len(wires) + 1]]
            /\ UNCHANGED <<token, realtime, current, wrongly_revoked>>
         \/ /\ ~clients[n].stopped /\ answer = "denied"
            /\ revoke(n, b, Revoked(clients[n].state))
         \/ /\ ~clients[n].stopped /\ answer = "failed"
            /\ Updated(n, scheduleReconnect([b EXCEPT !.state = Offline(clients[n].state)]))
            /\ UNCHANGED <<token, current, wires, wrongly_revoked>>
  BY <1>3 DEF openSocket, Ignored
<1>5. CASE clients[n].stopped
  <2>1. PICK c \in Client : c = [clients[n] EXCEPT !.asked = FALSE]
    <3>1. [clients[n] EXCEPT !.asked = FALSE] \in Client
      BY <1>1 DEF Client
    <3> QED
      BY <3>1
  <2>2. clients' = [clients EXCEPT ![n] = c]
    BY <1>4, <1>5, <2>1
  <2> QED
    BY <1>1, <1>2, <1>4, <1>5, <2>1, <2>2, IgnoredStep
<1>6. ASSUME ~clients[n].stopped
      PROVE  /\ n = current /\ ~clients[n].state.revoked /\ clients[n].socket = 0
             /\ realtime = clients[n].state
             /\ \A k \in 1..Len(wires) : wires[k].phone # "open"
  <2>1. n = current /\ ~clients[n].state.revoked /\ clients[n].socket = 0
    BY <1>1, <1>6, WhoWaits
  <2>2. \A k \in 1..Len(wires) : wires[k].phone = "open" => k = 0
    BY <2>1, MyWire
  <2> QED
    BY <2>1, <2>2, MyWire
<1>7. CASE ~clients[n].stopped /\ answer = "denied"
  <2>1. Revoked(clients[n].state) \in MobileRealtimeState
        /\ Revoked(clients[n].state).status # "connected" /\ Revoked(clients[n].state).revoked
    BY <1>1, StatesMade
  <2>2. clients[n].token \in revoked_tokens /\ revoke(n, b, Revoked(clients[n].state))
    BY <1>4, <1>6, <1>7
  <2> QED
    BY <1>2, <1>3, <1>4, <1>6, <1>7, <2>1, <2>2, RevokeStep
<1>8. CASE ~clients[n].stopped /\ answer = "failed"
  <2>1. PICK s \in MobileRealtimeState : /\ s = Offline(clients[n].state)
                                         /\ s.status = "offline" /\ ~s.revoked
                                         /\ s.lastSequence = clients[n].state.lastSequence
    BY <1>1, <1>6, <1>8, StatesMade
  <2>2. PICK c \in Client : c = scheduleReconnect([b EXCEPT !.state = s])
    <3>1. scheduleReconnect([b EXCEPT !.state = s]) \in Client
      BY DEF Client, scheduleReconnect
    <3> QED
      BY <3>1
  <2>3. /\ c.state = s /\ c.token = b.token /\ c.socket = b.socket /\ c.reconnectTimer
        /\ c.asked = b.asked /\ c.requestPending = b.requestPending
        /\ c.stopped = b.stopped
    BY <2>2 DEF Client, scheduleReconnect
  <2>4. /\ clients' = [clients EXCEPT ![n] = c] /\ realtime' = c.state
        /\ UNCHANGED <<token, current, wires, wrongly_revoked>>
    BY <1>4, <1>8, <2>1, <2>2 DEF Updated
  <2>5. c.asked = c.requestPending /\ ~c.asked
    BY <1>3, <2>3, ClientColumns
  <2> QED
    BY <1>2, <1>3, <1>4, <1>6, <1>8, <2>1, <2>3, <2>4, <2>5, QuietStep
<1>9. CASE ~clients[n].stopped /\ answer = "ticket"
  <2> DEFINE m == Len(wires) + 1
  <2>1. /\ Len(wires) < MaxWires /\ Len(wires) \in Nat /\ wires \in Seq(Wire)
        /\ DOMAIN wires = 1..Len(wires)
    BY <1>4, <1>9, RealtimeTyped, RealtimeConstants DEF RealtimeInv
  <2>2. PICK w \in Wire : /\ w = [phone |-> "open", server |-> "asked",
                                  token |-> clients[n].token,
                                  awaitingBaseline |-> TRUE, inbox |-> <<>>, heard |-> 0]
                          /\ w.server = "asked" /\ w.token = clients[n].token
                          /\ w.awaitingBaseline /\ w.inbox = <<>> /\ w.heard = 0
    <3>1. <<>> \in Seq(Envelope) /\ 0 \in 0..MaxSequence
      BY RealtimeConstants
    <3>2. [phone |-> "open", server |-> "asked", token |-> clients[n].token,
           awaitingBaseline |-> TRUE, inbox |-> <<>>, heard |-> 0] \in Wire
      BY <1>1, <3>1 DEF Wire
    <3> QED
      BY <3>2
  <2>3. PICK c \in Client : c = [b EXCEPT !.socket = m]
    <3>1. m \in 0..MaxWires
      BY <2>1, RealtimeConstants
    <3>2. [b EXCEPT !.socket = m] \in Client
      BY <3>1 DEF Client
    <3> QED
      BY <3>2
  <2>4. /\ c.state = b.state /\ c.token = b.token /\ c.socket = m
        /\ c.asked = b.asked /\ c.requestPending = b.requestPending /\ c.stopped = b.stopped
    BY <2>3 DEF Client
  <2>5. /\ clients' = [clients EXCEPT ![n] = c] /\ realtime' = realtime
        /\ wires' = Append(wires, w)
        /\ UNCHANGED <<token, current, wrongly_revoked>>
    BY <1>4, <1>9, <2>2, <2>3
  <2>6. /\ wires' \in Seq(Wire) /\ Len(wires') = m /\ DOMAIN wires' = 1..m /\ wires'[m] = w
        /\ \A k \in 1..Len(wires) : wires'[k] = wires[k]
    BY <2>1, <2>5
  <2>7. m # 0 /\ m \in 0..m /\ m \in Len(wires)..MaxWires
    BY <2>1, RealtimeConstants
  <2>8. \A k \in 1..m : k # m => k \in 1..Len(wires)
    BY <2>1
  <2>9. WiresHold'
    <3>1. DOMAIN w.inbox = {}
      BY <2>2
    <3> QED
      BY <1>4, <2>1, <2>2, <2>6, <2>8, <3>1 DEF RealtimeInv, WiresHold
  <2>10. \A k \in 1..m : wires'[k].phone = "open" => k = m
    BY <1>6, <1>9, <2>6, <2>8
  <2>11. c.state.status # "connected"
    <3>1. MySocket = 0 /\ realtime = c.state
      BY <1>3, <1>6, <1>9, <2>4, MyWire
    <3> QED
      BY <3>1 DEF RealtimeInv, ConnectedIsTrue
  <2>12. realtime' = c.state /\ ~c.state.revoked /\ ~c.stopped /\ c.asked = c.requestPending
         /\ ~c.asked
    BY <1>3, <1>6, <1>9, <2>4, <2>5, ClientColumns
  <2> QED
    <3> HIDE DEF m
    <3>1. /\ wires'[c.socket].token = c.token /\ wires'[c.socket].server # "open"
          /\ wires'[c.socket].awaitingBaseline /\ wires'[c.socket].heard = 0
      BY <1>3, <2>2, <2>4, <2>6
    <3>2. Len(wires') \in Len(wires)..MaxWires /\ c.socket \in 0..Len(wires')
      BY <2>4, <2>6, <2>7
    <3>3. \A k \in 1..Len(wires') : wires'[k].phone = "open" => k = c.socket
      BY <2>4, <2>6, <2>10
    <3>4. /\ n = current /\ c.token = clients[n].token /\ c.socket # 0
          /\ c.asked = c.requestPending /\ ~c.asked /\ ~c.state.revoked /\ ~c.stopped
      BY <1>3, <1>6, <1>9, <2>4, <2>7, <2>12
    <3>5. /\ UNCHANGED <<tokens, revoked_tokens, visible, rendered, current,
                         mobile_realtime_sequence, underway>>
          /\ token' \in {0, token} /\ wrongly_revoked' = FALSE
      BY <1>4, <2>5, NotWrong
    <3>6. wires' \in Seq(Wire) /\ clients' = [clients EXCEPT ![n] = c] /\ realtime' = c.state
      BY <2>5, <2>6, <2>12
    <3> QED
      BY <1>2, <2>9, <2>11, <3>1, <3>2, <3>3, <3>4, <3>5, <3>6, ClientStep
<1> QED
  BY <1>4, <1>5, <1>7, <1>8, <1>9

\* A message on the present client's wire (onmessage): the screen takes what it says,
\* and gives up the session only for a revocation the backend sent.
LEMMA MessageStep ==
  ASSUME RealtimeInv, NEW n \in DOMAIN clients, NEW drifted \in BOOLEAN, onmessage(n, drifted)
  PROVE  RealtimeInv'
<1> DEFINE k == clients[n].socket
           message == Head(wires[k].inbox)
           baseline == wires[k].awaitingBaseline
<1>1. /\ n = current /\ ~clients[n].state.revoked /\ ~clients[n].stopped /\ k # 0
      /\ clients[n] \in Client /\ clients[n].state \in MobileRealtimeState
      /\ clients[n].asked = clients[n].requestPending /\ (clients[n].asked => k = 0)
  BY WhoWaits, RealtimeTyped, ClientColumns DEF onmessage, RealtimeInv
<1>2. /\ wires \in Seq(Wire) /\ DOMAIN wires = 1..Len(wires) /\ Len(wires) \in 0..MaxWires
      /\ k \in DOMAIN wires /\ wires[k] \in Wire /\ wires[k].token = clients[n].token
      /\ MySocket = k /\ realtime = clients[n].state
      /\ current # 0
      /\ \A j \in 1..Len(wires) : wires[j].phone = "open" => j = k
  BY <1>1, MyWire, RealtimeTyped DEF RealtimeInv
<1>3. wires[k].inbox \in Seq(Envelope) /\ baseline \in BOOLEAN
  BY <1>2, WireColumns
<1>4. /\ wires[k].inbox # <<>> /\ 1 \in DOMAIN wires[k].inbox
      /\ message = wires[k].inbox[1] /\ message \in Envelope
  BY <1>3 DEF onmessage
<1>5. PICK next \in MobileRealtimeState :
        /\ next = reduceRealtime(clients[n].state, message, drifted, baseline)
        /\ next.revoked => message.event_type = "token_revoked"
        /\ \/ /\ next = clients[n].state /\ ~drifted /\ ~(baseline /\ message.event_type = "cockpit")
              /\ message.event_type = "cockpit" => message.sequence <= clients[n].state.lastSequence
           \/ /\ next.status = "stale" /\ clients[n].state.lastSequence <= next.lastSequence
              /\ drifted \/ message.event_type # "cockpit"
           \/ next.status = "revoked" /\ next.revoked /\ message.event_type = "token_revoked"
           \/ /\ next.status = "connected" /\ ~next.requiresSnapshot
              /\ next.lastSequence = message.sequence
              /\ message.event_type = "cockpit" /\ ~drifted
              /\ baseline \/ clients[n].state.lastSequence <= message.sequence
  <2> HIDE DEF k, message, baseline
  <2>1. PICK r : r = reduceRealtime(clients[n].state, message, drifted, baseline)
    OBVIOUS
  <2>2. /\ r \in MobileRealtimeState
        /\ r.revoked => message.event_type = "token_revoked"
        /\ \/ /\ r = clients[n].state /\ ~drifted /\ ~(baseline /\ message.event_type = "cockpit")
              /\ message.event_type = "cockpit" => message.sequence <= clients[n].state.lastSequence
           \/ /\ r.status = "stale" /\ clients[n].state.lastSequence <= r.lastSequence
              /\ drifted \/ message.event_type # "cockpit"
           \/ r.status = "revoked" /\ r.revoked /\ message.event_type = "token_revoked"
           \/ /\ r.status = "connected" /\ ~r.requiresSnapshot
              /\ r.lastSequence = message.sequence
              /\ message.event_type = "cockpit" /\ ~drifted
              /\ baseline \/ clients[n].state.lastSequence <= message.sequence
    BY <1>1, <1>3, <1>4, <2>1, Reduced
  <2> QED
    BY <2>1, <2>2
<1>6. /\ wires[k].server = "asked" => FALSE
      /\ wires[k].server = "open" =>
            message.event_type = "cockpit" /\ message.sequence <= mobile_realtime_sequence
      /\ message.event_type = "token_revoked" => clients[n].token \in revoked_tokens
  BY <1>2, <1>4 DEF RealtimeInv, WiresHold
<1>7. troubles' \in 0..MaxTroubles
  <2>1. Trouble \/ UNCHANGED troubles
    BY DEF onmessage
  <2> QED
    BY <2>1, TroublesTyped
<1>8. /\ UNCHANGED <<tokens, revoked_tokens, visible, rendered, mobile_realtime_sequence, underway>>
      /\ \/ next.revoked /\ revoke(n, clients[n], next)
         \/ /\ ~next.revoked
            /\ Updated(n, [clients[n] EXCEPT !.state = next])
            /\ wires' = [wires EXCEPT
                  ![k].inbox = Tail(@),
                  ![k].awaitingBaseline = @ /\ ~(/\ message.event_type = "cockpit"
                                                 /\ next.status = "connected"),
                  ![k].heard = IF /\ ~drifted /\ message.event_type = "cockpit"
                                  /\ message.sequence > @
                               THEN message.sequence ELSE @]
            /\ UNCHANGED <<token, current, wrongly_revoked>>
  BY <1>5 DEF onmessage
<1>9. CASE next.revoked
  <2>1. /\ revoke(n, clients[n], next) /\ clients[n].token \in revoked_tokens
        /\ message.event_type = "token_revoked" /\ ~clients[n].asked
    BY <1>1, <1>5, <1>6, <1>8, <1>9
  <2>2. next.status # "connected"
    BY <1>1, <1>5, <1>9, <2>1
  <2> QED
    BY <1>1, <1>7, <1>8, <1>9, <2>1, <2>2, RevokeStep
<1>10. CASE ~next.revoked
  <2>1. PICK c \in Client : /\ c = [clients[n] EXCEPT !.state = next]
                            /\ c.state = next /\ c.token = clients[n].token
                            /\ c.socket = clients[n].socket /\ c.asked = clients[n].asked
                            /\ c.requestPending = clients[n].requestPending
                            /\ c.stopped = clients[n].stopped
    <3>1. [clients[n] EXCEPT !.state = next] \in Client
      BY <1>1 DEF Client
    <3> QED
      BY <1>1, <3>1 DEF Client
  <2>a. /\ message.sequence \in 0..MaxSequence /\ message.sequence \in Nat
        /\ wires[k].heard \in 0..MaxSequence /\ wires[k].heard \in Nat
        /\ clients[n].state.lastSequence \in Nat /\ next.lastSequence \in Nat
    <3>1. /\ clients[n].state.lastSequence \in 0..MaxSequence
          /\ next.lastSequence \in 0..MaxSequence
      BY <1>1, StateColumns
    <3>2. wires[k].heard \in 0..MaxSequence
      BY <1>2, WireColumns
    <3> QED
      BY <1>4, <3>1, <3>2, RealtimeConstants DEF Envelope
  <2>b. PICK highest \in 0..MaxSequence :
           /\ highest = IF /\ ~drifted /\ message.event_type = "cockpit"
                           /\ message.sequence > wires[k].heard
                        THEN message.sequence ELSE wires[k].heard
           /\ highest \in Nat
    BY <2>a
  <2>2. PICK waits \in BOOLEAN : waits = (baseline /\ ~(/\ message.event_type = "cockpit"
                                                        /\ next.status = "connected"))
    OBVIOUS
  <2>3. PICK w \in Wire : /\ w = [wires[k] EXCEPT !.inbox = Tail(wires[k].inbox),
                                                  !.awaitingBaseline = waits,
                                                  !.heard = highest]
                          /\ w.inbox = Tail(wires[k].inbox) /\ w.awaitingBaseline = waits
                          /\ w.heard = highest
                          /\ w.phone = wires[k].phone /\ w.server = wires[k].server
                          /\ w.token = wires[k].token
    <3>1. Tail(wires[k].inbox) \in Seq(Envelope)
      BY <1>3, <1>4
    <3> HIDE DEF k
    <3>2. [wires[k] EXCEPT !.inbox = Tail(wires[k].inbox), !.awaitingBaseline = waits,
                           !.heard = highest] \in Wire
      BY <1>2, <3>1 DEF Wire
    <3> QED
      BY <1>2, <3>2 DEF Wire
  <2>4. /\ clients' = [clients EXCEPT ![n] = c] /\ realtime' = c.state
        /\ wires' = [wires EXCEPT ![k] = w]
        /\ UNCHANGED <<token, current, wrongly_revoked>>
    <3>1. wires' = [wires EXCEPT
                  ![k].inbox = Tail(@),
                  ![k].awaitingBaseline = @ /\ ~(/\ message.event_type = "cockpit"
                                                 /\ next.status = "connected"),
                  ![k].heard = IF /\ ~drifted /\ message.event_type = "cockpit"
                                  /\ message.sequence > @
                               THEN message.sequence ELSE @]
      BY <1>8, <1>10
    <3>2. wires' = [wires EXCEPT ![k] = w]
      BY <1>2, <2>b, <2>2, <2>3, <3>1 DEF Wire
    <3> QED
      BY <1>8, <1>10, <2>1, <3>2 DEF Updated
  <2>5. /\ wires' \in Seq(Wire) /\ Len(wires') = Len(wires) /\ DOMAIN wires' = 1..Len(wires)
        /\ wires'[k] = w /\ \A j \in 1..Len(wires) : j # k => wires'[j] = wires[j]
    <3> HIDE DEF k
    <3> QED
      BY <1>2, <2>4
  <2>6. \A i \in DOMAIN w.inbox : i + 1 \in DOMAIN wires[k].inbox
                                  /\ w.inbox[i] = wires[k].inbox[i + 1]
    BY <1>3, <1>4, <2>3
  <2>7. WiresHold'
    <3>1. ASSUME NEW j \in DOMAIN wires'
          PROVE  /\ wires'[j].server = "asked" => wires'[j].inbox = <<>>
                                                  /\ wires'[j].awaitingBaseline
                 /\ \A i \in DOMAIN wires'[j].inbox :
                       /\ wires'[j].server = "open" =>
                             /\ wires'[j].inbox[i].event_type = "cockpit"
                             /\ wires'[j].inbox[i].sequence <= mobile_realtime_sequence'
                       /\ wires'[j].inbox[i].event_type = "token_revoked" =>
                             wires'[j].token \in revoked_tokens'
      <4>1. CASE j # k
        BY <1>2, <1>8, <2>5, <3>1, <4>1 DEF RealtimeInv, WiresHold
      <4>2. CASE j = k
        <5>1. \A i \in DOMAIN w.inbox :
                 /\ w.server = "open" =>
                       /\ w.inbox[i].event_type = "cockpit"
                       /\ w.inbox[i].sequence <= mobile_realtime_sequence
                 /\ w.inbox[i].event_type = "token_revoked" => w.token \in revoked_tokens
          <6> HIDE DEF k
          <6> QED
            BY <1>2, <2>3, <2>6 DEF RealtimeInv, WiresHold
        <5> HIDE DEF k
        <5> QED
          <6>1. wires'[j] = w /\ w.server # "asked"
            BY <1>6, <2>3, <2>5, <4>2
          <6>2. revoked_tokens' = revoked_tokens
                /\ mobile_realtime_sequence' = mobile_realtime_sequence
            BY <1>8
          <6> QED
            BY <5>1, <6>1, <6>2
      <4> QED
        BY <4>1, <4>2
    <3> QED
      BY <3>1 DEF WiresHold
  <2>8. next.status = "connected" =>
           /\ ~next.requiresSnapshot /\ ~waits
           /\ w.server = "open" => next.lastSequence <= mobile_realtime_sequence
    <3>1. CASE next = clients[n].state
      BY <1>1, <1>2, <2>2, <2>3, <3>1 DEF RealtimeInv, StateHolds, ConnectedIsTrue
    <3>2. CASE next # clients[n].state
      BY <1>5, <1>6, <2>2, <2>3, <3>2
    <3> QED
      BY <3>1, <3>2
  <2>9. w.server = "open" => next.status \in {"connected", "stale"}
    <3>1. SUFFICES ASSUME wires[k].server = "open" PROVE next.status \in {"connected", "stale"}
      BY <2>3
    <3>2. message.event_type = "cockpit"
      BY <1>6, <3>1
    <3>3. CASE next = clients[n].state /\ ~baseline
      BY <1>1, <1>2, <3>1, <3>3 DEF RealtimeInv, BaselineIsComing
    <3> QED
      BY <1>5, <3>2, <3>3
  <2>10. \A j \in 1..Len(wires') : wires'[j].phone = "open" => j = c.socket
    BY <1>2, <2>1, <2>3, <2>5
  <2>11. Len(wires') \in Len(wires)..MaxWires /\ c.socket \in 0..Len(wires')
    BY <1>2, <2>1, <2>5, RealtimeConstants
  <2>12. /\ wires'[c.socket] = w /\ w.token = c.token /\ c.socket # 0
         /\ c.asked = c.requestPending /\ (c.asked => c.socket = 0)
         /\ ~c.state.revoked /\ ~c.stopped
    BY <1>1, <1>2, <1>10, <2>1, <2>3, <2>5
  <2>18. /\ w.awaitingBaseline => w.heard = 0
         /\ ~w.awaitingBaseline => w.heard <= next.lastSequence
         /\ next.status = "connected" => next.lastSequence = w.heard
    <3>1. /\ baseline => wires[k].heard = 0
          /\ ~baseline => wires[k].heard <= clients[n].state.lastSequence
          /\ clients[n].state.status = "connected" =>
                clients[n].state.lastSequence = wires[k].heard /\ ~baseline
      BY <1>1, <1>2 DEF RealtimeInv, HeardHolds, NewestIsShown, ConnectedIsTrue
    <3>2. /\ w.heard = highest /\ w.awaitingBaseline = waits
      BY <2>3
    <3> HIDE DEF k, message, baseline
    <3>3. CASE /\ next = clients[n].state /\ ~drifted /\ ~(baseline /\ message.event_type = "cockpit")
               /\ message.event_type = "cockpit" => message.sequence <= clients[n].state.lastSequence
      <4>1. baseline => highest = wires[k].heard /\ waits
        BY <1>3, <2>b, <2>2, <3>1, <3>3
      <4>2. ~baseline => ~waits /\ highest <= next.lastSequence
        BY <1>3, <2>a, <2>b, <2>2, <3>1, <3>3
      <4>3. next.status = "connected" => next.lastSequence = highest
        BY <2>a, <2>b, <3>1, <3>3
      <4> QED
        BY <1>3, <3>1, <3>2, <4>1, <4>2, <4>3
    <3>4. CASE /\ next.status = "stale" /\ clients[n].state.lastSequence <= next.lastSequence
               /\ drifted \/ message.event_type # "cockpit"
      <4>1. highest = wires[k].heard /\ waits = baseline
        BY <1>3, <2>b, <2>2, <3>4
      <4> QED
        BY <1>3, <2>a, <3>1, <3>2, <3>4, <4>1
    <3>5. CASE /\ next.status = "connected" /\ next.lastSequence = message.sequence
               /\ message.event_type = "cockpit" /\ ~drifted
               /\ baseline \/ clients[n].state.lastSequence <= message.sequence
      <4>1. ~waits /\ wires[k].heard <= message.sequence
        BY <1>3, <2>a, <2>2, <3>1, <3>5
      <4>2. highest = message.sequence
        BY <2>a, <2>b, <3>5, <4>1
      <4> QED
        BY <2>a, <3>2, <3>5, <4>1, <4>2
    <3> QED
      BY <1>5, <1>10, <3>3, <3>4, <3>5
  <2> HIDE DEF k, message, baseline
  <2>13. c.state.status = "connected" =>
            /\ c.socket # 0 /\ ~wires'[c.socket].awaitingBaseline
            /\ wires'[c.socket].server = "open" =>
                  c.state.lastSequence <= mobile_realtime_sequence
    BY <2>1, <2>3, <2>8, <2>12
  <2>14. c.socket # 0 /\ wires'[c.socket].server = "open" =>
            \/ c.state.status \in {"connected", "stale"}
            \/ wires'[c.socket].awaitingBaseline /\ wires'[c.socket].inbox # <<>>
    BY <2>1, <2>9, <2>12
  <2>15. c.state.status = "connected" => ~c.state.requiresSnapshot
    BY <2>1, <2>8
  <2>19. /\ c.socket # 0 =>
               /\ wires'[c.socket].awaitingBaseline => wires'[c.socket].heard = 0
               /\ ~wires'[c.socket].awaitingBaseline =>
                     wires'[c.socket].heard <= c.state.lastSequence
         /\ c.state.status = "connected" => c.state.lastSequence = wires'[c.socket].heard
    BY <2>1, <2>12, <2>18
  <2>16. /\ UNCHANGED <<tokens, revoked_tokens, visible, rendered, current,
                        mobile_realtime_sequence, underway>>
         /\ token' \in {0, token} /\ wrongly_revoked' = FALSE
    BY <1>8, <2>4, NotWrong
  <2>17. wires'[c.socket].token = c.token /\ c.token = clients[n].token
    BY <2>1, <2>12
  <2> QED
    BY <1>1, <1>7, <2>4, <2>5, <2>7, <2>10, <2>11, <2>12, <2>13, <2>14, <2>15, <2>16, <2>17,
       <2>19, ClientStep
<1> QED
  BY <1>9, <1>10

-----------------------------------------------------------------------------
(* The backend *)

\* A send leaves the phone's side of a wire alone; a wire that is served after it
\* was served before, and got a snapshot (mobile socket's send and close).
LEMMA Send ==
  ASSUME NEW w \in Wire, NEW event_type \in {"cockpit", "invalidate"}, NEW n \in 1..MaxSequence,
         NEW bound \in Nat, n <= bound,
         NEW sent, sent = Sent(w, event_type, n),
         \A i \in DOMAIN w.inbox :
            /\ w.server = "open" => /\ w.inbox[i].event_type = "cockpit"
                                    /\ w.inbox[i].sequence <= bound
            /\ w.inbox[i].event_type = "token_revoked" => w.token \in revoked_tokens
  PROVE  /\ sent \in Wire
         /\ sent.phone = w.phone /\ sent.token = w.token
         /\ sent.awaitingBaseline = w.awaitingBaseline /\ sent.heard = w.heard
         /\ w.server # "open" => sent = w
         /\ w.server = "open" => sent.server # "asked"
         /\ sent.server = "open" => w.server = "open" /\ sent.inbox # <<>>
         /\ \A i \in DOMAIN sent.inbox :
               /\ sent.server = "open" => /\ sent.inbox[i].event_type = "cockpit"
                                          /\ sent.inbox[i].sequence <= bound
               /\ sent.inbox[i].event_type = "token_revoked" => w.token \in revoked_tokens
<1> DEFINE refused == event_type = "cockpit" /\ w.token \in revoked_tokens
           kind == IF refused THEN "token_revoked" ELSE event_type
<1>1. PICK message \in Envelope :
         /\ message = [event_type |-> kind, sequence |-> n]
         /\ message.sequence = n /\ message.event_type = kind
  <2>1. kind \in {"cockpit", "invalidate", "token_revoked"}
    OBVIOUS
  <2> HIDE DEF kind
  <2>2. [event_type |-> kind, sequence |-> n] \in Envelope
    BY <2>1 DEF Envelope
  <2> QED
    BY <2>2
<1>2. /\ w.inbox \in Seq(Envelope) /\ w.server \in {"asked", "open", "closed"}
      /\ w.phone \in {"open", "closed"}
  BY WireColumns
<1>3. CASE w.server # "open"
  BY <1>3 DEF Sent
<1>4. CASE w.server = "open" /\ w.phone = "closed"
  <2>1. sent = [w EXCEPT !.server = "closed"]
    BY <1>4 DEF Sent
  <2>2. /\ sent \in Wire /\ sent.server = "closed" /\ sent.phone = w.phone
        /\ sent.token = w.token /\ sent.awaitingBaseline = w.awaitingBaseline
        /\ sent.inbox = w.inbox /\ sent.heard = w.heard
    BY <2>1 DEF Wire
  <2> QED
    BY <1>4, <2>2
<1>5. CASE w.server = "open" /\ w.phone # "closed"
  <2>1. PICK inbox \in Seq(Envelope) : inbox = Append(w.inbox, message)
    <3>1. Append(w.inbox, message) \in Seq(Envelope)
      BY <1>2
    <3> QED
      BY <3>1
  <2>2. /\ inbox # <<>>
        /\ \A i \in DOMAIN inbox : (i \in DOMAIN w.inbox /\ inbox[i] = w.inbox[i]) \/ inbox[i] = message
    BY <1>1, <1>2, <2>1
  <2>3. PICK served \in {"open", "closed"} :
           served = IF refused \/ event_type = "invalidate" THEN "closed" ELSE "open"
    OBVIOUS
  <2>4. sent = [w EXCEPT !.inbox = inbox, !.server = served]
    BY <1>1, <1>5, <2>1, <2>3 DEF Sent, Wire
  <2>5. /\ sent \in Wire /\ sent.phone = w.phone
        /\ sent.token = w.token /\ sent.awaitingBaseline = w.awaitingBaseline
        /\ sent.inbox = inbox /\ sent.server = served /\ sent.heard = w.heard
    BY <2>4 DEF Wire
  <2>6. /\ served = "open" => message.event_type = "cockpit"
        /\ message.event_type = "token_revoked" => w.token \in revoked_tokens
    BY <1>1, <2>3
  <2>7. ASSUME NEW i \in DOMAIN inbox
        PROVE  /\ served = "open" => /\ inbox[i].event_type = "cockpit"
                                     /\ inbox[i].sequence <= bound
               /\ inbox[i].event_type = "token_revoked" => w.token \in revoked_tokens
    <3>1. CASE i \in DOMAIN w.inbox /\ inbox[i] = w.inbox[i]
      BY <1>5, <3>1
    <3>2. CASE inbox[i] = message
      BY <1>1, <2>6, <3>2
    <3> QED
      BY <2>2, <3>1, <3>2
  <2> QED
    BY <1>5, <2>2, <2>3, <2>5, <2>7
<1> QED
  BY <1>3, <1>4, <1>5

\* A step of the backend: it leaves the phone's side of every wire alone, and what
\* it makes of a served wire the present client can go on with.
LEMMA ServerStep ==
  ASSUME RealtimeInv, ServerSteps,
         wires' \in Seq(Wire), Len(wires') = Len(wires),
         revoked_tokens' \subseteq 1..tokens,
         mobile_realtime_sequence' \in 0..MaxSequence, underway' \subseteq Broadcast,
         troubles' \in 0..MaxTroubles,
         \A k \in 1..Len(wires) :
            /\ wires'[k].phone = wires[k].phone /\ wires'[k].token = wires[k].token
            /\ wires'[k].awaitingBaseline = wires[k].awaitingBaseline
            /\ wires'[k].heard = wires[k].heard
            /\ wires'[k].server = "open" =>
                  \/ /\ wires[k].server = "open"
                     /\ mobile_realtime_sequence <= mobile_realtime_sequence'
                     /\ wires'[k].inbox = wires[k].inbox \/ wires'[k].inbox # <<>>
                  \/ wires[k].awaitingBaseline /\ wires'[k].inbox # <<>>,
         WiresHold', UnderwayHolds'
  PROVE  RealtimeInv'
<1> USE DEF RealtimeInv
<1>1. /\ UNCHANGED <<token, tokens, visible, realtime, rendered, clients, current,
                     wrongly_revoked>>
      /\ MySocket' = MySocket
  BY DEF ServerSteps, MySocket
<1>2. /\ DOMAIN wires = 1..Len(wires) /\ DOMAIN wires' = 1..Len(wires)
      /\ mobile_realtime_sequence \in Nat /\ mobile_realtime_sequence' \in Nat
      /\ realtime \in MobileRealtimeState /\ realtime.lastSequence \in Nat
  BY RealtimeTyped, StateColumns
<1>3. RealtimeTypeOK'
  <2>1. Len(wires') <= MaxWires
    BY RealtimeTyped, RealtimeConstants
  <2> QED
    BY <1>1, <2>1 DEF RealtimeTypeOK
<1>4. ClientsHold' /\ CurrentHolds' /\ StateHolds' /\ RevokedByBackendOnly'
  <2>1. ClientsHold' /\ StateHolds' /\ RevokedByBackendOnly'
    BY <1>1 DEF ClientsHold, StateHolds, RevokedByBackendOnly
  <2>2. CurrentHolds'
    BY <1>1 DEF CurrentHolds
  <2> QED
    BY <2>1, <2>2
<1>5. MySocket \in 0..Len(wires) /\ (MySocket # 0 => current # 0 /\ MySocket \in 1..Len(wires))
  <2>1. current # 0 => clients[current].socket \in 0..Len(wires)
    BY OpenIsMine
  <2>2. Len(wires) \in Nat
    BY RealtimeTyped
  <2> QED
    BY <2>1, <2>2 DEF MySocket
<1>6. OnlyMine' /\ HeardHolds' /\ NewestIsShown'
  <2>1. OnlyMine'
    BY <1>1, <1>2 DEF OnlyMine
  <2>2. HeardHolds'
    BY <1>1, <1>5 DEF HeardHolds
  <2>3. NewestIsShown'
    BY <1>1, <1>5 DEF NewestIsShown, ConnectedIsTrue
  <2> QED
    BY <2>1, <2>2, <2>3
<1>7. ConnectedIsTrue'
  BY <1>1, <1>2, <1>5 DEF ConnectedIsTrue
<1>8. BaselineIsComing'
  BY <1>1, <1>5 DEF BaselineIsComing
<1> QED
  BY <1>3, <1>4, <1>6, <1>7, <1>8

\* A step of the backend that touches one wire.
LEMMA OneWire ==
  ASSUME RealtimeInv, ServerSteps, NEW k \in DOMAIN wires, NEW w \in Wire,
         wires' = [wires EXCEPT ![k] = w],
         UNCHANGED revoked_tokens,
         mobile_realtime_sequence' \in 0..MaxSequence,
         mobile_realtime_sequence <= mobile_realtime_sequence',
         underway' \subseteq Broadcast, troubles' \in 0..MaxTroubles,
         w.phone = wires[k].phone, w.token = wires[k].token,
         w.awaitingBaseline = wires[k].awaitingBaseline, w.heard = wires[k].heard,
         w.server = "asked" => w = wires[k],
         w.server = "open" =>
            \/ wires[k].server = "open" /\ (w.inbox = wires[k].inbox \/ w.inbox # <<>>)
            \/ wires[k].awaitingBaseline /\ w.inbox # <<>>,
         \A i \in DOMAIN w.inbox :
            /\ w.server = "open" => /\ w.inbox[i].event_type = "cockpit"
                                    /\ w.inbox[i].sequence <= mobile_realtime_sequence'
            /\ w.inbox[i].event_type = "token_revoked" => w.token \in revoked_tokens,
         \A u \in underway' : u.sequence <= mobile_realtime_sequence' /\ u.to \subseteq DOMAIN wires
  PROVE  RealtimeInv'
<1> USE DEF RealtimeInv
<1>1. /\ wires \in Seq(Wire) /\ DOMAIN wires = 1..Len(wires)
      /\ \A j \in DOMAIN wires : wires[j] \in Wire
      /\ mobile_realtime_sequence \in Nat /\ mobile_realtime_sequence' \in Nat
      /\ revoked_tokens' \subseteq 1..tokens
  BY RealtimeTyped
<1>2. /\ wires' \in Seq(Wire) /\ Len(wires') = Len(wires) /\ DOMAIN wires' = 1..Len(wires)
      /\ wires'[k] = w
      /\ \A j \in DOMAIN wires : j # k => wires'[j] = wires[j]
  BY <1>1
<1>3. WiresHold'
  <2> SUFFICES ASSUME NEW j \in DOMAIN wires'
               PROVE  /\ wires'[j].server = "asked" => wires'[j].inbox = <<>> /\ wires'[j].awaitingBaseline
                      /\ \A i \in DOMAIN wires'[j].inbox :
                            /\ wires'[j].server = "open" =>
                                  /\ wires'[j].inbox[i].event_type = "cockpit"
                                  /\ wires'[j].inbox[i].sequence <= mobile_realtime_sequence'
                            /\ wires'[j].inbox[i].event_type = "token_revoked" =>
                                  wires'[j].token \in revoked_tokens'
    BY DEF WiresHold
  <2>1. CASE j = k
    <3>1. w.server = "asked" => w.inbox = <<>> /\ w.awaitingBaseline
      BY DEF WiresHold
    <3> QED
      BY <1>2, <2>1, <3>1
  <2>2. CASE j # k
    <3>1. j \in DOMAIN wires /\ wires'[j] = wires[j]
      BY <1>1, <1>2, <2>2
    <3>2. ASSUME NEW i \in DOMAIN wires[j].inbox
          PROVE  wires[j].inbox[i].sequence \in Nat
      <4>1. wires[j].inbox \in Seq(Envelope)
        BY <1>1, <3>1, WireColumns
      <4>2. wires[j].inbox[i] \in Envelope
        BY <4>1
      <4> QED
        BY <4>2, RealtimeConstants DEF Envelope
    <3> QED
      BY <1>1, <3>1, <3>2 DEF WiresHold
  <2> QED
    BY <2>1, <2>2
<1>4. UnderwayHolds'
  BY <1>1, <1>2 DEF UnderwayHolds
<1>5. ASSUME NEW j \in 1..Len(wires)
      PROVE  /\ wires'[j].phone = wires[j].phone /\ wires'[j].token = wires[j].token
             /\ wires'[j].awaitingBaseline = wires[j].awaitingBaseline
             /\ wires'[j].heard = wires[j].heard
             /\ wires'[j].server = "open" =>
                  \/ /\ wires[j].server = "open"
                     /\ mobile_realtime_sequence <= mobile_realtime_sequence'
                     /\ wires'[j].inbox = wires[j].inbox \/ wires'[j].inbox # <<>>
                  \/ wires[j].awaitingBaseline /\ wires'[j].inbox # <<>>
  BY <1>1, <1>2
<1> QED
  BY <1>1, <1>2, <1>3, <1>4, <1>5, ServerStep

\* The backend takes a socket, or refuses it.
LEMMA EndpointStep ==
  ASSUME RealtimeInv, NEW k \in DOMAIN wires, websocket_endpoint(k)
  PROVE  RealtimeInv'
<1> USE DEF RealtimeInv
<1>1. /\ wires[k] \in Wire /\ mobile_realtime_sequence \in 0..MaxSequence
      /\ underway \subseteq Broadcast /\ troubles \in 0..MaxTroubles
  BY RealtimeTyped
<1>2. /\ wires[k].server = "asked" /\ wires[k].inbox = <<>> /\ wires[k].awaitingBaseline
      /\ ServerSteps /\ UNCHANGED <<revoked_tokens, underway, troubles>>
  BY DEF websocket_endpoint, WiresHold
<1>3. DOMAIN wires[k].inbox = {}
  BY <1>2
<1>4. CASE wires[k].token \in revoked_tokens
  <2>1. PICK w \in Wire : /\ w = [wires[k] EXCEPT !.server = "closed"]
                          /\ w.phone = wires[k].phone /\ w.token = wires[k].token
                          /\ w.awaitingBaseline = wires[k].awaitingBaseline /\ w.heard = wires[k].heard
                          /\ w.server = "closed" /\ w.inbox = wires[k].inbox
    <3> DEFINE closed == [wires[k] EXCEPT !.server = "closed"]
    <3>1. /\ closed \in Wire /\ closed.phone = wires[k].phone /\ closed.token = wires[k].token
          /\ closed.awaitingBaseline = wires[k].awaitingBaseline /\ closed.heard = wires[k].heard
          /\ closed.server = "closed" /\ closed.inbox = wires[k].inbox
      BY <1>1 DEF Wire
    <3> QED
      BY <3>1
  <2>2. wires' = [wires EXCEPT ![k] = w] /\ UNCHANGED mobile_realtime_sequence
    BY <1>4, <2>1 DEF websocket_endpoint
  <2>3. /\ mobile_realtime_sequence' \in 0..MaxSequence
        /\ mobile_realtime_sequence <= mobile_realtime_sequence'
    BY <1>1, <2>2
  <2>4. /\ underway' \subseteq Broadcast /\ troubles' \in 0..MaxTroubles
        /\ \A u \in underway' : u.sequence <= mobile_realtime_sequence' /\ u.to \subseteq DOMAIN wires
    BY <1>1, <1>2, <2>2 DEF UnderwayHolds
  <2> QED
    BY <1>2, <1>3, <2>1, <2>2, <2>3, <2>4, OneWire
<1>5. CASE wires[k].token \notin revoked_tokens
  <2>1. /\ mobile_realtime_sequence' =
              IF mobile_realtime_sequence = 0 THEN 1 ELSE mobile_realtime_sequence
        /\ mobile_realtime_sequence' \in 1..MaxSequence
        /\ mobile_realtime_sequence <= mobile_realtime_sequence'
    BY <1>1, <1>5, RealtimeConstants DEF websocket_endpoint
  <2>2. PICK opened \in Wire : /\ opened = [wires[k] EXCEPT !.server = "open"]
                               /\ opened.phone = wires[k].phone /\ opened.token = wires[k].token
                               /\ opened.awaitingBaseline = wires[k].awaitingBaseline /\ opened.heard = wires[k].heard
                               /\ opened.server = "open" /\ opened.inbox = wires[k].inbox
    <3> DEFINE made == [wires[k] EXCEPT !.server = "open"]
    <3>1. /\ made \in Wire /\ made.phone = wires[k].phone /\ made.token = wires[k].token
          /\ made.awaitingBaseline = wires[k].awaitingBaseline /\ made.heard = wires[k].heard
          /\ made.server = "open" /\ made.inbox = wires[k].inbox
      BY <1>1 DEF Wire
    <3> QED
      BY <3>1
  <2>3. PICK w : w = Sent(opened, "cockpit", mobile_realtime_sequence')
    OBVIOUS
  <2>4. wires' = [wires EXCEPT ![k] = w]
    BY <1>5, <2>2, <2>3 DEF websocket_endpoint
  <2>5. mobile_realtime_sequence' \in Nat /\ mobile_realtime_sequence' <= mobile_realtime_sequence'
    BY <2>1
  <2>6. /\ w \in Wire
        /\ w.phone = opened.phone /\ w.token = opened.token
        /\ w.awaitingBaseline = opened.awaitingBaseline /\ w.heard = opened.heard
        /\ w.server # "asked"
        /\ w.server = "open" => w.inbox # <<>>
        /\ \A i \in DOMAIN w.inbox :
               /\ w.server = "open" => /\ w.inbox[i].event_type = "cockpit"
                                       /\ w.inbox[i].sequence <= mobile_realtime_sequence'
               /\ w.inbox[i].event_type = "token_revoked" => opened.token \in revoked_tokens
    <3>1. \A i \in DOMAIN opened.inbox :
             /\ opened.server = "open" => /\ opened.inbox[i].event_type = "cockpit"
                                          /\ opened.inbox[i].sequence <= mobile_realtime_sequence'
             /\ opened.inbox[i].event_type = "token_revoked" => opened.token \in revoked_tokens
      BY <1>3, <2>2
    <3>2. PICK event_type \in {"cockpit", "invalidate"} : event_type = "cockpit"
      OBVIOUS
    <3>3. PICK n \in 1..MaxSequence : n = mobile_realtime_sequence'
      BY <2>1
    <3>4. /\ n \in Nat /\ n <= n /\ w = Sent(opened, event_type, n)
          /\ opened.server = "open"
      BY <2>2, <2>3, <3>2, <3>3
    <3>5. \A i \in DOMAIN opened.inbox :
             /\ opened.server = "open" => /\ opened.inbox[i].event_type = "cockpit"
                                          /\ opened.inbox[i].sequence <= n
             /\ opened.inbox[i].event_type = "token_revoked" => opened.token \in revoked_tokens
      BY <3>1, <3>3
    <3>6. /\ w \in Wire
          /\ w.phone = opened.phone /\ w.token = opened.token
          /\ w.awaitingBaseline = opened.awaitingBaseline /\ w.heard = opened.heard
          /\ w.server # "asked"
          /\ w.server = "open" => w.inbox # <<>>
          /\ \A i \in DOMAIN w.inbox :
                /\ w.server = "open" => /\ w.inbox[i].event_type = "cockpit"
                                        /\ w.inbox[i].sequence <= n
                /\ w.inbox[i].event_type = "token_revoked" => opened.token \in revoked_tokens
      BY <3>4, <3>5, Send
    <3> QED
      BY <3>3, <3>6
  <2>7. /\ underway' \subseteq Broadcast /\ troubles' \in 0..MaxTroubles
        /\ mobile_realtime_sequence' \in 0..MaxSequence
    BY <1>1, <1>2, <2>1
  <2>8. ASSUME NEW u \in underway'
        PROVE  u.sequence <= mobile_realtime_sequence' /\ u.to \subseteq DOMAIN wires
    <3>1. u \in underway /\ u.sequence \in Nat
      BY <1>1, <1>2, RealtimeConstants DEF Broadcast
    <3> QED
      BY <1>1, <2>1, <2>5, <3>1 DEF UnderwayHolds
  <2> QED
    BY <1>2, <2>1, <2>2, <2>4, <2>6, <2>7, <2>8, OneWire
<1> QED
  BY <1>4, <1>5

\* A broadcast takes its number and its listeners.
LEMMA BeginsStep ==
  ASSUME RealtimeInv, NEW event_type \in {"cockpit", "invalidate"}, broadcast_begins(event_type)
  PROVE  RealtimeInv'
<1> USE DEF RealtimeInv
<1>1. /\ wires \in Seq(Wire) /\ Len(wires) \in 0..MaxWires /\ DOMAIN wires = 1..Len(wires)
      /\ \A k \in DOMAIN wires : wires[k] \in Wire
      /\ mobile_realtime_sequence \in 0..MaxSequence
      /\ underway \subseteq Broadcast /\ troubles \in 0..MaxTroubles
      /\ revoked_tokens \subseteq 1..tokens
  BY RealtimeTyped
<1>2. PICK n \in 1..MaxSequence : n = mobile_realtime_sequence + 1
  BY <1>1, RealtimeConstants DEF broadcast_begins
<1>3. PICK new : /\ new = [event_type |-> event_type, sequence |-> n, to |-> Listeners]
                 /\ new.sequence = n /\ new.to = Listeners
  <2> DEFINE made == [event_type |-> event_type, sequence |-> n, to |-> Listeners]
  <2>1. made.sequence = n /\ made.to = Listeners
    OBVIOUS
  <2> QED
    BY <2>1
<1>4. /\ mobile_realtime_sequence' = n /\ underway' = underway \cup {new}
      /\ ServerSteps /\ UNCHANGED <<revoked_tokens, wires, troubles>>
  BY <1>2, <1>3 DEF broadcast_begins
<1>5. Listeners \subseteq DOMAIN wires /\ Listeners \in SUBSET (1..MaxWires)
  BY <1>1, RealtimeConstants DEF Listeners
<1>6. new \in Broadcast
  BY <1>3, <1>5 DEF Broadcast
<1>7. /\ mobile_realtime_sequence' \in 0..MaxSequence
      /\ mobile_realtime_sequence \in Nat /\ mobile_realtime_sequence' \in Nat
      /\ mobile_realtime_sequence <= mobile_realtime_sequence'
  BY <1>1, <1>2, <1>4, RealtimeConstants
<1>8. UnderwayHolds'
  <2> SUFFICES ASSUME NEW u \in underway'
               PROVE  u.sequence <= mobile_realtime_sequence' /\ u.to \subseteq DOMAIN wires'
    BY DEF UnderwayHolds
  <2>1. CASE u = new
    BY <1>2, <1>3, <1>4, <1>5, <1>7, <2>1
  <2>2. CASE u \in underway
    <3>1. u.sequence \in Nat /\ u.sequence <= mobile_realtime_sequence /\ u.to \subseteq DOMAIN wires
      BY <1>1, <2>2, RealtimeConstants DEF Broadcast, UnderwayHolds
    <3> QED
      BY <1>4, <1>7, <3>1
  <2> QED
    BY <1>4, <2>1, <2>2
<1>9. WiresHold'
  <2>1. ASSUME NEW k \in DOMAIN wires, NEW i \in DOMAIN wires[k].inbox
        PROVE  wires[k].inbox[i].sequence \in Nat
    <3>1. wires[k].inbox \in Seq(Envelope)
      BY <1>1, WireColumns
    <3>2. wires[k].inbox[i] \in Envelope
      BY <3>1
    <3> QED
      BY <3>2, RealtimeConstants DEF Envelope
  <2> QED
    BY <1>4, <1>7, <2>1 DEF WiresHold
<1>10. underway' \subseteq Broadcast /\ troubles' \in 0..MaxTroubles /\ revoked_tokens' \subseteq 1..tokens
  BY <1>1, <1>4, <1>6
<1>11. wires' \in Seq(Wire) /\ Len(wires') = Len(wires)
  BY <1>1, <1>4
<1>12. ASSUME NEW k \in 1..Len(wires)
       PROVE  /\ wires'[k].phone = wires[k].phone /\ wires'[k].token = wires[k].token
              /\ wires'[k].awaitingBaseline = wires[k].awaitingBaseline
              /\ wires'[k].heard = wires[k].heard
              /\ wires'[k].server = "open" =>
                   \/ /\ wires[k].server = "open"
                      /\ mobile_realtime_sequence <= mobile_realtime_sequence'
                      /\ wires'[k].inbox = wires[k].inbox \/ wires'[k].inbox # <<>>
                   \/ wires[k].awaitingBaseline /\ wires'[k].inbox # <<>>
  BY <1>4, <1>7
<1> QED
  BY <1>4, <1>7, <1>8, <1>9, <1>10, <1>11, <1>12, ServerStep

\* A broadcast reaches one of its listeners.
LEMMA SendsStep ==
  ASSUME RealtimeInv, NEW u \in underway, NEW k \in u.to, broadcast_sends(u, k)
  PROVE  RealtimeInv'
<1> USE DEF RealtimeInv
<1>1. /\ DOMAIN wires = 1..Len(wires) /\ \A j \in DOMAIN wires : wires[j] \in Wire
      /\ mobile_realtime_sequence \in 0..MaxSequence
      /\ underway \subseteq Broadcast /\ troubles \in 0..MaxTroubles
  BY RealtimeTyped
<1>2. /\ u.event_type \in {"cockpit", "invalidate"} /\ u.sequence \in 1..MaxSequence
      /\ u.to \in SUBSET (1..MaxWires)
      /\ u.sequence <= mobile_realtime_sequence /\ u.to \subseteq DOMAIN wires
  BY <1>1 DEF Broadcast, UnderwayHolds
<1>3. k \in DOMAIN wires /\ wires[k] \in Wire
  BY <1>1, <1>2
<1>4. PICK w : w = Sent(wires[k], u.event_type, u.sequence)
  OBVIOUS
<1>5. /\ wires' = [wires EXCEPT ![k] = w] /\ ServerSteps
      /\ UNCHANGED <<revoked_tokens, mobile_realtime_sequence, troubles>>
  BY <1>4 DEF broadcast_sends
<1>6. \A i \in DOMAIN wires[k].inbox :
         /\ wires[k].server = "open" =>
               /\ wires[k].inbox[i].event_type = "cockpit"
               /\ wires[k].inbox[i].sequence <= mobile_realtime_sequence
         /\ wires[k].inbox[i].event_type = "token_revoked" => wires[k].token \in revoked_tokens
  BY <1>3 DEF WiresHold
<1>7. mobile_realtime_sequence \in Nat
  BY <1>1
<1>8. /\ w \in Wire
      /\ w.phone = wires[k].phone /\ w.token = wires[k].token
      /\ w.awaitingBaseline = wires[k].awaitingBaseline /\ w.heard = wires[k].heard
      /\ w.server = "asked" => w = wires[k]
      /\ w.server = "open" => wires[k].server = "open" /\ w.inbox # <<>>
      /\ \A i \in DOMAIN w.inbox :
            /\ w.server = "open" => /\ w.inbox[i].event_type = "cockpit"
                                    /\ w.inbox[i].sequence <= mobile_realtime_sequence
            /\ w.inbox[i].event_type = "token_revoked" => wires[k].token \in revoked_tokens
  BY <1>2, <1>3, <1>4, <1>6, <1>7, Send
<1>9. ASSUME NEW v \in underway'
      PROVE  /\ v \in Broadcast
             /\ v.sequence <= mobile_realtime_sequence' /\ v.to \subseteq DOMAIN wires
  <2> DEFINE left == [u EXCEPT !.to = u.to \ {k}]
  <2>1. left \in Broadcast /\ left.sequence = u.sequence /\ left.to \subseteq u.to
    <3>1. u \in Broadcast /\ u.to \ {k} \in SUBSET (1..MaxWires)
      BY <1>1, <1>2
    <3> QED
      BY <3>1 DEF Broadcast
  <2>2. v \in underway \/ v = left
    BY DEF broadcast_sends
  <2> HIDE DEF left
  <2>3. CASE v \in underway
    BY <1>1, <1>5, <2>3 DEF UnderwayHolds
  <2>4. CASE v = left
    BY <1>2, <1>5, <2>1, <2>4
  <2> QED
    BY <2>2, <2>3, <2>4
<1>10. /\ underway' \subseteq Broadcast /\ troubles' \in 0..MaxTroubles
       /\ mobile_realtime_sequence' \in 0..MaxSequence
       /\ mobile_realtime_sequence <= mobile_realtime_sequence'
       /\ mobile_realtime_sequence' = mobile_realtime_sequence
  BY <1>1, <1>5, <1>9
<1> QED
  BY <1>3, <1>5, <1>8, <1>9, <1>10, OneWire

\* The backend revokes a device.
LEMMA DeviceStep ==
  ASSUME RealtimeInv, NEW t \in 1..MaxPairings, device_is_revoked(t)
  PROVE  RealtimeInv'
<1> USE DEF RealtimeInv
<1>1. /\ wires \in Seq(Wire) /\ mobile_realtime_sequence \in 0..MaxSequence
      /\ underway \subseteq Broadcast /\ troubles \in 0..MaxTroubles
      /\ revoked_tokens \subseteq 1..tokens
  BY RealtimeTyped
<1>2. /\ revoked_tokens' = revoked_tokens \cup {t} /\ t \in 1..tokens
      /\ ServerSteps /\ UNCHANGED <<wires, mobile_realtime_sequence, underway, troubles>>
  BY DEF device_is_revoked
<1>3. WiresHold' /\ UnderwayHolds'
  BY <1>2 DEF WiresHold, UnderwayHolds
<1>4. /\ wires' \in Seq(Wire) /\ Len(wires') = Len(wires) /\ revoked_tokens' \subseteq 1..tokens
      /\ mobile_realtime_sequence' \in 0..MaxSequence /\ underway' \subseteq Broadcast
      /\ troubles' \in 0..MaxTroubles
  BY <1>1, <1>2
<1>5. ASSUME NEW k \in 1..Len(wires)
      PROVE  /\ wires'[k].phone = wires[k].phone /\ wires'[k].token = wires[k].token
             /\ wires'[k].awaitingBaseline = wires[k].awaitingBaseline
             /\ wires'[k].heard = wires[k].heard
             /\ wires'[k].server = "open" =>
                  \/ /\ wires[k].server = "open"
                     /\ mobile_realtime_sequence <= mobile_realtime_sequence'
                     /\ wires'[k].inbox = wires[k].inbox \/ wires'[k].inbox # <<>>
                  \/ wires[k].awaitingBaseline /\ wires'[k].inbox # <<>>
  BY <1>1, <1>2
<1> QED
  BY <1>2, <1>3, <1>4, <1>5, ServerStep

\* Every wire is cut, and the backend counts from the start again.
LEMMA RestartStep ==
  ASSUME RealtimeInv, RealtimeBackendRestart
  PROVE  RealtimeInv'
<1> USE DEF RealtimeInv
<1>1. /\ wires \in Seq(Wire) /\ DOMAIN wires = 1..Len(wires)
      /\ \A k \in DOMAIN wires : wires[k] \in Wire
      /\ revoked_tokens \subseteq 1..tokens
  BY RealtimeTyped
<1>2. /\ wires' = [k \in 1..Len(wires) |-> [wires[k] EXCEPT !.server = "closed"]]
      /\ ServerSteps /\ UNCHANGED revoked_tokens
      /\ mobile_realtime_sequence' = 0 /\ underway' = {}
      /\ troubles' \in 0..MaxTroubles
  BY <1>1, TroublesTyped DEF RealtimeBackendRestart
<1>3. ASSUME NEW k \in 1..Len(wires)
      PROVE  /\ wires'[k] \in Wire /\ wires'[k].server = "closed"
             /\ wires'[k].phone = wires[k].phone /\ wires'[k].token = wires[k].token
             /\ wires'[k].awaitingBaseline = wires[k].awaitingBaseline
             /\ wires'[k].inbox = wires[k].inbox /\ wires'[k].heard = wires[k].heard
  <2>1. wires[k] \in Wire /\ wires'[k] = [wires[k] EXCEPT !.server = "closed"]
    BY <1>1, <1>2
  <2> QED
    BY <2>1 DEF Wire
<1>4. /\ wires' \in Seq(Wire) /\ Len(wires') = Len(wires) /\ DOMAIN wires' = 1..Len(wires)
  <2>1. Len(wires) \in Nat /\ DOMAIN wires' = 1..Len(wires)
    BY <1>1, <1>2
  <2> QED
    BY <1>2, <1>3, <2>1
<1>5. WiresHold' /\ UnderwayHolds'
  BY <1>1, <1>2, <1>3, <1>4 DEF WiresHold, UnderwayHolds
<1>6. /\ mobile_realtime_sequence' \in 0..MaxSequence /\ underway' \subseteq Broadcast
      /\ revoked_tokens' \subseteq 1..tokens
  BY <1>1, <1>2, RealtimeConstants
<1> QED
  BY <1>2, <1>3, <1>4, <1>5, <1>6, ServerStep

\* A wire breaks with what was on it.
LEMMA BreakStep ==
  ASSUME RealtimeInv, NEW k \in DOMAIN wires, WireBreaks(k)
  PROVE  RealtimeInv'
<1> USE DEF RealtimeInv
<1>1. /\ wires[k] \in Wire /\ mobile_realtime_sequence \in 0..MaxSequence
      /\ underway \subseteq Broadcast
  BY RealtimeTyped
<1>2. PICK w \in Wire : /\ w = [wires[k] EXCEPT !.server = "closed", !.inbox = <<>>]
                        /\ w.phone = wires[k].phone /\ w.token = wires[k].token
                        /\ w.awaitingBaseline = wires[k].awaitingBaseline /\ w.heard = wires[k].heard
                        /\ w.server = "closed" /\ DOMAIN w.inbox = {}
  <2>1. <<>> \in Seq(Envelope) /\ DOMAIN <<>> = {}
    OBVIOUS
  <2> DEFINE broken == [wires[k] EXCEPT !.server = "closed", !.inbox = <<>>]
  <2>2. /\ broken \in Wire /\ broken.phone = wires[k].phone /\ broken.token = wires[k].token
        /\ broken.awaitingBaseline = wires[k].awaitingBaseline /\ broken.heard = wires[k].heard
        /\ broken.server = "closed" /\ broken.inbox = <<>>
    BY <1>1, <2>1 DEF Wire
  <2>3. DOMAIN broken.inbox = {}
    BY <2>1, <2>2
  <2> QED
    BY <2>2, <2>3
<1>3. /\ wires' = [wires EXCEPT ![k] = w] /\ ServerSteps
      /\ UNCHANGED <<revoked_tokens, mobile_realtime_sequence, underway>>
  BY <1>1, <1>2 DEF WireBreaks, Wire
<1>4. troubles' \in 0..MaxTroubles
  BY TroublesTyped DEF WireBreaks
<1>5. /\ underway' \subseteq Broadcast /\ mobile_realtime_sequence' \in 0..MaxSequence
      /\ mobile_realtime_sequence <= mobile_realtime_sequence'
      /\ \A u \in underway' : u.sequence <= mobile_realtime_sequence' /\ u.to \subseteq DOMAIN wires
  BY <1>1, <1>3 DEF UnderwayHolds
<1> QED
  BY <1>2, <1>3, <1>4, <1>5, OneWire

-----------------------------------------------------------------------------
(* The theorems *)

\* The initial states satisfy the invariant: no client, no wire, nothing said.
LEMMA RealtimeInitInv ==
  ASSUME RealtimeInit
  PROVE  RealtimeInv
<1> USE DEF RealtimeInit
<1>1. RealtimeTypeOK
  <2>1. initialRealtimeState \in MobileRealtimeState
    BY RealtimeConstants DEF initialRealtimeState, MobileRealtimeState
  <2>2. <<>> \in Seq(Client) /\ <<>> \in Seq(Wire) /\ Len(<<>>) = 0
    OBVIOUS
  <2> QED
    <3>1. tokens \in 1..MaxPairings /\ token \in 0..tokens /\ revoked_tokens \subseteq 1..tokens
      BY RealtimeConstants
    <3>2. {visible, wrongly_revoked} \subseteq BOOLEAN
      OBVIOUS
    <3>3. /\ clients \in Seq(Client) /\ Len(clients) <= MaxRealtimeClients
          /\ wires \in Seq(Wire) /\ Len(wires) <= MaxWires /\ current \in 0..Len(clients)
      BY <2>2, RealtimeConstants
    <3>4. /\ mobile_realtime_sequence \in 0..MaxSequence /\ underway \subseteq Broadcast
          /\ troubles \in 0..MaxTroubles
      BY RealtimeConstants
    <3> HIDE DEF RealtimeInit
    <3>5. realtime \in MobileRealtimeState /\ rendered \in Rendered
      BY <2>1, RealtimeConstants DEF RealtimeInit, NoRender, Rendered
    <3> QED
      BY <3>1, <3>2, <3>3, <3>4, <3>5 DEF RealtimeTypeOK
<1>2. DOMAIN clients = {} /\ DOMAIN wires = {} /\ underway = {}
  OBVIOUS
<1>3. ClientsHold /\ WiresHold /\ UnderwayHolds /\ OnlyMine
  BY <1>2 DEF ClientsHold, WiresHold, UnderwayHolds, OnlyMine
<1>4. CurrentHolds /\ StateHolds /\ BaselineIsComing /\ ConnectedIsTrue /\ RevokedByBackendOnly
  BY DEF CurrentHolds, StateHolds, BaselineIsComing, ConnectedIsTrue, RevokedByBackendOnly,
     initialRealtimeState, NoRender
<1>5. HeardHolds /\ NewestIsShown
  BY DEF HeardHolds, NewestIsShown, MySocket, initialRealtimeState
<1> QED
  BY <1>1, <1>3, <1>4, <1>5 DEF RealtimeInv

\* Every step preserves the invariant.
LEMMA RealtimeStepInv ==
  ASSUME RealtimeInv, [RealtimeNext]_realtimeVars
  PROVE  RealtimeInv'
<1>1. CASE \E t \in 0..MaxPairings : session_changes(t)
  BY <1>1, SessionStep
<1>2. CASE visibility_changes \/ provider_renders
  BY <1>2, VisibilityStep
<1>12. CASE connection_effect
  BY <1>12, EffectStep
<1>3. ASSUME NEW n \in DOMAIN clients, NEW answer \in {"ticket", "denied", "failed"},
             openSocket(n, answer)
      PROVE  RealtimeInv'
  BY <1>3, AnswerStep
<1>4. ASSUME NEW n \in DOMAIN clients, reconnect_timer(n) \/ onerror(n) \/ onclose(n)
      PROVE  RealtimeInv'
  BY <1>4, TimerStep, ErrorStep, CloseStep
<1>5. ASSUME NEW n \in DOMAIN clients, NEW drifted \in BOOLEAN, onmessage(n, drifted)
      PROVE  RealtimeInv'
  BY <1>5, MessageStep
<1>6. ASSUME NEW k \in DOMAIN wires, websocket_endpoint(k) \/ WireBreaks(k)
      PROVE  RealtimeInv'
  BY <1>6, EndpointStep, BreakStep
<1>7. ASSUME NEW event_type \in {"cockpit", "invalidate"}, broadcast_begins(event_type)
      PROVE  RealtimeInv'
  BY <1>7, BeginsStep
<1>8. ASSUME NEW u \in underway, NEW k \in u.to, broadcast_sends(u, k)
      PROVE  RealtimeInv'
  BY <1>8, SendsStep
<1>9. ASSUME NEW t \in 1..MaxPairings, device_is_revoked(t)
      PROVE  RealtimeInv'
  BY <1>9, DeviceStep
<1>10. CASE RealtimeBackendRestart
  BY <1>10, RestartStep
<1>11. CASE UNCHANGED realtimeVars
  <2> USE <1>11 DEF realtimeVars
  <2>1. RealtimeTypeOK' /\ ClientsHold' /\ StateHolds' /\ WiresHold' /\ UnderwayHolds'
    BY DEF RealtimeInv, RealtimeTypeOK, ClientsHold, StateHolds, WiresHold, UnderwayHolds
  <2>2. CurrentHolds' /\ RevokedByBackendOnly'
    BY DEF RealtimeInv, CurrentHolds, RevokedByBackendOnly
  <2>3. BaselineIsComing' /\ ConnectedIsTrue' /\ OnlyMine'
    BY DEF RealtimeInv, BaselineIsComing, ConnectedIsTrue, OnlyMine, MySocket
  <2>4. HeardHolds' /\ NewestIsShown'
    BY DEF RealtimeInv, HeardHolds, NewestIsShown, MySocket
  <2> QED
    BY <2>1, <2>2, <2>3, <2>4 DEF RealtimeInv
<1> QED
  BY <1>1, <1>2, <1>3, <1>4, <1>5, <1>6, <1>7, <1>8, <1>9, <1>10, <1>11, <1>12
     DEF RealtimeNext

\* The invariant holds of every behaviour.
LEMMA RealtimeInvariance == RealtimeSpec => []RealtimeInv
<1> QED
  BY RealtimeInitInv, RealtimeStepInv, PTL DEF RealtimeSpec

\* The variables keep their types.
THEOREM RealtimeTypeCorrect == RealtimeSpec => []RealtimeTypeOK
<1>1. RealtimeInv => RealtimeTypeOK
  BY DEF RealtimeInv
<1> QED
  BY <1>1, RealtimeInvariance, PTL

\* The screen says connected only of an open socket that had its baseline, shows the
\* newest snapshot that came over it, and will not take the next broadcast for an old
\* one; a served socket whose messages were all heard is heard; none is open but the
\* present client's; a connection that is due is held or sought; and unless an effect
\* is due, the phone gives a session up only when the backend revoked it
\* (reduceRealtime, MobileRealtimeClient, ConnectionProvider and main.py's broadcasts).
THEOREM RealtimeIsSoundAlways == RealtimeSpec => []RealtimeIsSound
<1>1. ASSUME RealtimeInv
      PROVE  RealtimeIsSound
  <2>1. ConnectedIsTrue /\ NewestIsShown /\ RevokedByBackendOnly
    BY <1>1 DEF RealtimeInv
  <2>2. BaselineIsTaken
    BY <1>1 DEF RealtimeInv, BaselineIsComing, BaselineIsTaken, MySocket
  <2>3. KeepsTrying
    BY <1>1 DEF RealtimeInv, CurrentHolds, KeepsTrying, OutOfDate
  <2>4. SocketsAreHeld
    <3>1. DOMAIN wires = 1..Len(wires)
      BY <1>1, RealtimeTyped DEF RealtimeInv
    <3> SUFFICES ASSUME NEW k \in DOMAIN wires, wires[k].phone = "open"
                 PROVE  k = MySocket /\ (OutOfDate \/ wires[k].token = token)
      BY DEF SocketsAreHeld
    <3>2. k = MySocket /\ current # 0 /\ clients[current].socket # 0
      BY <1>1, <3>1 DEF RealtimeInv, OnlyMine, MySocket
    <3>3. wires[k].token = clients[current].token
      BY <1>1, <3>2 DEF RealtimeInv, CurrentHolds, MySocket
    <3> QED
      BY <3>2, <3>3 DEF OutOfDate
  <2> QED
    BY <2>1, <2>2, <2>3, <2>4 DEF RealtimeIsSound
<1> QED
  BY <1>1, RealtimeInvariance, PTL
--------------------------------------------------------------------------------
(***************************************************************************)
(* The operations as TLC runs them.                                        *)
(***************************************************************************)

\* A step is one of one component, and leaves the others alone.
LEMMA OneOperationMoves ==
  ASSUME [Next]_vars
  PROVE  /\ [BackupNext]_backupVars /\ [FeedsNext]_feedVars
         /\ [SelectionNext]_selectionVars /\ [SignerNext]_signerVars
         /\ [PhoneNext]_phoneVars /\ [RealtimeNext]_realtimeVars
<1>1. CASE UNCHANGED vars
  BY <1>1 DEF vars, phone
<1>2. CASE \/ \E debt \in BOOLEAN : Backup(database_is_written(debt))
           \/ \E on \in BOOLEAN : Backup((on => FirstCopy) /\ switch_live(on))
           \/ Backup(FirstCopy /\ pair_phone)
           \/ Backup(Started /\ start_or_stop)
           \/ Backup(clear_data)
           \/ Backup((FirstCopy \/ database.restored) /\ create_backup_artifact)
           \/ \E outcome \in {"delivered", "discarded", "failed"} :
                 Backup((outcome = "delivered" <=> FirstCopy) /\ backup_artifact(outcome))
           \/ Backup(FirstCopy /\ backup)
           \/ Backup(save_backup_history)
  <2>1. BackupNext /\ UNCHANGED <<feedVars, selectionVars, signerVars, phoneVars, realtimeVars>>
    BY <1>2 DEF Backup, Alone, phone, BackupNext
  <2> QED
    BY <2>1
<1>3. CASE \/ \E copy \in copies : Backup(stage_restore(copy))
           \/ Backup(create_restore_safety_backup)
           \/ Backup(replace_database)
           \/ Backup(reload_from_storage)
           \/ Backup(save_restore_history)
           \/ \E reloads \in BOOLEAN : Backup(restore_fails(reloads))
           \/ \E reloads \in BOOLEAN : Backup(rollback_fails(reloads))
           \/ Backup(BackupStop)
  <2>1. BackupNext /\ UNCHANGED <<feedVars, selectionVars, signerVars, phoneVars, realtimeVars>>
    BY <1>3 DEF Backup, Alone, phone, BackupNext
  <2> QED
    BY <2>1
<1>4. CASE \/ Feeds(_queue_trade_subscription)
           \/ \E m \in 0..Launched : Feeds(Streaming /\ candidate_changes(m))
           \/ \E readable \in BOOLEAN : Feeds((Streaming \/ readable) /\ begin_connection(readable))
           \/ Feeds(first_launch)
           \/ \E succeeds \in BOOLEAN : Feeds((Streaming \/ succeeds) /\ connect(succeeds))
  <2>1. FeedsNext /\ UNCHANGED <<backupVars, selectionVars, signerVars, phoneVars, realtimeVars>>
    BY <1>4 DEF Feeds, Alone, phone, FeedsNext
  <2> QED
    BY <2>1
<1>5. CASE \/ \E launch \in BOOLEAN, poll \in {"none", "answers", "raises"}, event \in Events :
                 Feeds((Streaming => event = "none") /\ poll_or_receive(launch, poll, event))
           \/ Feeds(Streaming /\ connection_lost)
           \/ Feeds(backoff_is_over)
           \/ \E saved \in BOOLEAN : Feeds(ingest_source_event(saved))
           \/ \E cap \in Caps : Feeds(FeedsRestart(cap))
  <2>1. FeedsNext /\ UNCHANGED <<backupVars, selectionVars, signerVars, phoneVars, realtimeVars>>
    BY <1>5 DEF Feeds, Alone, phone, FeedsNext
  <2> QED
    BY <2>1
<1>6. CASE \/ \E c \in StrategyCandidates : Selection(Chosen(c) /\ propose_strategy_candidate(c))
           \/ \E c \in StrategyCandidates, trial \in Trials :
                 Selection(Chosen(c) /\ (Judging => trial.shadow /\ trial.sample = 1)
                           /\ save_candidate_validation(c, trial))
           \/ \E c \in StrategyCandidates, i \in Intents :
                 Selection(Chosen(c) /\ (Judging => i = "i1") /\ promote_strategy_candidate(c, i))
           \/ Selection(Choosing /\ arm_backend_session)
           \/ Selection(Choosing /\ start_live_session)
           \/ Selection(Choosing /\ disarm_backend_session)
           \/ Selection(Choosing /\ lock_hot_wallet)
           \/ Selection(Judging /\ settings_change)
  <2>1. SelectionNext /\ UNCHANGED <<backupVars, feedVars, signerVars, phoneVars, realtimeVars>>
    BY <1>6 DEF Selection, Alone, phone, SelectionNext
  <2> QED
    BY <2>1
<1>7. CASE \/ \E enabled \in BOOLEAN :
                 Selection((Choosing \/ (Pressed /\ enabled)) /\ selection_restart(enabled))
           \/ \E state \in {"blocked", "ready"} : Selection(Judging /\ observe_source(state))
           \/ \E result \in {"few", "losing", "proven"} :
                 Selection(Judging /\ complete_comparisons(result))
           \/ Selection(Judging /\ evidence_ages)
           \/ \E operations \in {"unsampled", "warning", "ready"} :
                 Selection((Judging \/ (Pressed /\ operations = "warning" /\ verdict = NoVerdict))
                           /\ refresh_sentinel_verdict(operations))
           \/ Selection(Judging /\ verdict_expires)
           \/ \E pressured \in BOOLEAN : Selection(Pressed /\ workload_pressure(pressured))
  <2>1. SelectionNext /\ UNCHANGED <<backupVars, feedVars, signerVars, phoneVars, realtimeVars>>
    BY <1>7 DEF Selection, Alone, phone, SelectionNext
  <2> QED
    BY <2>1
<1>8. CASE \/ \E r \in HealthRequests : Signer(get_or_start_rpc_health_probe(r))
           \/ \E r \in HealthRequests : Signer(expired_is_refused(r))
           \/ \E r \in HealthRequests : Signer(wait(r))
           \/ \E r \in HealthRequests : Signer(give_up(r))
  <2>1. SignerNext /\ UNCHANGED <<backupVars, feedVars, selectionVars, phoneVars, realtimeVars>>
    BY <1>8 DEF Signer, Alone, phone, SignerNext
  <2> QED
    BY <2>1
<1>9. CASE \/ \E r \in HealthRequests : Signer(probe_is_done(r))
           \/ \E r \in HealthRequests : Signer(submission_readiness(r))
           \/ \E p \in Probes, result \in {"ok", "failed", "malformed"} :
                 Signer(ProbeResult(p, result) /\ run_rpc_health_probe(p, result))
           \/ \E p \in Probes : Signer(probe_thread_ends(p))
  <2>1. SignerNext /\ UNCHANGED <<backupVars, feedVars, selectionVars, phoneVars, realtimeVars>>
    BY <1>9 DEF Signer, Alone, phone, SignerNext
  <2> QED
    BY <2>1
<1>10. CASE \/ \E r \in Logins : Session(LoginInOrder(r) /\ replaceSession(r))
            \/ \E x \in Exits, revoked \in BOOLEAN : Session(clearSession(x, revoked))
            \/ \E x \in Exits : Session(clear_is_due(x))
            \/ Session(mutation_begins)
            \/ \E r \in Logins : Session(save(r))
  <2>1. PhoneNext /\ UNCHANGED <<backupVars, feedVars, selectionVars, signerVars, realtimeVars>>
    BY <1>10 DEF Session, Alone, Backend, PhoneNext
  <2> QED
    BY <2>1
<1>11. CASE \/ \E x \in Exits : Session(clear(x))
            \/ Session(loadOrMigrate)
            \/ Session(mutation_ends)
            \/ \E r \in Logins : Session(replaced_is_forgotten(r))
            \/ Session(PhoneKill)
  <2>1. PhoneNext /\ UNCHANGED <<backupVars, feedVars, selectionVars, signerVars, realtimeVars>>
    BY <1>11 DEF Session, Alone, Backend, PhoneNext
  <2> QED
    BY <2>1
<1>12. CASE \/ \E t \in 0..MaxPairings : Realtime((Switching \/ token = 0) /\ session_changes(t))
            \/ Realtime(Switching /\ token # 0 /\ visibility_changes)
            \/ Realtime(provider_renders)
            \/ Realtime(connection_effect)
            \/ \E n \in DOMAIN clients, answer \in {"ticket", "denied", "failed"} :
                  Realtime((answer = "failed" => Smooth) /\ openSocket(n, answer))
            \/ \E n \in DOMAIN clients : Realtime(reconnect_timer(n))
            \/ \E n \in DOMAIN clients, drifted \in BOOLEAN :
                  Realtime((drifted => ~Switching) /\ onmessage(n, drifted))
            \/ \E n \in DOMAIN clients : Realtime(onerror(n))
            \/ \E n \in DOMAIN clients : Realtime(onclose(n))
  <2>1. RealtimeNext /\ UNCHANGED <<backupVars, feedVars, selectionVars, signerVars, phoneVars>>
    BY <1>12, RealtimeConstants DEF Realtime, Alone, Backend, RealtimeNext
  <2> QED
    BY <2>1
<1>13. CASE \/ \E k \in DOMAIN wires : Realtime(websocket_endpoint(k))
            \/ \E event_type \in {"cockpit", "invalidate"} :
                  Realtime(EventType(event_type) /\ broadcast_begins(event_type))
            \/ \E u \in underway : \E k \in u.to : Realtime(broadcast_sends(u, k))
            \/ Realtime(device_is_revoked(1))
            \/ Realtime(Smooth /\ RealtimeBackendRestart)
            \/ \E k \in DOMAIN wires : Realtime(~Switching /\ WireBreaks(k))
  <2>1. RealtimeNext /\ UNCHANGED <<backupVars, feedVars, selectionVars, signerVars, phoneVars>>
    BY <1>13, RealtimeConstants DEF Realtime, Alone, Backend, RealtimeNext
  <2> QED
    BY <2>1
<1> QED
  BY <1>1, <1>2, <1>3, <1>4, <1>5, <1>6, <1>7, <1>8, <1>9, <1>10, <1>11, <1>12, <1>13 DEF Next

\* What the run checks is a behaviour of each of the six, so that every theorem
\* about one of them holds in it.
THEOREM OperationsAreTheirParts ==
    Spec => /\ BackupSpec /\ FeedsSpec /\ SelectionSpec /\ SignerSpec
            /\ PhoneSpec /\ RealtimeSpec
<1>1. Init => /\ BackupInit /\ FeedsInit /\ SelectionInit /\ SignerInit
              /\ PhoneInit /\ RealtimeInit
  BY DEF Init
<1> QED
  BY <1>1, OneOperationMoves, PTL
     DEF Spec, BackupSpec, FeedsSpec, SelectionSpec, SignerSpec, PhoneSpec, RealtimeSpec

\* Every variable of the six is of its type.
THEOREM OperationsTypeCorrect == Spec => []OperationsTypeOK
  BY OperationsAreTheirParts, BackupTypeCorrect, FeedsTyped, SelectionTypeCorrect,
     SignerTypeCorrect, PhoneTypeCorrect, RealtimeTypeCorrect, PTL DEF OperationsTypeOK
================================================================================
