---------------------------- MODULE AutonomousPilot ----------------------------
(***************************************************************************)
(* The attended autonomous pilot: policies, windows and their reviews, the *)
(* runtime guard, the bot loop's autonomous tick and the loss ledger       *)
(* (core/state.py, core/storage.py, core/autonomous_pilot.py,              *)
(* core/pilot_risk.py, core/post_pilot_review.py).                         *)
(*                                                                         *)
(* A tick runs to its end on the event loop: between its steps only the    *)
(* world and the clock move, and a restart forgets it.  The wallet trades  *)
(* one mint.  Gains and losses are whole units of SOL.  The gates that     *)
(* depend on nothing here (signer, sources, sentinel, rehearsal, economic  *)
(* evidence, fresh marks) are one switch, world_ok.  What the operator's   *)
(* side says of a window, of readiness or of a review comes in dicts of    *)
(* his own that the backend does not check against its tables.             *)
(***************************************************************************)
EXTENDS Naturals, Integers, Sequences, FiniteSets, FiniteSetsExt, SequencesExt

CONSTANTS
    PilotAudits,          \* audits quoted by the tick
    SessionStop,          \* session_loss_stop_sol
    DailyStop,            \* daily_loss_stop_sol
    FreezeAt,             \* cumulative_loss_freeze_sol
    ConsecutiveStop,      \* consecutive_loss_stop (3)
    MaxWindows, MaxPolicies, MaxVersions, MaxPilotRestarts,    \* bounds
    MaxReviews, MaxDays,  \* bounds
    MaxReversals          \* bound: changes of the operator's mind and of the world

ASSUME PilotAssumption ==
    /\ {SessionStop, DailyStop, FreezeAt, ConsecutiveStop, MaxWindows, MaxPolicies, MaxVersions}
          \subseteq Nat \ {0}
    /\ {MaxPilotRestarts, MaxReversals, MaxReviews, MaxDays} \subseteq Nat
    /\ "none" \notin PilotAudits

VARIABLES
    pilot_settings,       \* kill switch and armed backend, in memory
    pilot_settings_row,   \* ... and in the settings table
    settings_version,     \* current_settings_version_id
    versioned,            \* the switches as the latest settings version has them
    live_session,         \* active_live_session_id is set
    policies,             \* pilot_risk_policies: the settings version each was made for
    windows,              \* autonomous_pilot_windows, the latest last
    reviews,              \* post_pilot_reviews with their operator decision
    pilot_audits,         \* live_execution_audits of the pilot
    position,             \* live_ledger_positions: the mint is held
    loss_ledger,          \* pilot_loss_ledger, in the order of created_at
    tick,                 \* run_live_autonomy, or a reconciliation, under way
    world_ok,
    mark,                 \* what the position would gain now, by its last mark
    today,                \* the UTC day
    rearmed,              \* history: the operator armed or lifted since the last stop
    reversals, pilot_restarts

pilotVars == <<pilot_settings, pilot_settings_row, settings_version, versioned,
               live_session, policies, windows, reviews, pilot_audits, position, loss_ledger, tick,
               world_ok, mark, today, rearmed, reversals, pilot_restarts>>

Switches == [kill: BOOLEAN, armed: BOOLEAN]
PilotWindow == [status: {"BLOCKED", "ELIGIBLE_DEFERRED", "OPEN", "CLOSED"},
                policy: 0..MaxPolicies, fresh: BOOLEAN]
PilotReview == [window: 1..MaxWindows, clear: BOOLEAN, decided: BOOLEAN]
\* "submitting" is also "needs_review" without a signature: the signer's answer is lost.
PilotAudit == [status: {"none", "ready", "submitting", "submitted", "confirmed",
                        "reconciled", "failed"},
               action: {"none", "buy", "sell"}, window: 0..MaxWindows,
               policy: 0..MaxPolicies, matched: BOOLEAN]
NoAudit == [status |-> "none", action |-> "none", window |-> 0, policy |-> 0,
            matched |-> FALSE]
PilotOutcome == [audit: PilotAudits, window: 1..MaxWindows, policy: 1..MaxPolicies,
                 pnl: {0 - 1, 1}, day: 0..MaxDays]
Tick == [step: {"idle", "ranked", "quoted", "reconciled"}, audit: PilotAudits \cup {"none"}]
NoTick == [step |-> "idle", audit |-> "none"]

PilotTypeOK ==
    /\ {pilot_settings, pilot_settings_row, versioned} \subseteq Switches
    /\ settings_version \in 0..MaxVersions
    /\ live_session \in BOOLEAN /\ (live_session => pilot_settings.armed)
    /\ policies \in Seq(0..MaxVersions) /\ Len(policies) <= MaxPolicies
    /\ windows \in Seq(PilotWindow) /\ Len(windows) <= MaxWindows
    /\ reviews \in Seq(PilotReview) /\ Len(reviews) <= MaxReviews
    /\ pilot_audits \in [PilotAudits -> PilotAudit]
    /\ position \in BOOLEAN
    /\ loss_ledger \in Seq(PilotOutcome)
    /\ tick \in Tick /\ (tick.step \in {"idle", "ranked"} <=> tick.audit = "none")
    /\ {world_ok, rearmed} \subseteq BOOLEAN
    /\ mark \in {0 - 1, 0, 1} /\ today \in 0..MaxDays
    /\ reversals \in 0..MaxReversals /\ pilot_restarts \in 0..MaxPilotRestarts

PilotInit ==
    /\ pilot_settings = [kill |-> FALSE, armed |-> FALSE]
    /\ pilot_settings_row = pilot_settings
    /\ settings_version = 0
    /\ versioned = pilot_settings
    /\ live_session = FALSE
    /\ policies = <<>>
    /\ windows = <<>>
    /\ reviews = <<>>
    /\ pilot_audits = [a \in PilotAudits |-> NoAudit]
    /\ position = FALSE
    /\ loss_ledger = <<>>
    /\ tick = NoTick
    /\ world_ok = TRUE /\ mark = 0 /\ today = 0
    /\ rearmed = FALSE
    /\ reversals = 0 /\ pilot_restarts = 0

settingsVars == <<pilot_settings, pilot_settings_row, settings_version, versioned, live_session>>
bookVars == <<pilot_audits, position, loss_ledger>>
boundVars == <<world_ok, mark, today, reversals, pilot_restarts>>

-----------------------------------------------------------------------------
(* Risk: _pilot_risk_state, PilotRiskPolicy.evaluate_entry *)

LatestWindow == windows[Len(windows)]
LatestIsOpen == windows # <<>> /\ LatestWindow.status = "OPEN"

Entries(p) == SelectSeq(loss_ledger, LAMBDA e : e.policy = p)
InSession(p) == IF LatestIsOpen /\ LatestWindow.policy = p
                THEN SelectSeq(Entries(p), LAMBDA e : e.window = Len(windows))
                ELSE Entries(p)
OfToday(p) == SelectSeq(Entries(p), LAMBDA e : e.day = today)
Unrealized == IF position THEN mark ELSE 0
PnL(entries) == FoldLeft(LAMBDA sum, e : sum + e.pnl, 0, entries)
cumulative_loss(p) == Len(SelectSeq(Entries(p), LAMBDA e : e.pnl < 0))
\* Losses at the end of the entries, with no gain among them.
ConsecutiveLosses(p) ==
    LET es == Entries(p)
        gains == {i \in DOMAIN es : es[i].pnl >= 0}
    IN  Len(es) - (IF gains = {} THEN 0 ELSE Max(gains))

LossStopped(p) ==
    \/ PnL(InSession(p)) + Unrealized <= 0 - SessionStop
    \/ PnL(OfToday(p)) + Unrealized <= 0 - DailyStop
    \/ cumulative_loss(p) >= FreezeAt
    \/ ConsecutiveLosses(p) >= ConsecutiveStop

\* A position counts once its fill is booked.
evaluate_entry(p) == ~LossStopped(p) /\ ~position /\ ~pilot_settings.kill

UnresolvedAudit(a) ==
    \/ pilot_audits[a].status \in {"submitting", "submitted", "failed"}
    \/ pilot_audits[a].status = "confirmed" /\ ~pilot_audits[a].matched

NothingUnresolved == \A a \in PilotAudits : ~UnresolvedAudit(a)

\* _live_execution_blockers for the autonomous tick, and for the submission.
EntryBlocked(action) ==
    \/ action = "buy" /\ (~NothingUnresolved \/ pilot_settings.kill)
    \/ ~pilot_settings.armed
    \/ ~world_ok

-----------------------------------------------------------------------------
(* The runtime guard *)

\* _pilot_runtime_blockers: none.
PilotMayRun ==
    /\ LatestIsOpen
    /\ LatestWindow.fresh
    /\ ~pilot_settings.kill
    /\ pilot_settings.armed
    /\ policies # <<>>
    /\ LatestWindow.policy = Len(policies)
    /\ policies[Len(policies)] = settings_version
    /\ ~LossStopped(Len(policies))
    /\ world_ok

\* stop_autonomous_pilot_window: the window and the settings row in one
\* transaction, then the settings in memory.
Stopped == [kill |-> TRUE, armed |-> FALSE]
\* Mutant: the live session outlives the stop.
SessionKept == live_session
SessionEnded == FALSE
stop_autonomous_pilot_window ==
    /\ windows' = [windows EXCEPT ![Len(windows)].status = "CLOSED"]
    /\ pilot_settings_row' = Stopped
    /\ pilot_settings' = Stopped
    /\ live_session' = SessionEnded
    /\ rearmed' = FALSE
    /\ tick' = NoTick
    /\ UNCHANGED <<settings_version, versioned, policies, reviews, bookVars, boundVars>>

-----------------------------------------------------------------------------
(* The tick: run_live_autonomy *)

run_live_autonomy ==
    /\ tick.step = "idle"
    /\ LatestIsOpen
    /\ IF PilotMayRun
       THEN /\ tick' = [step |-> "ranked", audit |-> "none"]
            /\ UNCHANGED <<settingsVars, policies, windows, reviews, bookVars, rearmed, boundVars>>
       ELSE stop_autonomous_pilot_window

\* quote_live_intent after the guard and the blockers; a buy the policy
\* refuses is saved blocked and the tick goes on to nothing.
quote_live_intent(a, action) ==
    /\ tick.step = "ranked"
    /\ pilot_audits[a].status = "none"
    /\ action = "sell" => position
    /\ PilotMayRun
    /\ \/ /\ \/ EntryBlocked(action)
             \/ action = "buy" /\ ~evaluate_entry(Len(policies))
          /\ tick' = NoTick
          /\ UNCHANGED pilot_audits
       \/ /\ ~EntryBlocked(action)
          /\ action = "buy" => evaluate_entry(Len(policies))
          /\ pilot_audits' = [pilot_audits EXCEPT ![a] =
                [status |-> "ready", action |-> action, window |-> Len(windows),
                 policy |-> Len(policies), matched |-> FALSE]]
          /\ tick' = [step |-> "quoted", audit |-> a]
    /\ UNCHANGED <<settingsVars, policies, windows, reviews, position, loss_ledger,
                   rearmed, boundVars>>

\* Mutant: the guard is not asked again.
AsQuoted(a) == LatestIsOpen
\* live_submit of an autonomous audit, after the guard.
Submittable(a) ==
    LET row == pilot_audits[a]
    IN  /\ PilotMayRun
        /\ row.window = Len(windows)
        /\ row.policy = LatestWindow.policy
        /\ row.action = "buy" =>
              /\ row.policy = Len(policies)
              /\ evaluate_entry(row.policy)
              /\ NothingUnresolved
        /\ ~EntryBlocked(row.action)

\* The row says submitting before the signer is called.  Its answer is the
\* signature; the call may also raise, whether the signer sent or not.
live_submit ==
    LET a == tick.audit
    IN  /\ tick.step = "quoted"
        /\ Submittable(a)
        /\ \E s \in {"submitting", "submitted"} :
              pilot_audits' = [pilot_audits EXCEPT ![a].status = s]
        /\ tick' = NoTick
        /\ UNCHANGED <<settingsVars, policies, windows, reviews, position, loss_ledger,
                       rearmed, boundVars>>

\* The guard finds a blocker between two steps of the tick.
tick_stopped ==
    /\ tick.step \in {"ranked", "quoted"}
    /\ ~PilotMayRun
    /\ stop_autonomous_pilot_window

\* The quote is stale or its preflight fails; the audit stays ready.
tick_gives_up ==
    /\ tick.step \in {"ranked", "quoted"}
    /\ tick' = NoTick
    /\ UNCHANGED <<settingsVars, policies, windows, reviews, bookVars, rearmed, boundVars>>

-----------------------------------------------------------------------------
(* The loss ledger *)

\* recover_live_audit of a transaction that failed on the chain.
recover_failed_audit(a) ==
    /\ tick.step = "idle"
    /\ pilot_audits[a].status = "submitted"
    /\ pilot_audits' = [pilot_audits EXCEPT ![a].status = "failed"]
    /\ UNCHANGED <<settingsVars, policies, windows, reviews, position, loss_ledger, tick,
                   rearmed, boundVars>>

\* recover_live_audit up to the commit of _reconcile_live_audit; an audit that
\* is reconciled already may be reconciled again by the operator.
reconcile_live_audit(a) ==
    /\ tick.step = "idle"
    /\ pilot_audits[a].status \in {"submitted", "confirmed", "reconciled"}
    /\ pilot_audits' = [pilot_audits EXCEPT ![a] =
          [@ EXCEPT !.status = "confirmed", !.matched = TRUE]]
    /\ position' = IF pilot_audits[a].matched THEN position
                   ELSE pilot_audits[a].action = "buy"
    /\ tick' = [step |-> "reconciled", audit |-> a]
    /\ UNCHANGED <<settingsVars, policies, windows, reviews, loss_ledger, rearmed, boundVars>>

Counted(a) == \E i \in DOMAIN loss_ledger : loss_ledger[i].audit = a
\* Mutant: an insert per reconciliation.
NeverCounted(a) == FALSE
AlreadyCounted(a) == Counted(a)

\* _record_reconciled_pilot_outcome and the end of recover_live_audit.  Without
\* the transaction's metadata there is no outcome; a second outcome of the same
\* audit, whose recorded_at differs, raises and leaves the audit confirmed.
append_pilot_outcome(metadata, pnl) ==
    LET a == tick.audit
        row == pilot_audits[a]
    IN  /\ tick.step = "reconciled"
        /\ tick' = NoTick
        /\ \/ /\ row.action = "sell" /\ metadata /\ ~AlreadyCounted(a)
              /\ loss_ledger' = Append(loss_ledger,
                    [audit |-> a, window |-> row.window, policy |-> row.policy, pnl |-> pnl,
                     day |-> today])
              /\ pilot_audits' = [pilot_audits EXCEPT ![a].status = "reconciled"]
           \/ /\ row.action = "sell" /\ metadata /\ AlreadyCounted(a)
              /\ UNCHANGED <<loss_ledger, pilot_audits>>
           \/ /\ row.action = "buy" \/ ~metadata
              /\ pilot_audits' = [pilot_audits EXCEPT ![a].status = "reconciled"]
              /\ UNCHANGED loss_ledger
        /\ UNCHANGED <<settingsVars, policies, windows, reviews, position, rearmed, boundVars>>

\* The operator sells by hand: his audit names no window and is counted nowhere.
manual_sell ==
    /\ tick.step = "idle"
    /\ position
    /\ NothingUnresolved
    /\ position' = FALSE
    /\ UNCHANGED <<settingsVars, policies, windows, reviews, pilot_audits, loss_ledger,
                   tick, rearmed, boundVars>>

-----------------------------------------------------------------------------
(* The operator *)

Saved(switches) == /\ pilot_settings' = switches /\ pilot_settings_row' = switches

set_kill_switch(on) ==
    /\ tick.step = "idle"
    /\ pilot_settings.kill # on
    /\ reversals < MaxReversals
    /\ reversals' = reversals + 1
    /\ Saved([pilot_settings EXCEPT !.kill = on])
    /\ rearmed' = (rearmed \/ ~on)
    /\ UNCHANGED <<settings_version, versioned, live_session, policies, windows, reviews,
                   bookVars, tick, world_ok, mark, today, pilot_restarts>>

arm_live_backend ==
    /\ tick.step = "idle"
    /\ ~pilot_settings.armed
    /\ ~pilot_settings.kill /\ world_ok
    /\ Saved([pilot_settings EXCEPT !.armed = TRUE])
    /\ live_session' = TRUE
    /\ rearmed' = TRUE
    /\ UNCHANGED <<settings_version, versioned, policies, windows, reviews, bookVars, tick,
                   boundVars>>

disarm_live_backend ==
    /\ tick.step = "idle"
    /\ pilot_settings.armed
    /\ reversals < MaxReversals
    /\ reversals' = reversals + 1
    /\ Saved([pilot_settings EXCEPT !.armed = FALSE])
    /\ live_session' = FALSE
    /\ UNCHANGED <<settings_version, versioned, policies, windows, reviews, bookVars, tick,
                   world_ok, mark, today, rearmed, pilot_restarts>>

\* Settings saved as a new version, which has the switches as they are.
update_settings ==
    /\ tick.step = "idle"
    /\ settings_version < MaxVersions
    /\ settings_version' = settings_version + 1
    /\ versioned' = pilot_settings
    /\ UNCHANGED <<pilot_settings, pilot_settings_row, live_session, policies, windows,
                   reviews, bookVars, tick, rearmed, boundVars>>

create_pilot_risk_policy ==
    /\ tick.step = "idle"
    /\ ~live_session
    /\ Len(policies) < MaxPolicies
    /\ policies' = Append(policies, settings_version)
    /\ UNCHANGED <<settingsVars, windows, reviews, bookVars, tick, rearmed, boundVars>>

\* The window before was reviewed, clear, and decided upon.
ReviewedLast ==
    windows # <<>> =>
        /\ reviews # <<>>
        /\ LET r == reviews[Len(reviews)]
           IN  r.window = Len(windows) /\ r.clear /\ r.decided

\* evaluate_autonomous_pilot_window: what it records never opens by itself.  The
\* evidence and the policy are the caller's, the review before is the backend's.
evaluate_autonomous_pilot_window(evidence) ==
    /\ tick.step = "idle"
    /\ Len(windows) < MaxWindows
    /\ \E p \in DOMAIN policies :
          windows' = Append(windows,
             [status |-> IF evidence /\ ReviewedLast THEN "ELIGIBLE_DEFERRED" ELSE "BLOCKED",
              policy |-> p, fresh |-> TRUE])
    /\ UNCHANGED <<settingsVars, policies, reviews, bookVars, tick, rearmed, boundVars>>

\* external: the separately authorized window, recorded by save_autonomous_pilot_window.
OpenWindowRecorded ==
    /\ tick.step = "idle"
    /\ Len(windows) < MaxWindows
    /\ policies # <<>>
    /\ windows # <<>> /\ LatestWindow.status = "ELIGIBLE_DEFERRED"
    /\ windows' = Append(windows,
          [status |-> "OPEN", policy |-> Len(policies), fresh |-> TRUE])
    /\ UNCHANGED <<settingsVars, policies, reviews, bookVars, tick, rearmed, boundVars>>

\* close_post_pilot_review: which window it is of, and whether all is clear, is
\* what the caller's dicts say.  Other audits make another review of a window.
close_post_pilot_review(w, clear) ==
    /\ tick.step = "idle"
    /\ Len(reviews) < MaxReviews
    /\ reviews' = Append(reviews, [window |-> w, clear |-> clear, decided |-> FALSE])
    /\ UNCHANGED <<settingsVars, policies, windows, bookVars, tick, rearmed, boundVars>>

\* A review is decided upon once, whichever it is.
record_post_pilot_decision(j) ==
    /\ tick.step = "idle"
    /\ ~reviews[j].decided
    /\ reviews' = [reviews EXCEPT ![j].decided = TRUE]
    /\ UNCHANGED <<settingsVars, policies, windows, bookVars, tick, rearmed, boundVars>>

-----------------------------------------------------------------------------
(* The world and the process *)

WindowExpires ==
    /\ windows # <<>> /\ LatestWindow.fresh
    /\ windows' = [windows EXCEPT ![Len(windows)].fresh = FALSE]
    /\ UNCHANGED <<settingsVars, policies, reviews, bookVars, tick, rearmed, boundVars>>

WorldTurns ==
    /\ reversals < MaxReversals
    /\ reversals' = reversals + 1
    /\ \/ world_ok' = ~world_ok /\ UNCHANGED <<mark, today>>
       \/ position /\ mark' \in {0 - 1, 0, 1} \ {mark} /\ UNCHANGED <<world_ok, today>>
       \/ today < MaxDays /\ today' = today + 1 /\ UNCHANGED <<world_ok, mark>>
    /\ UNCHANGED <<settingsVars, policies, windows, reviews, bookVars, tick, rearmed,
                   pilot_restarts>>

\* ensure_settings_version at startup: settings the latest version does not
\* have, switches included, are a new version.
PilotRestart ==
    LET drifted == pilot_settings_row # versioned IN
    /\ pilot_restarts < MaxPilotRestarts
    /\ pilot_restarts' = pilot_restarts + 1
    /\ drifted => settings_version < MaxVersions
    /\ settings_version' = settings_version + (IF drifted THEN 1 ELSE 0)
    /\ versioned' = pilot_settings_row
    /\ pilot_settings' = pilot_settings_row
    /\ live_session' = FALSE
    /\ tick' = NoTick
    /\ UNCHANGED <<pilot_settings_row, policies, windows, reviews, bookVars, world_ok,
                   mark, today, rearmed, reversals>>

PilotNext ==
    \/ run_live_autonomy \/ live_submit \/ tick_stopped \/ tick_gives_up
    \/ \E a \in PilotAudits : \/ \E action \in {"buy", "sell"} : quote_live_intent(a, action)
                              \/ reconcile_live_audit(a) \/ recover_failed_audit(a)
    \/ \E metadata \in BOOLEAN, pnl \in {0 - 1, 1} : append_pilot_outcome(metadata, pnl)
    \/ manual_sell
    \/ \E on \in BOOLEAN : set_kill_switch(on)
    \/ arm_live_backend \/ disarm_live_backend \/ update_settings
    \/ create_pilot_risk_policy
    \/ \E evidence \in BOOLEAN : evaluate_autonomous_pilot_window(evidence)
    \/ OpenWindowRecorded
    \/ \E w \in DOMAIN windows, clear \in BOOLEAN : close_post_pilot_review(w, clear)
    \/ \E j \in DOMAIN reviews : record_post_pilot_decision(j)
    \/ WindowExpires \/ WorldTurns \/ PilotRestart

PilotSpec == PilotInit /\ [][PilotNext]_pilotVars

-----------------------------------------------------------------------------
(* Properties *)

\* The pilot never has two positions in the making: what it bought and has not
\* seen booked counts like what it holds, and so does what the signer may have
\* sent without an answer (evaluate_entry, _live_execution_blockers).
OnePilotPosition ==
    LET bought == {a \in PilotAudits : /\ pilot_audits[a].action = "buy"
                                       /\ pilot_audits[a].status \in {"submitting", "submitted"}}
    IN  Cardinality(bought) + (IF position THEN 1 ELSE 0) <= 1

\* Each closed trade is counted once, in the window and under the policy it was
\* quoted in, however often and whenever it is reconciled.
LedgerCountsOnce ==
    /\ \A i, j \in DOMAIN loss_ledger : loss_ledger[i].audit = loss_ledger[j].audit => i = j
    /\ \A i \in DOMAIN loss_ledger :
          LET row == pilot_audits[loss_ledger[i].audit]
          IN  row.matched /\ row.window = loss_ledger[i].window
                 /\ row.policy = loss_ledger[i].policy

\* A stop outlives the process: until the operator arms or lifts the kill switch
\* himself, the backend is disarmed and the switch is on.
StopHolds ==
    windows # <<>> /\ LatestWindow.status = "CLOSED" /\ ~rearmed =>
        pilot_settings = Stopped

\* What a tick sends was quoted in the window that is open now, under the policy
\* that holds now, with no loss stop reached since.
NoSendPastStop ==
    [][\A a \in PilotAudits :
          pilot_audits'[a].status \in {"submitting", "submitted"} /\ pilot_audits[a].status = "ready" =>
             /\ LatestIsOpen /\ LatestWindow.fresh
             /\ pilot_audits[a].window = Len(windows)
             /\ pilot_audits[a].policy = Len(policies)
             /\ ~LossStopped(pilot_audits[a].policy)]_pilotVars

\* A window becomes eligible only behind a window that was reviewed, said to be
\* clear, and decided upon, whatever reviews of other windows come in between.
NextPilotReviewed ==
    \A i \in DOMAIN windows :
        windows[i].status = "ELIGIBLE_DEFERRED" /\ i > 1 =>
            \E j \in DOMAIN reviews :
                  reviews[j].window = i - 1 /\ reviews[j].clear /\ reviews[j].decided

\* The pilot holds one position at most, its losses are counted once and for
\* the window they belong to, and the window after them opens only behind the
\* review of the one before (evaluate_entry, append_pilot_outcome,
\* evaluate_autonomous_pilot_window).
PilotIsAccountable == OnePilotPosition /\ LedgerCountsOnce /\ NextPilotReviewed

\* A pilot that was stopped stays stopped across a restart, and nothing is sent
\* past the stop that was reached (stop_autonomous_pilot_window, live_submit).
PilotStops == []StopHolds /\ NoSendPastStop
=============================================================================
