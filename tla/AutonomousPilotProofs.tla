-------------------------- MODULE AutonomousPilotProofs --------------------------
(***************************************************************************)
(* Proofs about AutonomousPilot, for any audits, limits and numbers of     *)
(* windows: one position at most, each closed trade counted once, a window *)
(* eligible only behind a clear review, a stop that holds across restarts, *)
(* and nothing sent past a stop.                                           *)
(*                                                                         *)
(* "One position" counts what the chain has not confirmed yet, so it needs *)
(* that a fill is booked by the step that ends its submission (AuditsHold);*)
(* the stop needs that row and memory agree (SwitchesAreSaved).            *)
(***************************************************************************)
EXTENDS AutonomousPilot, FiniteSetTheorems, TLAPS

\* The tick under way: it began under an open window, what it submits is still
\* ready, and what it books was confirmed by it.
TickFits ==
    /\ tick.step \in {"ranked", "quoted"} => windows # <<>>
    /\ tick.step = "quoted" => pilot_audits[tick.audit].status = "ready"
    /\ tick.step = "reconciled" => /\ pilot_audits[tick.audit].status = "confirmed"
                                   /\ pilot_audits[tick.audit].matched

\* An audit names the window and the policy it was quoted in, and has its fill
\* booked exactly from its confirmation on.
AuditsHold ==
    \A a \in PilotAudits :
        /\ pilot_audits[a].status # "none" => /\ pilot_audits[a].window \in 1..MaxWindows
                                              /\ pilot_audits[a].policy \in 1..MaxPolicies
        /\ pilot_audits[a].matched <=> pilot_audits[a].status \in {"confirmed", "reconciled"}

Bought(a) == /\ pilot_audits[a].action = "buy"
             /\ pilot_audits[a].status \in {"submitting", "submitted"}

\* OnePilotPosition without counting.
OnePosition ==
    \A a \in PilotAudits : Bought(a) =>
        /\ ~position
        /\ \A b \in PilotAudits : Bought(b) => a = b

\* A restart reads the switches as they were (update_settings, stop_autonomous_pilot_window).
SwitchesAreSaved == pilot_settings_row = pilot_settings

PilotInv ==
    /\ PilotTypeOK
    /\ TickFits
    /\ AuditsHold
    /\ OnePosition
    /\ LedgerCountsOnce
    /\ NextPilotReviewed
    /\ SwitchesAreSaved
    /\ StopHolds

-----------------------------------------------------------------------------
(* The operators of the model.                                             *)

\* The assumptions, in the form the steps below use them.
LEMMA PilotConstants ==
    /\ MaxWindows \in Nat /\ MaxWindows > 0 /\ MaxPolicies \in Nat /\ MaxPolicies > 0
    /\ MaxVersions \in Nat /\ MaxReversals \in Nat /\ MaxPilotRestarts \in Nat
    /\ MaxReviews \in Nat /\ MaxDays \in Nat
    /\ "none" \notin PilotAudits
<1>1. {SessionStop, DailyStop, FreezeAt, ConsecutiveStop, MaxWindows, MaxPolicies, MaxVersions}
          \subseteq Nat \ {0}
  BY PilotAssumption
<1>2. {MaxPilotRestarts, MaxReversals, MaxReviews, MaxDays} \subseteq Nat
  BY PilotAssumption
<1> QED
  BY <1>1, <1>2, PilotAssumption

\* The columns of an audit have their types.
LEMMA AuditTyped ==
  ASSUME PilotTypeOK, NEW a \in PilotAudits
  PROVE  /\ pilot_audits[a].status \in
                {"none", "ready", "submitting", "submitted", "confirmed", "reconciled", "failed"}
         /\ pilot_audits[a].action \in {"none", "buy", "sell"}
         /\ pilot_audits[a].window \in 0..MaxWindows
         /\ pilot_audits[a].policy \in 0..MaxPolicies
         /\ pilot_audits[a].matched \in BOOLEAN
<1>1. pilot_audits[a] \in PilotAudit
  BY DEF PilotTypeOK
<1> QED
  BY <1>1 DEF PilotAudit

\* The tick has an audit between its quote and its submission, and while it books.
LEMMA TickTyped ==
  ASSUME PilotTypeOK
  PROVE  /\ tick.step \in {"idle", "ranked", "quoted", "reconciled"}
         /\ tick.step \in {"quoted", "reconciled"} => tick.audit \in PilotAudits
<1>1. tick \in Tick /\ (tick.step \in {"idle", "ranked"} <=> tick.audit = "none")
  BY DEF PilotTypeOK
<1> QED
  BY <1>1 DEF Tick

\* The latest window is one of the windows (get_latest_autonomous_pilot_window).
LEMMA LatestTyped ==
  ASSUME PilotTypeOK, windows # <<>>
  PROVE  /\ Len(windows) \in 1..MaxWindows
         /\ Len(windows) \in DOMAIN windows
         /\ DOMAIN windows = 1..Len(windows)
         /\ windows \in [1..Len(windows) -> PilotWindow]
<1>1. windows \in Seq(PilotWindow) /\ Len(windows) <= MaxWindows
  BY DEF PilotTypeOK
<1>2. Len(windows) \in Nat /\ DOMAIN windows = 1..Len(windows) /\ Len(windows) # 0
  BY <1>1
<1> QED
  BY <1>1, <1>2, PilotConstants

\* Changing a window's status or age leaves a sequence of windows as long as it was.
LEMMA WindowChanged ==
  ASSUME PilotTypeOK, windows # <<>>, NEW w \in PilotWindow,
         windows' = [windows EXCEPT ![Len(windows)] = w]
  PROVE  /\ windows' \in Seq(PilotWindow)
         /\ Len(windows') = Len(windows)
         /\ DOMAIN windows' = DOMAIN windows
         /\ windows'[Len(windows)] = w
         /\ \A i \in DOMAIN windows : i # Len(windows) => windows'[i] = windows[i]
  BY LatestTyped

\* A stop writes its window and its switches, and nothing of audits or ledger.
LEMMA StopWrites ==
  ASSUME PilotTypeOK, windows # <<>>, stop_autonomous_pilot_window
  PROVE  /\ windows' \in Seq(PilotWindow)
         /\ Len(windows') = Len(windows)
         /\ DOMAIN windows' = DOMAIN windows
         /\ windows'[Len(windows)].status = "CLOSED"
         /\ \A i \in DOMAIN windows : i # Len(windows) => windows'[i] = windows[i]
<1>1. windows[Len(windows)] \in PilotWindow
  BY LatestTyped
<1>2. [windows[Len(windows)] EXCEPT !.status = "CLOSED"] \in PilotWindow
  BY <1>1 DEF PilotWindow
<1>3. [windows[Len(windows)] EXCEPT !.status = "CLOSED"].status = "CLOSED"
  BY <1>1 DEF PilotWindow
<1>4. windows' = [windows EXCEPT ![Len(windows)] =
                     [windows[Len(windows)] EXCEPT !.status = "CLOSED"]]
  BY DEF stop_autonomous_pilot_window
<1> QED
  BY <1>2, <1>3, <1>4, WindowChanged

\* The columns of a fresh row, and of one whose status changes, have their types.
LEMMA AuditWritten ==
  ASSUME PilotTypeOK, NEW a \in PilotAudits,
         NEW s \in {"submitting", "submitted", "confirmed", "reconciled", "failed"}, NEW m \in BOOLEAN
  PROVE  /\ [pilot_audits[a] EXCEPT !.status = s] \in PilotAudit
         /\ [pilot_audits[a] EXCEPT !.status = s, !.matched = m] \in PilotAudit
<1>1. pilot_audits[a] \in PilotAudit
  BY DEF PilotTypeOK
<1> QED
  BY <1>1 DEF PilotAudit

\* The window that an evaluation records (evaluate_autonomous_pilot_window).
LEMMA WindowEvaluated ==
  ASSUME PilotTypeOK, NEW evidence \in BOOLEAN, evaluate_autonomous_pilot_window(evidence)
  PROVE  \E p \in 0..Len(policies), s \in {"BLOCKED", "ELIGIBLE_DEFERRED"} :
            /\ windows' = Append(windows, [status |-> s, policy |-> p, fresh |-> TRUE])
            /\ s = "ELIGIBLE_DEFERRED" => ReviewedLast
<1>1. PICK s \in {"BLOCKED", "ELIGIBLE_DEFERRED"} :
        s = IF evidence /\ ReviewedLast THEN "ELIGIBLE_DEFERRED" ELSE "BLOCKED"
  OBVIOUS
<1>2. PICK p \in DOMAIN policies :
        windows' = Append(windows, [status |-> s, policy |-> p, fresh |-> TRUE])
  BY <1>1 DEF evaluate_autonomous_pilot_window
<1>3. p \in 0..Len(policies)
  BY <1>2 DEF PilotTypeOK
<1> QED
  BY <1>1, <1>2, <1>3

-----------------------------------------------------------------------------
(* The types *)

\* Every step of the pilot keeps every variable in its type.
LEMMA TypeStep ==
  ASSUME PilotTypeOK, TickFits, AuditsHold, SwitchesAreSaved, PilotNext
  PROVE  PilotTypeOK'
<1> USE PilotConstants DEF settingsVars, bookVars, boundVars
<1>1. /\ {pilot_settings, pilot_settings_row, versioned} \subseteq Switches
      /\ settings_version \in 0..MaxVersions
      /\ live_session \in BOOLEAN /\ (live_session => pilot_settings.armed)
      /\ policies \in Seq(0..MaxVersions) /\ Len(policies) <= MaxPolicies
      /\ windows \in Seq(PilotWindow) /\ Len(windows) <= MaxWindows
      /\ reviews \in Seq(PilotReview) /\ Len(reviews) <= MaxReviews
      /\ pilot_audits \in [PilotAudits -> PilotAudit]
      /\ position \in BOOLEAN
      /\ loss_ledger \in Seq(PilotOutcome)
      /\ tick \in Tick /\ (tick.step \in {"idle", "ranked"} <=> tick.audit = "none")
      /\ {world_ok, rearmed} \subseteq BOOLEAN
      /\ mark \in {0 - 1, 0, 1} /\ today \in 0..MaxDays
      /\ reversals \in 0..MaxReversals /\ pilot_restarts \in 0..MaxPilotRestarts
  BY DEF PilotTypeOK
<1>2. NoTick \in Tick /\ NoTick.step = "idle" /\ NoTick.audit = "none"
  BY DEF NoTick, Tick
<1>3. Stopped \in Switches
  BY DEF Stopped, Switches
<1>4. ASSUME windows # <<>>, stop_autonomous_pilot_window PROVE PilotTypeOK'
  BY <1>1, <1>2, <1>3, <1>4, StopWrites
     DEF stop_autonomous_pilot_window, SessionEnded, PilotTypeOK
<1>5. CASE run_live_autonomy
  <2>1. CASE PilotMayRun
    <3>1. tick' \in Tick /\ tick'.step = "ranked" /\ tick'.audit = "none"
      BY <1>5, <2>1 DEF run_live_autonomy, Tick
    <3> QED
      BY <1>1, <1>5, <2>1, <3>1 DEF run_live_autonomy, PilotTypeOK
  <2> QED
    BY <1>4, <1>5, <2>1 DEF run_live_autonomy, LatestIsOpen
<1>6. CASE live_submit
  <2>1. PICK s \in {"submitting", "submitted"} :
           pilot_audits' = [pilot_audits EXCEPT ![tick.audit].status = s]
    BY <1>6 DEF live_submit
  <2>2. tick.audit \in PilotAudits
    BY <1>6, TickTyped DEF live_submit
  <2>3. pilot_audits' \in [PilotAudits -> PilotAudit]
    BY <1>1, <2>1, <2>2, AuditWritten
  <2> QED
    BY <1>1, <1>2, <1>6, <2>3 DEF live_submit, PilotTypeOK
<1>7. CASE tick_stopped
  BY <1>4, <1>7 DEF tick_stopped, TickFits
<1>8. CASE tick_gives_up
  BY <1>1, <1>2, <1>8 DEF tick_gives_up, PilotTypeOK
<1>9. ASSUME NEW a \in PilotAudits, NEW action \in {"buy", "sell"}, quote_live_intent(a, action)
      PROVE  PilotTypeOK'
  <2>1. windows # <<>> /\ policies # <<>>
    BY <1>9 DEF quote_live_intent, PilotMayRun, LatestIsOpen
  <2>2. Len(windows) \in 0..MaxWindows /\ Len(policies) \in 0..MaxPolicies
    BY <1>1
  <2>3. [status |-> "ready", action |-> action, window |-> Len(windows),
         policy |-> Len(policies), matched |-> FALSE] \in PilotAudit
    BY <2>2 DEF PilotAudit
  <2>4. pilot_audits' \in [PilotAudits -> PilotAudit]
    BY <1>1, <1>9, <2>3 DEF quote_live_intent
  <2>5. tick' \in Tick /\ (tick'.step \in {"idle", "ranked"} <=> tick'.audit = "none")
    BY <1>2, <1>9 DEF quote_live_intent, Tick
  <2> QED
    BY <1>1, <1>9, <2>4, <2>5 DEF quote_live_intent, PilotTypeOK
<1>10. ASSUME NEW a \in PilotAudits, reconcile_live_audit(a) PROVE PilotTypeOK'
  <2>1. pilot_audits' = [pilot_audits EXCEPT ![a] =
           [pilot_audits[a] EXCEPT !.status = "confirmed", !.matched = TRUE]]
    BY <1>10 DEF reconcile_live_audit
  <2>2. pilot_audits' \in [PilotAudits -> PilotAudit]
    BY <1>1, <2>1, AuditWritten
  <2>3. tick' \in Tick /\ tick'.step = "reconciled" /\ tick'.audit # "none"
    BY <1>10 DEF reconcile_live_audit, Tick
  <2>4. position' \in BOOLEAN
    BY <1>1, <1>10 DEF reconcile_live_audit
  <2> QED
    BY <1>1, <1>10, <2>2, <2>3, <2>4 DEF reconcile_live_audit, PilotTypeOK
<1>11. ASSUME NEW metadata \in BOOLEAN, NEW pnl \in {0 - 1, 1}, append_pilot_outcome(metadata, pnl)
       PROVE  PilotTypeOK'
  <2> DEFINE a == tick.audit
  <2> DEFINE entry == [audit |-> a, window |-> pilot_audits[a].window,
                       policy |-> pilot_audits[a].policy, pnl |-> pnl, day |-> today]
  <2>1. a \in PilotAudits /\ pilot_audits[a].status = "confirmed"
    BY <1>11, TickTyped DEF append_pilot_outcome, TickFits
  <2>2. entry \in PilotOutcome
    BY <1>1, <2>1 DEF AuditsHold, PilotOutcome
  <2>3. loss_ledger' = loss_ledger \/ loss_ledger' = Append(loss_ledger, entry)
    BY <1>11 DEF append_pilot_outcome
  <2>4. loss_ledger' \in Seq(PilotOutcome)
    <3>1. Append(loss_ledger, entry) \in Seq(PilotOutcome)
      <4> HIDE DEF entry
      <4>1. loss_ledger \in Seq(PilotOutcome)
        BY <1>1
      <4> QED
        BY <2>2, <4>1
    <3> QED
      BY <1>1, <2>3, <3>1
  <2>5. \/ pilot_audits' = pilot_audits
        \/ pilot_audits' = [pilot_audits EXCEPT ![a].status = "reconciled"]
    BY <1>11 DEF append_pilot_outcome
  <2>6. pilot_audits' \in [PilotAudits -> PilotAudit]
    BY <1>1, <2>1, <2>5, AuditWritten
  <2> QED
    BY <1>1, <1>2, <1>11, <2>4, <2>6 DEF append_pilot_outcome, PilotTypeOK
<1>12. CASE manual_sell
  BY <1>1, <1>12 DEF manual_sell, PilotTypeOK
<1>13. ASSUME NEW on \in BOOLEAN, set_kill_switch(on) PROVE PilotTypeOK'
  <2>1. /\ [pilot_settings EXCEPT !.kill = on] \in Switches
        /\ [pilot_settings EXCEPT !.kill = on].armed = pilot_settings.armed
    BY <1>1 DEF Switches
  <2>2. reversals' \in 0..MaxReversals /\ rearmed' \in BOOLEAN
    BY <1>1, <1>13 DEF set_kill_switch
  <2> QED
    BY <1>1, <1>13, <2>1, <2>2 DEF set_kill_switch, Saved, PilotTypeOK
<1>14. CASE arm_live_backend
  <2>1. /\ [pilot_settings EXCEPT !.armed = TRUE] \in Switches
        /\ [pilot_settings EXCEPT !.armed = TRUE].armed
    BY <1>1 DEF Switches
  <2> QED
    BY <1>1, <1>14, <2>1 DEF arm_live_backend, Saved, PilotTypeOK
<1>15. CASE disarm_live_backend
  <2>1. [pilot_settings EXCEPT !.armed = FALSE] \in Switches
    BY <1>1 DEF Switches
  <2>2. reversals' \in 0..MaxReversals
    BY <1>1, <1>15 DEF disarm_live_backend
  <2> QED
    BY <1>1, <1>15, <2>1, <2>2 DEF disarm_live_backend, Saved, PilotTypeOK
<1>16. CASE update_settings
  BY <1>1, <1>16 DEF update_settings, PilotTypeOK
<1>17. CASE create_pilot_risk_policy
  <2>1. policies' \in Seq(0..MaxVersions) /\ Len(policies') <= MaxPolicies
    BY <1>1, <1>17 DEF create_pilot_risk_policy
  <2> QED
    BY <1>1, <1>17, <2>1 DEF create_pilot_risk_policy, PilotTypeOK
<1>18. ASSUME NEW w \in PilotWindow, windows' = Append(windows, w), Len(windows) < MaxWindows
       PROVE  windows' \in Seq(PilotWindow) /\ Len(windows') <= MaxWindows
  BY <1>1, <1>18
<1>19. ASSUME NEW s \in {"BLOCKED", "ELIGIBLE_DEFERRED", "OPEN", "CLOSED"},
              NEW p \in 0..Len(policies)
       PROVE  [status |-> s, policy |-> p, fresh |-> TRUE] \in PilotWindow
  BY <1>1 DEF PilotWindow
<1>20. ASSUME NEW evidence \in BOOLEAN, evaluate_autonomous_pilot_window(evidence)
       PROVE  PilotTypeOK'
  <2>1. PICK p \in 0..Len(policies), s \in {"BLOCKED", "ELIGIBLE_DEFERRED"} :
          windows' = Append(windows, [status |-> s, policy |-> p, fresh |-> TRUE])
    BY <1>20, WindowEvaluated
  <2>2. [status |-> s, policy |-> p, fresh |-> TRUE] \in PilotWindow
    BY <1>19
  <2>3. windows' \in Seq(PilotWindow) /\ Len(windows') <= MaxWindows
    BY <1>18, <1>20, <2>1, <2>2 DEF evaluate_autonomous_pilot_window
  <2> QED
    BY <1>1, <1>20, <2>3 DEF evaluate_autonomous_pilot_window, PilotTypeOK
<1>21. CASE OpenWindowRecorded
  <2>1. windows' \in Seq(PilotWindow) /\ Len(windows') <= MaxWindows
    BY <1>1, <1>18, <1>19, <1>21 DEF OpenWindowRecorded
  <2> QED
    BY <1>1, <1>21, <2>1 DEF OpenWindowRecorded, PilotTypeOK
<1>22. ASSUME NEW w \in DOMAIN windows, NEW clear \in BOOLEAN, close_post_pilot_review(w, clear)
       PROVE  PilotTypeOK'
  <2>1. w \in 1..MaxWindows
    BY <1>1
  <2>2. [window |-> w, clear |-> clear, decided |-> FALSE] \in PilotReview
    BY <2>1 DEF PilotReview
  <2>3. reviews' \in Seq(PilotReview) /\ Len(reviews') <= MaxReviews
    BY <1>1, <1>22, <2>2 DEF close_post_pilot_review
  <2> QED
    BY <1>1, <1>22, <2>3 DEF close_post_pilot_review, PilotTypeOK
<1>23. ASSUME NEW j \in DOMAIN reviews, record_post_pilot_decision(j) PROVE PilotTypeOK'
  <2>1. reviews[j] \in PilotReview
    BY <1>1
  <2>2. [reviews[j] EXCEPT !.decided = TRUE] \in PilotReview
    BY <2>1 DEF PilotReview
  <2>3. reviews' \in Seq(PilotReview) /\ Len(reviews') = Len(reviews)
    BY <1>1, <1>23, <2>2 DEF record_post_pilot_decision
  <2> QED
    BY <1>1, <1>23, <2>3 DEF record_post_pilot_decision, PilotTypeOK
<1>24. CASE WindowExpires
  <2>1. windows[Len(windows)] \in PilotWindow
    BY <1>24, LatestTyped DEF WindowExpires
  <2>2. [windows[Len(windows)] EXCEPT !.fresh = FALSE] \in PilotWindow
    BY <2>1 DEF PilotWindow
  <2>3. windows' = [windows EXCEPT ![Len(windows)] =
                       [windows[Len(windows)] EXCEPT !.fresh = FALSE]]
    BY <1>24 DEF WindowExpires
  <2>4. windows' \in Seq(PilotWindow) /\ Len(windows') = Len(windows)
    BY <1>24, <2>2, <2>3, WindowChanged DEF WindowExpires
  <2> QED
    BY <1>1, <1>24, <2>4 DEF WindowExpires, PilotTypeOK
<1>25. CASE WorldTurns
  <2>1. /\ reversals' \in 0..MaxReversals /\ world_ok' \in BOOLEAN
        /\ mark' \in {0 - 1, 0, 1} /\ today' \in 0..MaxDays
    <3>1. CASE world_ok' = ~world_ok /\ UNCHANGED <<mark, today>>
      BY <1>1, <1>25, <3>1 DEF WorldTurns
    <3>2. CASE mark' \in {0 - 1, 0, 1} \ {mark} /\ UNCHANGED <<world_ok, today>>
      BY <1>1, <1>25, <3>2 DEF WorldTurns
    <3>3. CASE today < MaxDays /\ today' = today + 1 /\ UNCHANGED <<world_ok, mark>>
      BY <1>1, <1>25, <3>3 DEF WorldTurns
    <3> QED
      BY <1>25, <3>1, <3>2, <3>3 DEF WorldTurns
  <2> QED
    BY <1>1, <1>25, <2>1 DEF WorldTurns, PilotTypeOK
<1>26. CASE PilotRestart
  <2>1. settings_version' \in 0..MaxVersions /\ pilot_restarts' \in 0..MaxPilotRestarts
    BY <1>1, <1>26 DEF PilotRestart
  <2> QED
    BY <1>1, <1>2, <1>26, <2>1 DEF PilotRestart, PilotTypeOK
<1>27. ASSUME NEW a \in PilotAudits, recover_failed_audit(a) PROVE PilotTypeOK'
  <2>1. pilot_audits' \in [PilotAudits -> PilotAudit]
    BY <1>1, <1>27, AuditWritten DEF recover_failed_audit
  <2> QED
    BY <1>1, <1>27, <2>1 DEF recover_failed_audit, PilotTypeOK
<1> QED
  BY <1>5, <1>6, <1>7, <1>8, <1>9, <1>10, <1>11, <1>12, <1>13, <1>14, <1>15, <1>16, <1>17,
     <1>20, <1>21, <1>22, <1>23, <1>24, <1>25, <1>26, <1>27 DEF PilotNext

-----------------------------------------------------------------------------
(* The tick and the audits *)

\* The rows a step may write: a quote fills a free one, a submission ends a ready
\* one, a reconciliation confirms what is on its way and books it once, and the
\* ledger closes what was confirmed.
AuditsMove ==
    \/ pilot_audits' = pilot_audits /\ position' = position
    \/ \E a \in PilotAudits, action \in {"buy", "sell"} :
          /\ pilot_audits[a].status = "none"
          /\ Len(windows) \in 1..MaxWindows /\ Len(policies) \in 1..MaxPolicies
          /\ pilot_audits' = [pilot_audits EXCEPT ![a] =
                [status |-> "ready", action |-> action, window |-> Len(windows),
                 policy |-> Len(policies), matched |-> FALSE]]
          /\ position' = position
    \/ \E a \in PilotAudits, s \in {"submitting", "submitted"} :
          /\ pilot_audits[a].status = "ready"
          /\ pilot_audits[a].action = "buy" => evaluate_entry(Len(policies)) /\ NothingUnresolved
          /\ pilot_audits' = [pilot_audits EXCEPT ![a].status = s]
          /\ position' = position
    \/ \E a \in PilotAudits :
          /\ pilot_audits[a].status = "submitted"
          /\ pilot_audits' = [pilot_audits EXCEPT ![a].status = "failed"]
          /\ position' = position
    \/ \E a \in PilotAudits :
          /\ pilot_audits[a].status \in {"submitted", "confirmed", "reconciled"}
          /\ pilot_audits' = [pilot_audits EXCEPT ![a] =
                [pilot_audits[a] EXCEPT !.status = "confirmed", !.matched = TRUE]]
          /\ position' = IF pilot_audits[a].matched THEN position
                         ELSE pilot_audits[a].action = "buy"
    \/ \E a \in PilotAudits :
          /\ pilot_audits[a].status = "confirmed"
          /\ pilot_audits' = [pilot_audits EXCEPT ![a].status = "reconciled"]
          /\ position' = position
    \/ pilot_audits' = pilot_audits /\ position' = FALSE

\* Every step writes the audits and the position in one of these ways, and leaves
\* an audit that is not quoted, submitted, confirmed or closed alone.
LEMMA AuditsMoved ==
  ASSUME PilotTypeOK, TickFits, PilotNext
  PROVE  AuditsMove
<1> USE DEF settingsVars, bookVars, boundVars, stop_autonomous_pilot_window
<1>1. CASE live_submit
  <2>1. PICK s \in {"submitting", "submitted"} :
           pilot_audits' = [pilot_audits EXCEPT ![tick.audit].status = s]
    BY <1>1 DEF live_submit
  <2>2. tick.audit \in PilotAudits /\ pilot_audits[tick.audit].status = "ready"
    BY <1>1, TickTyped DEF live_submit, TickFits
  <2>3. pilot_audits[tick.audit].action = "buy" =>
           evaluate_entry(Len(policies)) /\ NothingUnresolved
    BY <1>1 DEF live_submit, Submittable
  <2> QED
    BY <1>1, <2>1, <2>2, <2>3 DEF live_submit, AuditsMove
<1>2. ASSUME NEW a \in PilotAudits, NEW action \in {"buy", "sell"}, quote_live_intent(a, action)
      PROVE  AuditsMove
  <2>1. windows # <<>> /\ policies # <<>>
    BY <1>2 DEF quote_live_intent, PilotMayRun, LatestIsOpen
  <2>2. policies \in Seq(0..MaxVersions) /\ Len(policies) <= MaxPolicies
    BY DEF PilotTypeOK
  <2>3. Len(windows) \in 1..MaxWindows /\ Len(policies) \in 1..MaxPolicies
    BY <2>1, <2>2, LatestTyped, PilotConstants
  <2> QED
    BY <1>2, <2>3 DEF quote_live_intent, AuditsMove
<1>3. ASSUME NEW a \in PilotAudits, reconcile_live_audit(a) PROVE AuditsMove
  BY <1>3 DEF reconcile_live_audit, AuditsMove
<1>4. ASSUME NEW metadata \in BOOLEAN, NEW pnl \in {0 - 1, 1}, append_pilot_outcome(metadata, pnl)
      PROVE  AuditsMove
  <2>1. tick.audit \in PilotAudits /\ pilot_audits[tick.audit].status = "confirmed"
    BY <1>4, TickTyped DEF append_pilot_outcome, TickFits
  <2> QED
    BY <1>4, <2>1 DEF append_pilot_outcome, AuditsMove
<1>5. CASE manual_sell
  BY <1>5 DEF manual_sell, AuditsMove
<1>7. ASSUME NEW a \in PilotAudits, recover_failed_audit(a) PROVE AuditsMove
  BY <1>7 DEF recover_failed_audit, AuditsMove
<1>6. ASSUME \/ run_live_autonomy \/ tick_stopped \/ tick_gives_up
             \/ \E on \in BOOLEAN : set_kill_switch(on)
             \/ arm_live_backend \/ disarm_live_backend \/ update_settings
             \/ create_pilot_risk_policy
             \/ \E evidence \in BOOLEAN : evaluate_autonomous_pilot_window(evidence)
             \/ OpenWindowRecorded
             \/ \E w \in DOMAIN windows, clear \in BOOLEAN : close_post_pilot_review(w, clear)
             \/ \E j \in DOMAIN reviews : record_post_pilot_decision(j)
             \/ WindowExpires \/ WorldTurns \/ PilotRestart
      PROVE  AuditsMove
  BY <1>6 DEF run_live_autonomy, tick_stopped, tick_gives_up, set_kill_switch, arm_live_backend,
     disarm_live_backend, update_settings, create_pilot_risk_policy,
     evaluate_autonomous_pilot_window, close_post_pilot_review, OpenWindowRecorded,
     record_post_pilot_decision, WindowExpires, WorldTurns, PilotRestart, AuditsMove
<1> QED
  BY <1>1, <1>2, <1>3, <1>4, <1>5, <1>6, <1>7 DEF PilotNext

\* An audit is quoted under a window and a policy, and its fill is booked by the
\* step that confirms it (quote_live_intent, reconcile_live_audit).
LEMMA AuditsStep ==
  ASSUME PilotTypeOK, TickFits, AuditsHold, PilotNext
  PROVE  AuditsHold'
<1>1. AuditsMove
  BY AuditsMoved
<1>2. \A b \in PilotAudits : pilot_audits[b] \in PilotAudit
  BY DEF PilotTypeOK
<1>3. pilot_audits \in [PilotAudits -> PilotAudit]
  BY DEF PilotTypeOK
<1>6. ASSUME NEW a \in PilotAudits, NEW s \in {"submitting", "submitted", "failed"},
             pilot_audits[a].status \in {"ready", "submitted"},
             pilot_audits' = [pilot_audits EXCEPT ![a].status = s]
      PROVE  AuditsHold'
  BY <1>2, <1>3, <1>6 DEF AuditsHold, PilotAudit
<1>7. ASSUME NEW a \in PilotAudits,
             pilot_audits[a].status \in {"submitted", "confirmed", "reconciled"},
             pilot_audits' = [pilot_audits EXCEPT ![a] =
                [pilot_audits[a] EXCEPT !.status = "confirmed", !.matched = TRUE]]
      PROVE  AuditsHold'
  BY <1>2, <1>3, <1>7 DEF AuditsHold, PilotAudit
<1>8. ASSUME NEW a \in PilotAudits, pilot_audits[a].status = "confirmed",
             pilot_audits' = [pilot_audits EXCEPT ![a].status = "reconciled"]
      PROVE  AuditsHold'
  BY <1>2, <1>3, <1>8 DEF AuditsHold, PilotAudit
<1>9. CASE pilot_audits' = pilot_audits
  BY <1>9 DEF AuditsHold
<1>10. ASSUME NEW a \in PilotAudits, NEW action \in {"buy", "sell"},
              pilot_audits[a].status = "none",
              Len(windows) \in 1..MaxWindows, Len(policies) \in 1..MaxPolicies,
              pilot_audits' = [pilot_audits EXCEPT ![a] =
                 [status |-> "ready", action |-> action, window |-> Len(windows),
                  policy |-> Len(policies), matched |-> FALSE]]
       PROVE  AuditsHold'
  BY <1>3, <1>10 DEF AuditsHold
<1> QED
  BY <1>1, <1>6, <1>7, <1>8, <1>9, <1>10 DEF AuditsMove

\* Of what the pilot bought at most one is not booked, and none beside a position:
\* a buy is submitted only with nothing on its way and nothing held, and the step
\* that ends its submission is the one that books it (evaluate_entry).
LEMMA PositionStep ==
  ASSUME PilotTypeOK, TickFits, AuditsHold, OnePosition, PilotNext
  PROVE  OnePosition'
<1>1. AuditsMove
  BY AuditsMoved
<1>2. \A b \in PilotAudits : pilot_audits[b] \in PilotAudit
  BY DEF PilotTypeOK
<1>3. pilot_audits \in [PilotAudits -> PilotAudit] /\ position \in BOOLEAN
  BY DEF PilotTypeOK
<1>4. ASSUME NEW a \in PilotAudits, NEW action \in {"buy", "sell"},
             pilot_audits' = [pilot_audits EXCEPT ![a] =
                [status |-> "ready", action |-> action, window |-> Len(windows),
                 policy |-> Len(policies), matched |-> FALSE]],
             position' = position
      PROVE  OnePosition'
  <2>1. \A b \in PilotAudits : Bought(b)' => Bought(b)
    BY <1>3, <1>4 DEF Bought
  <2> QED
    BY <1>4, <2>1 DEF OnePosition
<1>5. ASSUME NEW a \in PilotAudits, NEW s \in {"submitting", "submitted"},
             pilot_audits[a].action = "buy" => evaluate_entry(Len(policies)) /\ NothingUnresolved,
             pilot_audits' = [pilot_audits EXCEPT ![a].status = s],
             position' = position
      PROVE  OnePosition'
  <2>1. \A b \in PilotAudits : Bought(b)' => Bought(b) \/ b = a
    BY <1>2, <1>3, <1>5 DEF Bought, PilotAudit
  <2>2. CASE pilot_audits[a].action = "buy"
    <3>1. ~position /\ \A b \in PilotAudits : ~Bought(b)
      BY <1>5, <2>2 DEF evaluate_entry, NothingUnresolved, UnresolvedAudit, Bought
    <3> QED
      BY <1>5, <2>1, <3>1 DEF OnePosition
  <2>3. CASE pilot_audits[a].action # "buy"
    <3>1. ~Bought(a)'
      BY <1>2, <1>3, <1>5, <2>3 DEF Bought, PilotAudit
    <3> QED
      BY <1>5, <2>1, <3>1 DEF OnePosition
  <2> QED
    BY <2>2, <2>3
<1>6. ASSUME NEW a \in PilotAudits,
             pilot_audits[a].status \in {"submitted", "confirmed", "reconciled"},
             pilot_audits' = [pilot_audits EXCEPT ![a] =
                [pilot_audits[a] EXCEPT !.status = "confirmed", !.matched = TRUE]],
             position' = IF pilot_audits[a].matched THEN position
                         ELSE pilot_audits[a].action = "buy"
      PROVE  OnePosition'
  <2>1. \A b \in PilotAudits : Bought(b)' => Bought(b) /\ b # a
    BY <1>2, <1>3, <1>6 DEF Bought, PilotAudit
  <2>2. CASE position'
    <3>1. position \/ Bought(a)
      BY <1>6, <2>2 DEF AuditsHold, Bought
    <3>2. \A b \in PilotAudits : ~Bought(b)'
      BY <2>1, <3>1 DEF OnePosition
    <3> QED
      BY <3>2 DEF OnePosition
  <2>3. CASE ~position'
    BY <2>1, <2>3 DEF OnePosition
  <2> QED
    BY <2>2, <2>3
<1>7. ASSUME NEW a \in PilotAudits, NEW s \in {"reconciled", "failed"},
             pilot_audits' = [pilot_audits EXCEPT ![a].status = s], position' = position
      PROVE  OnePosition'
  <2>1. \A b \in PilotAudits : Bought(b)' => Bought(b)
    BY <1>2, <1>3, <1>7 DEF Bought, PilotAudit
  <2> QED
    BY <1>7, <2>1 DEF OnePosition
<1>8. CASE pilot_audits' = pilot_audits /\ (position' = position \/ position' = FALSE)
  BY <1>8 DEF OnePosition, Bought
<1> QED
  BY <1>1, <1>4, <1>5, <1>6, <1>7, <1>8 DEF AuditsMove

\* The tick keeps its audit: what it quoted is ready, what it reconciles confirmed,
\* until its next step (run_live_autonomy, recover_live_audit).
LEMMA TickStep ==
  ASSUME PilotTypeOK, TickFits, PilotNext
  PROVE  TickFits'
<1> USE DEF settingsVars, bookVars, boundVars
<1>1. NoTick.step = "idle"
  BY DEF NoTick
<1>2. ASSUME tick' = NoTick PROVE TickFits'
  BY <1>1, <1>2 DEF TickFits
<1>3. pilot_audits \in [PilotAudits -> PilotAudit]
  BY DEF PilotTypeOK
<1>4. CASE run_live_autonomy
  BY <1>2, <1>4 DEF run_live_autonomy, stop_autonomous_pilot_window, LatestIsOpen, TickFits
<1>5. ASSUME \/ live_submit \/ tick_stopped \/ tick_gives_up \/ PilotRestart
             \/ \E metadata \in BOOLEAN, pnl \in {0 - 1, 1} : append_pilot_outcome(metadata, pnl)
      PROVE  TickFits'
  BY <1>2, <1>5 DEF live_submit, tick_stopped, stop_autonomous_pilot_window, tick_gives_up,
     PilotRestart, append_pilot_outcome
<1>6. ASSUME NEW a \in PilotAudits, NEW action \in {"buy", "sell"}, quote_live_intent(a, action)
      PROVE  TickFits'
  BY <1>1, <1>3, <1>6 DEF quote_live_intent, TickFits
<1>7. ASSUME NEW a \in PilotAudits, reconcile_live_audit(a) PROVE TickFits'
  <2>1. pilot_audits' = [pilot_audits EXCEPT ![a] =
           [pilot_audits[a] EXCEPT !.status = "confirmed", !.matched = TRUE]]
    BY <1>7 DEF reconcile_live_audit
  <2>2. pilot_audits[a] \in PilotAudit
    BY <1>3
  <2>3. pilot_audits'[a].status = "confirmed" /\ pilot_audits'[a].matched
    BY <1>3, <2>1, <2>2 DEF PilotAudit
  <2>4. tick'.step = "reconciled" /\ tick'.audit = a
    BY <1>7 DEF reconcile_live_audit
  <2> QED
    BY <2>3, <2>4 DEF TickFits
<1>8. ASSUME tick.step = "idle", tick' = tick PROVE TickFits'
  BY <1>8 DEF TickFits
<1>9. ASSUME \/ manual_sell
             \/ \E on \in BOOLEAN : set_kill_switch(on)
             \/ arm_live_backend \/ disarm_live_backend \/ update_settings
             \/ create_pilot_risk_policy
             \/ \E evidence \in BOOLEAN : evaluate_autonomous_pilot_window(evidence)
             \/ OpenWindowRecorded
             \/ \E w \in DOMAIN windows, clear \in BOOLEAN : close_post_pilot_review(w, clear)
             \/ \E j \in DOMAIN reviews : record_post_pilot_decision(j)
      PROVE  TickFits'
  BY <1>8, <1>9 DEF manual_sell, set_kill_switch, arm_live_backend, disarm_live_backend,
     update_settings, create_pilot_risk_policy, evaluate_autonomous_pilot_window,
     close_post_pilot_review, OpenWindowRecorded, record_post_pilot_decision
<1>10. CASE WindowExpires
  <2>1. windows' # <<>>
    <3>1. windows \in Seq(PilotWindow) /\ windows # <<>>
      BY <1>10 DEF WindowExpires, PilotTypeOK
    <3>2. Len(windows') = Len(windows) /\ Len(windows) # 0
      BY <1>10, <3>1 DEF WindowExpires
    <3> QED
      BY <3>2
  <2> QED
    BY <1>10, <2>1 DEF WindowExpires, TickFits
<1>11. CASE WorldTurns
  BY <1>11 DEF WorldTurns, TickFits
<1>12. ASSUME NEW a \in PilotAudits, recover_failed_audit(a) PROVE TickFits'
  BY <1>8, <1>12 DEF recover_failed_audit
<1> QED
  BY <1>4, <1>5, <1>6, <1>7, <1>9, <1>10, <1>11, <1>12 DEF PilotNext

-----------------------------------------------------------------------------
(* The ledger *)

\* What was booked stays booked, for the window and the policy of its quote.
LEMMA BookedStays ==
  ASSUME PilotTypeOK, TickFits, AuditsHold, PilotNext, NEW b \in PilotAudits,
         pilot_audits[b].matched
  PROVE  /\ pilot_audits'[b].matched
         /\ pilot_audits'[b].window = pilot_audits[b].window
         /\ pilot_audits'[b].policy = pilot_audits[b].policy
<1>1. AuditsMove
  BY AuditsMoved
<1>2. pilot_audits \in [PilotAudits -> PilotAudit] /\ pilot_audits[b] \in PilotAudit
  BY DEF PilotTypeOK
<1>3. pilot_audits[b].status # "none"
  BY DEF AuditsHold
<1>4. ASSUME NEW a \in PilotAudits, NEW s,
             pilot_audits' = [pilot_audits EXCEPT ![a].status = s]
      PROVE  /\ pilot_audits'[b].matched = pilot_audits[b].matched
             /\ pilot_audits'[b].window = pilot_audits[b].window
             /\ pilot_audits'[b].policy = pilot_audits[b].policy
  BY <1>2, <1>4 DEF PilotAudit
<1>5. ASSUME NEW a \in PilotAudits,
             pilot_audits' = [pilot_audits EXCEPT ![a] =
                [pilot_audits[a] EXCEPT !.status = "confirmed", !.matched = TRUE]]
      PROVE  /\ pilot_audits'[b].matched
             /\ pilot_audits'[b].window = pilot_audits[b].window
             /\ pilot_audits'[b].policy = pilot_audits[b].policy
  BY <1>2, <1>5 DEF PilotAudit
<1>6. ASSUME NEW a \in PilotAudits, NEW row, pilot_audits[a].status = "none",
             pilot_audits' = [pilot_audits EXCEPT ![a] = row]
      PROVE  pilot_audits'[b] = pilot_audits[b]
  BY <1>2, <1>3, <1>6
<1> QED
  BY <1>1, <1>4, <1>5, <1>6 DEF AuditsMove

\* A reconciliation counts an audit that is not counted yet, and no other step
\* writes the ledger (append_pilot_outcome).
LEMMA LedgerStep ==
  ASSUME PilotTypeOK, TickFits, AuditsHold, LedgerCountsOnce, PilotNext
  PROVE  LedgerCountsOnce'
<1> USE DEF settingsVars, bookVars, boundVars
<1>1. loss_ledger \in Seq(PilotOutcome)
  BY DEF PilotTypeOK
<1>2. \A i \in DOMAIN loss_ledger : loss_ledger[i].audit \in PilotAudits
  <2>1. \A i \in DOMAIN loss_ledger : loss_ledger[i] \in PilotOutcome
    BY <1>1
  <2> QED
    BY <2>1 DEF PilotOutcome
<1>3. ASSUME loss_ledger' = loss_ledger PROVE LedgerCountsOnce'
  BY <1>2, <1>3, BookedStays DEF LedgerCountsOnce
<1>4. ASSUME NEW metadata \in BOOLEAN, NEW pnl \in {0 - 1, 1}, append_pilot_outcome(metadata, pnl)
      PROVE  LedgerCountsOnce'
  <2> DEFINE a == tick.audit
  <2>1. CASE loss_ledger' = loss_ledger
    BY <1>3, <2>1
  <2>2. CASE loss_ledger' # loss_ledger
    <3> DEFINE entry == [audit |-> a, window |-> pilot_audits[a].window,
                         policy |-> pilot_audits[a].policy, pnl |-> pnl, day |-> today]
    <3>1. /\ loss_ledger' = Append(loss_ledger, entry)
          /\ \A i \in DOMAIN loss_ledger : loss_ledger[i].audit # a
      BY <1>4, <2>2 DEF append_pilot_outcome, AlreadyCounted, Counted
    <3>2. a \in PilotAudits /\ pilot_audits[a].matched
      BY <1>4, TickTyped DEF append_pilot_outcome, TickFits
    <3>3. /\ pilot_audits'[a].matched
          /\ pilot_audits'[a].window = entry.window
          /\ pilot_audits'[a].policy = entry.policy
      BY <3>2, BookedStays
    <3>4. entry.audit = a
      OBVIOUS
    <3> HIDE DEF entry
    <3>5. /\ DOMAIN loss_ledger' = DOMAIN loss_ledger \cup {Len(loss_ledger) + 1}
          /\ Len(loss_ledger) + 1 \notin DOMAIN loss_ledger
          /\ loss_ledger'[Len(loss_ledger) + 1] = entry
          /\ \A i \in DOMAIN loss_ledger : loss_ledger'[i] = loss_ledger[i]
      BY <1>1, <3>1
    <3>6. \A i, j \in DOMAIN loss_ledger' : loss_ledger'[i].audit = loss_ledger'[j].audit => i = j
      BY <3>1, <3>4, <3>5 DEF LedgerCountsOnce
    <3>7. ASSUME NEW i \in DOMAIN loss_ledger
          PROVE  LET row == pilot_audits'[loss_ledger'[i].audit]
                 IN  row.matched /\ row.window = loss_ledger'[i].window
                        /\ row.policy = loss_ledger'[i].policy
      <4>1. loss_ledger[i].audit \in PilotAudits /\ pilot_audits[loss_ledger[i].audit].matched
        BY <1>2 DEF LedgerCountsOnce
      <4> QED
        BY <3>5, <4>1, BookedStays DEF LedgerCountsOnce
    <3> QED
      BY <3>3, <3>4, <3>5, <3>6, <3>7 DEF LedgerCountsOnce
  <2> QED
    BY <2>1, <2>2
<1>5. ASSUME \/ run_live_autonomy \/ live_submit \/ tick_stopped \/ tick_gives_up
             \/ \E a \in PilotAudits : \/ \E action \in {"buy", "sell"} :
                                             quote_live_intent(a, action)
                                       \/ reconcile_live_audit(a) \/ recover_failed_audit(a)
             \/ manual_sell
             \/ \E on \in BOOLEAN : set_kill_switch(on)
             \/ arm_live_backend \/ disarm_live_backend \/ update_settings
             \/ create_pilot_risk_policy
             \/ \E evidence \in BOOLEAN : evaluate_autonomous_pilot_window(evidence)
             \/ OpenWindowRecorded
             \/ \E w \in DOMAIN windows, clear \in BOOLEAN : close_post_pilot_review(w, clear)
             \/ \E j \in DOMAIN reviews : record_post_pilot_decision(j)
             \/ WindowExpires \/ WorldTurns \/ PilotRestart
      PROVE  loss_ledger' = loss_ledger
  BY <1>5 DEF run_live_autonomy, live_submit, tick_stopped, tick_gives_up, quote_live_intent,
     reconcile_live_audit, recover_failed_audit, manual_sell, set_kill_switch, arm_live_backend, disarm_live_backend,
     update_settings, create_pilot_risk_policy, evaluate_autonomous_pilot_window,
     close_post_pilot_review, OpenWindowRecorded, record_post_pilot_decision, WindowExpires,
     WorldTurns, PilotRestart, stop_autonomous_pilot_window
<1> QED
  BY <1>3, <1>4, <1>5 DEF PilotNext

-----------------------------------------------------------------------------
(* Windows and reviews *)

\* Reviews and windows after a step that changes neither's number: a window keeps
\* its status or is closed, a review keeps what it says.
LEMMA WindowsKept ==
  ASSUME PilotTypeOK, NextPilotReviewed, windows # <<>>,
         Len(windows') = Len(windows), DOMAIN windows' = DOMAIN windows,
         \A i \in DOMAIN windows : \/ windows'[i].status = windows[i].status
                                   \/ windows'[i].status = "CLOSED",
         DOMAIN reviews' = DOMAIN reviews,
         \A j \in DOMAIN reviews :
            /\ reviews'[j].window = reviews[j].window /\ reviews'[j].clear = reviews[j].clear
            /\ reviews[j].decided => reviews'[j].decided
  PROVE  NextPilotReviewed'
<1>1. DOMAIN windows = 1..Len(windows)
  BY LatestTyped
<1>3. ASSUME NEW i \in DOMAIN windows', windows'[i].status = "ELIGIBLE_DEFERRED", i > 1
      PROVE  \E j \in DOMAIN reviews' :
                   reviews'[j].window = i - 1 /\ reviews'[j].clear /\ reviews'[j].decided
  <2>1. windows[i].status = "ELIGIBLE_DEFERRED" /\ i - 1 \in DOMAIN windows
    BY <1>1, <1>3, LatestTyped
  <2>2. \E j \in DOMAIN reviews :
              reviews[j].window = i - 1 /\ reviews[j].clear /\ reviews[j].decided
    BY <1>3, <2>1 DEF NextPilotReviewed
  <2> QED
    BY <2>1, <2>2
<1> QED
  BY <1>3 DEF NextPilotReviewed

\* Windows after a new one: an eligible one comes behind a clear, decided review
\* of the one before (evaluate_autonomous_pilot_window).
LEMMA WindowAdded ==
  ASSUME PilotTypeOK, NextPilotReviewed, NEW w \in PilotWindow,
         windows' = Append(windows, w), reviews' = reviews,
         w.status = "ELIGIBLE_DEFERRED" => ReviewedLast
  PROVE  NextPilotReviewed'
<1>1. windows \in Seq(PilotWindow) /\ reviews \in Seq(PilotReview)
  BY DEF PilotTypeOK
<1> DEFINE n == Len(windows)
<1>2. /\ n \in Nat /\ DOMAIN windows = 1..n
      /\ Len(windows') = n + 1 /\ DOMAIN windows' = 1..(n + 1)
      /\ windows'[n + 1] = w
      /\ \A i \in 1..n : windows'[i] = windows[i]
  BY <1>1
<1>4. ASSUME w.status = "ELIGIBLE_DEFERRED", n > 0
      PROVE  \E j \in DOMAIN reviews :
                   reviews[j].window = n /\ reviews[j].clear /\ reviews[j].decided
  <2>1. windows # <<>>
    BY <1>1, <1>4
  <2>2. /\ reviews # <<>>
        /\ reviews[Len(reviews)].window = n
        /\ reviews[Len(reviews)].clear /\ reviews[Len(reviews)].decided
    BY <1>4, <2>1 DEF ReviewedLast
  <2>3. Len(reviews) \in DOMAIN reviews
    BY <1>1, <2>2
  <2> QED
    BY <2>2, <2>3
<1>5. ASSUME NEW i \in DOMAIN windows', windows'[i].status = "ELIGIBLE_DEFERRED", i > 1
      PROVE  \E j \in DOMAIN reviews' :
                   reviews'[j].window = i - 1 /\ reviews'[j].clear /\ reviews'[j].decided
  <2>1. i - 1 \in 1..n /\ windows'[i - 1] = windows[i - 1]
    BY <1>2, <1>5
  <2>2. CASE i = n + 1
    <3>1. i - 1 = n /\ n > 0
      BY <1>2, <2>1, <2>2
    <3> QED
      BY <1>2, <1>4, <1>5, <2>1, <2>2, <3>1
  <2>3. CASE i # n + 1
    <3>1. i \in DOMAIN windows /\ windows[i].status = "ELIGIBLE_DEFERRED"
      BY <1>2, <1>5, <2>3
    <3> QED
      BY <1>5, <2>1, <3>1 DEF NextPilotReviewed
  <2> QED
    BY <2>2, <2>3
<1> QED
  BY <1>5 DEF NextPilotReviewed

\* A window is eligible only behind a clear, decided review of the one before, and
\* no review is forgotten or taken back (close_post_pilot_review).
LEMMA ReviewsStep ==
  ASSUME PilotTypeOK, TickFits, NextPilotReviewed, PilotNext
  PROVE  NextPilotReviewed'
<1> USE DEF settingsVars, bookVars, boundVars
<1>1. windows \in Seq(PilotWindow) /\ reviews \in Seq(PilotReview)
  BY DEF PilotTypeOK
<1>2. ASSUME windows' = windows, reviews' = reviews PROVE NextPilotReviewed'
  BY <1>2 DEF NextPilotReviewed
<1>3. ASSUME windows # <<>>, stop_autonomous_pilot_window
      PROVE  NextPilotReviewed'
  <2>1. reviews' = reviews
    BY <1>3 DEF stop_autonomous_pilot_window
  <2>2. \A i \in DOMAIN windows : \/ windows'[i].status = windows[i].status
                                  \/ windows'[i].status = "CLOSED"
    BY <1>3, StopWrites
  <2> QED
    BY <1>3, <2>1, <2>2, StopWrites, WindowsKept
<1>4. CASE run_live_autonomy
  BY <1>2, <1>3, <1>4 DEF run_live_autonomy, LatestIsOpen
<1>5. CASE tick_stopped
  BY <1>3, <1>5 DEF tick_stopped, TickFits
<1>6. ASSUME NEW s \in {"BLOCKED", "ELIGIBLE_DEFERRED", "OPEN", "CLOSED"},
             NEW p \in 0..Len(policies)
      PROVE  /\ [status |-> s, policy |-> p, fresh |-> TRUE] \in PilotWindow
             /\ [status |-> s, policy |-> p, fresh |-> TRUE].status = s
  <2>1. policies \in Seq(0..MaxVersions) /\ Len(policies) <= MaxPolicies
    BY DEF PilotTypeOK
  <2>2. p \in 0..MaxPolicies
    BY <2>1, PilotConstants
  <2> QED
    BY <2>2 DEF PilotWindow
<1>7. ASSUME NEW evidence \in BOOLEAN, evaluate_autonomous_pilot_window(evidence)
      PROVE  NextPilotReviewed'
  <2>1. PICK p \in 0..Len(policies), s \in {"BLOCKED", "ELIGIBLE_DEFERRED"} :
          /\ windows' = Append(windows, [status |-> s, policy |-> p, fresh |-> TRUE])
          /\ s = "ELIGIBLE_DEFERRED" => ReviewedLast
    BY <1>7, WindowEvaluated
  <2>2. PICK w : w = [status |-> s, policy |-> p, fresh |-> TRUE]
    OBVIOUS
  <2>3. w \in PilotWindow /\ w.status = s
    BY <1>6, <2>2
  <2>4. windows' = Append(windows, w) /\ reviews' = reviews
    BY <1>7, <2>1, <2>2 DEF evaluate_autonomous_pilot_window
  <2> QED
    BY <2>1, <2>3, <2>4, WindowAdded
<1>8. CASE OpenWindowRecorded
  <2> DEFINE w == [status |-> "OPEN", policy |-> Len(policies), fresh |-> TRUE]
  <2>1. windows' = Append(windows, w) /\ reviews' = reviews /\ policies # <<>>
    BY <1>8 DEF OpenWindowRecorded
  <2>2. w \in PilotWindow /\ w.status = "OPEN"
    <3>1. policies \in Seq(0..MaxVersions)
      BY DEF PilotTypeOK
    <3>2. Len(policies) \in 0..Len(policies)
      BY <3>1
    <3> QED
      BY <1>6, <3>2
  <2> HIDE DEF w
  <2> QED
    BY <2>1, <2>2, WindowAdded
<1>9. ASSUME NEW v \in DOMAIN windows, NEW clear \in BOOLEAN, close_post_pilot_review(v, clear)
      PROVE  NextPilotReviewed'
  <2>1. PICK r \in PilotReview : windows' = windows /\ reviews' = Append(reviews, r)
    <3>1. v \in 1..MaxWindows
      BY <1>1, PilotConstants DEF PilotTypeOK
    <3>2. [window |-> v, clear |-> clear, decided |-> FALSE] \in PilotReview
      BY <3>1 DEF PilotReview
    <3> QED
      BY <1>9, <3>2 DEF close_post_pilot_review
  <2>2. /\ DOMAIN reviews \subseteq DOMAIN reviews'
        /\ \A j \in DOMAIN reviews : reviews'[j] = reviews[j]
    BY <1>1, <2>1
  <2> QED
    BY <2>1, <2>2 DEF NextPilotReviewed
<1>10. ASSUME NEW k \in DOMAIN reviews, record_post_pilot_decision(k) PROVE NextPilotReviewed'
  <2>1. /\ windows' = windows
        /\ reviews' = [reviews EXCEPT ![k].decided = TRUE]
    BY <1>10 DEF record_post_pilot_decision
  <2>2. \A j \in DOMAIN reviews : reviews[j] \in PilotReview
    BY <1>1
  <2>3. DOMAIN reviews' = DOMAIN reviews
    BY <1>1, <2>1
  <2>4. \A j \in DOMAIN reviews :
           /\ reviews'[j].window = reviews[j].window /\ reviews'[j].clear = reviews[j].clear
           /\ reviews[j].decided => reviews'[j].decided
    BY <2>1, <2>2 DEF PilotReview
  <2> QED
    BY <2>1, <2>3, <2>4 DEF NextPilotReviewed
<1>11. CASE WindowExpires
  <2> DEFINE w == [windows[Len(windows)] EXCEPT !.fresh = FALSE]
  <2>1. windows # <<>> /\ reviews' = reviews /\ windows' = [windows EXCEPT ![Len(windows)] = w]
    BY <1>11 DEF WindowExpires
  <2>2. windows[Len(windows)] \in PilotWindow
    BY <2>1, LatestTyped
  <2>3. w \in PilotWindow /\ w.status = windows[Len(windows)].status
    BY <2>2 DEF PilotWindow
  <2> HIDE DEF w
  <2>4. /\ Len(windows') = Len(windows) /\ DOMAIN windows' = DOMAIN windows
        /\ \A i \in DOMAIN windows : windows'[i].status = windows[i].status
    BY <2>1, <2>3, WindowChanged
  <2> QED
    BY <2>1, <2>4, WindowsKept
<1>12. ASSUME \/ live_submit \/ tick_gives_up
              \/ \E a \in PilotAudits : \/ \E action \in {"buy", "sell"} :
                                              quote_live_intent(a, action)
                                        \/ reconcile_live_audit(a) \/ recover_failed_audit(a)
              \/ \E metadata \in BOOLEAN, pnl \in {0 - 1, 1} : append_pilot_outcome(metadata, pnl)
              \/ manual_sell
              \/ \E on \in BOOLEAN : set_kill_switch(on)
              \/ arm_live_backend \/ disarm_live_backend \/ update_settings
              \/ create_pilot_risk_policy
              \/ WorldTurns \/ PilotRestart
       PROVE  windows' = windows /\ reviews' = reviews
  BY <1>12 DEF live_submit, tick_gives_up, quote_live_intent, reconcile_live_audit,
     recover_failed_audit,
     append_pilot_outcome, manual_sell, set_kill_switch, arm_live_backend, disarm_live_backend,
     update_settings, create_pilot_risk_policy, WorldTurns, PilotRestart
<1> QED
  BY <1>2, <1>4, <1>5, <1>7, <1>8, <1>9, <1>10, <1>11, <1>12 DEF PilotNext

-----------------------------------------------------------------------------
(* The stop *)

\* Row and memory agree on the switches, and behind a closed window they stay as
\* the stop left them until the operator arms or lifts (stop_autonomous_pilot_window).
LEMMA StopStep ==
  ASSUME PilotTypeOK, TickFits, SwitchesAreSaved, StopHolds, PilotNext
  PROVE  SwitchesAreSaved' /\ StopHolds'
<1> USE DEF settingsVars, bookVars, boundVars
<1>1. ASSUME stop_autonomous_pilot_window PROVE SwitchesAreSaved' /\ StopHolds'
  BY <1>1 DEF stop_autonomous_pilot_window, SwitchesAreSaved, StopHolds
<1>2. ASSUME windows' = windows, rearmed' = rearmed, pilot_settings' = pilot_settings,
             pilot_settings_row' = pilot_settings_row
      PROVE  SwitchesAreSaved' /\ StopHolds'
  BY <1>2 DEF SwitchesAreSaved, StopHolds, LatestWindow
<1>3. CASE run_live_autonomy
  BY <1>1, <1>2, <1>3 DEF run_live_autonomy
<1>4. CASE tick_stopped
  BY <1>1, <1>4 DEF tick_stopped
<1>5. pilot_settings \in Switches
  BY DEF PilotTypeOK
<1>6. ASSUME NEW on \in BOOLEAN, set_kill_switch(on) PROVE SwitchesAreSaved' /\ StopHolds'
  BY <1>5, <1>6
     DEF set_kill_switch, Saved, SwitchesAreSaved, StopHolds, Stopped, LatestWindow, Switches
<1>7. CASE arm_live_backend
  BY <1>7 DEF arm_live_backend, Saved, SwitchesAreSaved, StopHolds
<1>8. CASE disarm_live_backend
  BY <1>8 DEF disarm_live_backend, Saved, SwitchesAreSaved, StopHolds, Stopped, LatestWindow
<1>9. ASSUME NEW w \in PilotWindow, windows' = Append(windows, w), w.status # "CLOSED",
             pilot_settings' = pilot_settings, pilot_settings_row' = pilot_settings_row
      PROVE  SwitchesAreSaved' /\ StopHolds'
  <2>1. windows \in Seq(PilotWindow)
    BY DEF PilotTypeOK
  <2>2. windows'[Len(windows')] = w
    BY <1>9, <2>1
  <2> QED
    BY <1>9, <2>2 DEF SwitchesAreSaved, StopHolds, LatestWindow
<1>10. ASSUME NEW s \in {"BLOCKED", "ELIGIBLE_DEFERRED", "OPEN"}, NEW p \in 0..Len(policies)
       PROVE  /\ [status |-> s, policy |-> p, fresh |-> TRUE] \in PilotWindow
              /\ [status |-> s, policy |-> p, fresh |-> TRUE].status # "CLOSED"
  <2>1. policies \in Seq(0..MaxVersions) /\ Len(policies) <= MaxPolicies
    BY DEF PilotTypeOK
  <2>2. p \in 0..MaxPolicies
    BY <2>1, PilotConstants
  <2> QED
    BY <2>2 DEF PilotWindow
<1>11. ASSUME NEW evidence \in BOOLEAN, evaluate_autonomous_pilot_window(evidence)
       PROVE  SwitchesAreSaved' /\ StopHolds'
  <2>1. PICK p \in 0..Len(policies), s \in {"BLOCKED", "ELIGIBLE_DEFERRED"} :
          windows' = Append(windows, [status |-> s, policy |-> p, fresh |-> TRUE])
    BY <1>11, WindowEvaluated
  <2> QED
    BY <1>9, <1>10, <1>11, <2>1 DEF evaluate_autonomous_pilot_window
<1>12. CASE OpenWindowRecorded
  <2>1. Len(policies) \in 0..Len(policies)
    BY DEF PilotTypeOK
  <2> QED
    BY <1>9, <1>10, <1>12, <2>1 DEF OpenWindowRecorded
<1>13. CASE WindowExpires
  <2> DEFINE w == [windows[Len(windows)] EXCEPT !.fresh = FALSE]
  <2>1. windows # <<>> /\ windows' = [windows EXCEPT ![Len(windows)] = w]
    BY <1>13 DEF WindowExpires
  <2>2. windows[Len(windows)] \in PilotWindow
    BY <2>1, LatestTyped
  <2>3. w \in PilotWindow /\ w.status = windows[Len(windows)].status
    BY <2>2 DEF PilotWindow
  <2> HIDE DEF w
  <2>4. windows'[Len(windows')].status = windows[Len(windows)].status
    BY <2>1, <2>3, WindowChanged
  <2> QED
    BY <1>13, <2>1, <2>4 DEF WindowExpires, SwitchesAreSaved, StopHolds, LatestWindow
<1>14. CASE PilotRestart
  BY <1>14 DEF PilotRestart, SwitchesAreSaved, StopHolds, LatestWindow
<1>15. ASSUME \/ live_submit \/ tick_gives_up
              \/ \E a \in PilotAudits : \/ \E action \in {"buy", "sell"} :
                                              quote_live_intent(a, action)
                                        \/ reconcile_live_audit(a) \/ recover_failed_audit(a)
              \/ \E metadata \in BOOLEAN, pnl \in {0 - 1, 1} : append_pilot_outcome(metadata, pnl)
              \/ manual_sell \/ update_settings \/ create_pilot_risk_policy
              \/ \E w \in DOMAIN windows, clear \in BOOLEAN : close_post_pilot_review(w, clear)
              \/ \E j \in DOMAIN reviews : record_post_pilot_decision(j)
              \/ WorldTurns
       PROVE  SwitchesAreSaved' /\ StopHolds'
  BY <1>2, <1>15 DEF live_submit, tick_gives_up, quote_live_intent, reconcile_live_audit,
     recover_failed_audit,
     append_pilot_outcome, manual_sell, update_settings, create_pilot_risk_policy,
     close_post_pilot_review, record_post_pilot_decision, WorldTurns
<1> QED
  BY <1>3, <1>4, <1>6, <1>7, <1>8, <1>11, <1>12, <1>13, <1>14, <1>15 DEF PilotNext

\* Only the tick submits an audit that is ready, after it has asked the guard and
\* the policy again (live_submit, _pilot_runtime_blockers).
LEMMA SentByTick ==
  ASSUME PilotTypeOK, TickFits, PilotNext, NEW a \in PilotAudits,
         pilot_audits'[a].status \in {"submitting", "submitted"}, pilot_audits[a].status = "ready"
  PROVE  /\ LatestIsOpen /\ LatestWindow.fresh
         /\ pilot_audits[a].window = Len(windows)
         /\ pilot_audits[a].policy = Len(policies)
         /\ ~LossStopped(pilot_audits[a].policy)
<1> USE DEF settingsVars, bookVars, boundVars, stop_autonomous_pilot_window
<1>1. pilot_audits \in [PilotAudits -> PilotAudit]
  BY DEF PilotTypeOK
<1>2. CASE live_submit
  <2>1. PICK s \in {"submitting", "submitted"} :
           pilot_audits' = [pilot_audits EXCEPT ![tick.audit].status = s]
    BY <1>2 DEF live_submit
  <2>2. tick.audit = a
    BY <1>1, <2>1
  <2>3. Submittable(a)
    BY <1>2, <2>2 DEF live_submit
  <2> QED
    BY <2>3 DEF Submittable, PilotMayRun
<1>3. ASSUME NEW b \in PilotAudits, NEW action \in {"buy", "sell"}, quote_live_intent(b, action)
      PROVE  FALSE
  BY <1>1, <1>3 DEF quote_live_intent
<1>4. ASSUME NEW b \in PilotAudits, reconcile_live_audit(b) PROVE FALSE
  <2>1. pilot_audits' = [pilot_audits EXCEPT ![b] =
           [pilot_audits[b] EXCEPT !.status = "confirmed", !.matched = TRUE]]
    BY <1>4 DEF reconcile_live_audit
  <2> QED
    BY <1>1, <2>1 DEF PilotAudit
<1>5. ASSUME NEW metadata \in BOOLEAN, NEW pnl \in {0 - 1, 1}, append_pilot_outcome(metadata, pnl)
      PROVE  FALSE
  <2>1. \/ pilot_audits' = pilot_audits
        \/ pilot_audits' = [pilot_audits EXCEPT ![tick.audit].status = "reconciled"]
    BY <1>5 DEF append_pilot_outcome
  <2>2. pilot_audits[a] \in PilotAudit
    BY <1>1
  <2> QED
    BY <1>1, <2>1, <2>2 DEF PilotAudit
<1>7. ASSUME NEW b \in PilotAudits, recover_failed_audit(b) PROVE FALSE
  BY <1>1, <1>7 DEF recover_failed_audit
<1>6. ASSUME \/ run_live_autonomy \/ tick_stopped \/ tick_gives_up \/ manual_sell
             \/ \E on \in BOOLEAN : set_kill_switch(on)
             \/ arm_live_backend \/ disarm_live_backend \/ update_settings
             \/ create_pilot_risk_policy
             \/ \E evidence \in BOOLEAN : evaluate_autonomous_pilot_window(evidence)
             \/ OpenWindowRecorded
             \/ \E w \in DOMAIN windows, clear \in BOOLEAN : close_post_pilot_review(w, clear)
             \/ \E j \in DOMAIN reviews : record_post_pilot_decision(j)
             \/ WindowExpires \/ WorldTurns \/ PilotRestart
      PROVE  pilot_audits' = pilot_audits
  BY <1>6 DEF run_live_autonomy, tick_stopped, tick_gives_up, manual_sell, set_kill_switch,
     arm_live_backend, disarm_live_backend, update_settings, create_pilot_risk_policy,
     evaluate_autonomous_pilot_window, close_post_pilot_review, OpenWindowRecorded,
     record_post_pilot_decision, WindowExpires, WorldTurns, PilotRestart
<1> QED
  BY <1>2, <1>3, <1>4, <1>5, <1>6, <1>7 DEF PilotNext

-----------------------------------------------------------------------------
(* The theorems.                                                           *)

\* The invariant holds at the start: no policy, no window, nothing traded.
LEMMA InitInv == PilotInit => PilotInv
<1> SUFFICES ASSUME PilotInit PROVE PilotInv
  OBVIOUS
<1> USE PilotConstants DEF PilotInit
<1>1. PilotTypeOK
  <2>1. pilot_settings \in Switches /\ NoTick \in Tick /\ NoTick.step = "idle"
        /\ NoTick.audit = "none"
    BY DEF Switches, Tick, NoTick
  <2>2. NoAudit \in PilotAudit
    BY DEF NoAudit, PilotAudit
  <2>3. pilot_audits \in [PilotAudits -> PilotAudit]
    BY <2>2
  <2>4. /\ policies \in Seq(0..MaxVersions) /\ Len(policies) = 0
        /\ windows \in Seq(PilotWindow) /\ Len(windows) = 0
        /\ reviews \in Seq(PilotReview) /\ loss_ledger \in Seq(PilotOutcome)
    OBVIOUS
  <2>5. /\ {pilot_settings, pilot_settings_row, versioned} \subseteq Switches
        /\ {world_ok, rearmed} \subseteq BOOLEAN
    BY <2>1
  <2>6. /\ settings_version \in 0..MaxVersions /\ reversals \in 0..MaxReversals
        /\ pilot_restarts \in 0..MaxPilotRestarts
        /\ Len(policies) <= MaxPolicies /\ Len(windows) <= MaxWindows
    BY <2>4
  <2>7. /\ live_session \in BOOLEAN /\ (live_session => pilot_settings.armed)
        /\ position \in BOOLEAN
        /\ tick \in Tick /\ (tick.step \in {"idle", "ranked"} <=> tick.audit = "none")
    BY <2>1
  <2> QED
    BY <2>3, <2>4, <2>5, <2>6, <2>7 DEF PilotTypeOK
<1>2. TickFits
  BY DEF TickFits, NoTick
<1>3. AuditsHold /\ OnePosition
  BY DEF AuditsHold, OnePosition, Bought, NoAudit
<1>4. LedgerCountsOnce /\ NextPilotReviewed
  BY DEF LedgerCountsOnce, NextPilotReviewed
<1>5. SwitchesAreSaved /\ StopHolds
  BY DEF SwitchesAreSaved, StopHolds
<1> QED
  BY <1>1, <1>2, <1>3, <1>4, <1>5 DEF PilotInv

\* Every step of the pilot, the operator, the world or a restart keeps it.
LEMMA StepInv == PilotInv /\ [PilotNext]_pilotVars => PilotInv'
<1> SUFFICES ASSUME PilotInv, [PilotNext]_pilotVars PROVE PilotInv'
  OBVIOUS
<1>1. CASE PilotNext
  BY <1>1, TypeStep, TickStep, AuditsStep, PositionStep, LedgerStep, ReviewsStep, StopStep
     DEF PilotInv
<1>2. CASE UNCHANGED pilotVars
  <2> USE <1>2 DEF pilotVars, PilotInv
  <2>1. PilotTypeOK' /\ TickFits' /\ AuditsHold' /\ OnePosition'
    BY DEF PilotTypeOK, TickFits, AuditsHold, OnePosition, Bought
  <2>2. LedgerCountsOnce' /\ NextPilotReviewed'
    BY DEF LedgerCountsOnce, NextPilotReviewed
  <2>3. SwitchesAreSaved' /\ StopHolds'
    BY DEF SwitchesAreSaved, StopHolds, LatestWindow
  <2> QED
    BY <2>1, <2>2, <2>3
<1> QED
  BY <1>1, <1>2

\* The invariant holds always.
LEMMA Invariance == PilotSpec => []PilotInv
BY InitInv, StepInv, PTL DEF PilotSpec

\* One position, counted.
LEMMA OnePositionCounted ==
  ASSUME PilotTypeOK, OnePosition
  PROVE  OnePilotPosition
<1> DEFINE bought == {a \in PilotAudits : /\ pilot_audits[a].action = "buy"
                                          /\ pilot_audits[a].status \in {"submitting", "submitted"}}
<1>1. position \in BOOLEAN
  BY DEF PilotTypeOK
<1>2. CASE bought = {}
  <2>1. Cardinality(bought) = 0
    BY <1>2, FS_EmptySet
  <2> HIDE DEF bought
  <2>2. Cardinality(bought) + (IF position THEN 1 ELSE 0) <= 1
    BY <1>1, <2>1
  <2> QED
    BY <2>2 DEF OnePilotPosition, bought
<1>3. CASE bought # {}
  <2>1. PICK a \in PilotAudits : a \in bought
    BY <1>3
  <2>2. bought = {a} /\ ~position
    BY <2>1 DEF OnePosition, Bought
  <2>3. Cardinality(bought) = 1
    BY <2>2, FS_Singleton
  <2> HIDE DEF bought
  <2>4. Cardinality(bought) + (IF position THEN 1 ELSE 0) <= 1
    BY <2>2, <2>3
  <2> QED
    BY <2>4 DEF OnePilotPosition, bought
<1> QED
  BY <1>2, <1>3

\* The pilot is accountable for any audits, windows, policies and restarts: one
\* position at most, each closed trade counted once for its window and policy, and
\* no window eligible before the one before was reviewed clear and decided
\* upon (evaluate_entry, append_pilot_outcome, evaluate_autonomous_pilot_window).
THEOREM PilotIsAccountableAlways == PilotSpec => []PilotIsAccountable
<1>1. PilotInv => PilotIsAccountable
  BY OnePositionCounted DEF PilotInv, PilotIsAccountable
<1> QED
  BY <1>1, Invariance, PTL

\* A stopped pilot stays stopped across restarts until the operator arms or lifts,
\* and the tick sends nothing past a stop: not out of its window or policy, and not
\* once a loss stop is reached (stop_autonomous_pilot_window, live_submit).
THEOREM PilotStopsAlways == PilotSpec => PilotStops
<1>1. PilotInv => StopHolds
  BY DEF PilotInv
<1> DEFINE Guarded == \A a \in PilotAudits :
          pilot_audits'[a].status \in {"submitting", "submitted"} /\ pilot_audits[a].status = "ready" =>
             /\ LatestIsOpen /\ LatestWindow.fresh
             /\ pilot_audits[a].window = Len(windows)
             /\ pilot_audits[a].policy = Len(policies)
             /\ ~LossStopped(pilot_audits[a].policy)
<1>2. PilotInv /\ [PilotNext]_pilotVars => [Guarded]_pilotVars
  BY SentByTick DEF PilotInv
<1>3. PilotSpec => []StopHolds
  BY <1>1, Invariance, PTL
<1>4. PilotSpec => [][Guarded]_pilotVars
  BY <1>2, Invariance, PTL DEF PilotSpec
<1>5. [][Guarded]_pilotVars => NoSendPastStop
  BY DEF NoSendPastStop
<1> QED
  BY <1>3, <1>4, <1>5 DEF PilotStops

\* Every variable of the pilot keeps its type.
THEOREM PilotTypeCorrect == PilotSpec => []PilotTypeOK
<1>1. PilotInv => PilotTypeOK
  BY DEF PilotInv
<1> QED
  BY <1>1, Invariance, PTL
=============================================================================
