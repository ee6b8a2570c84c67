--------------------------- MODULE StrategySelection ---------------------------
(***************************************************************************)
(* Which strategy is selected, what the sentinel says of it, and which     *)
(* work is shed under pressure (core/strategy_candidates.py,               *)
(* core/sentinel.py, core/workload_governor.py and their callers in        *)
(* core/state.py and core/storage.py).                                     *)
(*                                                                         *)
(* The strategy version observed is the settings version; a candidate      *)
(* proposes a version of its own.  Nothing in the application records a    *)
(* validation: save_candidate_validation is called from outside.  Evidence *)
(* is what the thresholds make of it: too little, against, or for.         *)
(***************************************************************************)
EXTENDS Naturals, Sequences, FiniteSets, SequencesExt

CONSTANTS
    StrategyCandidates,
    Intents,                   \* operator_intent_id
    Trials,                    \* results CandidateValidator.compare is given
    FailureWindows,            \* consecutive_failures
    RecoveryWindows,           \* recovery_windows
    MaxSettings, MaxRestarts   \* bounds

ASSUME SelectionAssumption ==
    /\ {FailureWindows, RecoveryWindows, MaxSettings} \subseteq Nat \ {0}
    /\ MaxRestarts \in Nat
    /\ "none" \notin StrategyCandidates

VARIABLES
    proposals,                 \* strategy_candidates
    validations,               \* candidate_validations of each, oldest first
    promotions,                \* strategy_promotions and their campaigns
    selection,                 \* active_strategy_selection
    backend_armed,             \* settings.live_active_backend_armed
    active_session,            \* active_live_session_id is set
    session_lost,              \* history: a restart forgot the armed session
    settings_versions,         \* the armed flag each of them captured
    source_evidence,           \* accepted observations of the present version
    campaign,                  \* shadow comparisons of each version
    evidence_is_recent,
    verdict,                   \* the latest row of sentinel_verdicts
    governor,                  \* WorkloadGovernor
    windows_seen,              \* history: were the last readings pressured
    selection_restarts

choiceVars == <<proposals, validations, promotions, selection>>
sessionVars == <<backend_armed, active_session, session_lost, settings_versions, selection_restarts>>
evidenceVars == <<source_evidence, campaign, evidence_is_recent>>
pressureVars == <<governor, windows_seen>>
selectionVars == <<choiceVars, sessionVars, evidenceVars, verdict, pressureVars>>

SettingsVersions == 1..MaxSettings
Phases == {"replay", "walk_forward", "shadow", "incumbent"}
NoSelection == [candidate |-> "none"]
NoVerdict == [status |-> "none"]
Longest == IF FailureWindows > RecoveryWindows THEN FailureWindows ELSE RecoveryWindows

SelectionTypeOK ==
    /\ proposals \subseteq StrategyCandidates
    /\ validations \in [StrategyCandidates -> Seq(Trials)]
    /\ \A c \in StrategyCandidates : IsInjective(validations[c])
    /\ promotions \subseteq StrategyCandidates \X Intents
    /\ selection = NoSelection \/ <<selection.candidate, selection.intent>> \in promotions
    /\ {backend_armed, active_session, session_lost, evidence_is_recent} \subseteq BOOLEAN
    /\ backend_armed => active_session \/ session_lost
    /\ settings_versions \in Seq(BOOLEAN) /\ Len(settings_versions) \in SettingsVersions
    /\ source_evidence \in {"none", "blocked", "ready"}
    /\ campaign \in [SettingsVersions -> {"none", "few", "losing", "proven"}]
    /\ verdict = NoVerdict \/ verdict \in [status: {"insufficient_evidence", "unfavorable", "observe_only",
                                                    "pilot_eligible"},
                                           proposed: StrategyCandidates \cup {"none"},
                                           settings: 0..MaxSettings, expired: BOOLEAN]
    /\ governor \in [failures: 0..FailureWindows, recoveries: 0..RecoveryWindows - 1, shed: BOOLEAN]
    /\ windows_seen \in Seq(BOOLEAN) /\ Len(windows_seen) <= Longest
    /\ selection_restarts \in 0..MaxRestarts

SelectionInit ==
    /\ proposals = {} /\ promotions = {} /\ selection = NoSelection
    /\ validations = [c \in StrategyCandidates |-> <<>>]
    /\ backend_armed = FALSE /\ active_session = FALSE /\ session_lost = FALSE
    /\ settings_versions = <<FALSE>>
    /\ source_evidence = "none"
    /\ campaign = [v \in SettingsVersions |-> "none"]
    /\ evidence_is_recent = FALSE
    /\ verdict = NoVerdict
    /\ governor = [failures |-> 0, recoveries |-> 0, shed |-> FALSE]
    /\ windows_seen = <<>>
    /\ selection_restarts = 0

-----------------------------------------------------------------------------
(* Candidates *)

\* A candidate is its content: proposing it again meets the row with another
\* created_at and raises.
propose_strategy_candidate(c) ==
    /\ c \notin proposals
    /\ proposals' = proposals \cup {c}
    /\ UNCHANGED <<validations, promotions, selection, sessionVars, evidenceVars, verdict, pressureVars>>

\* The phases a trial fails: each of the ten comparisons belongs to one.
Blockers(trial) == {phase \in Phases : ~trial[phase]}
Accepted(trial) == Blockers(trial) = {}

\* A validation is its content too: the one that was ever recorded cannot be
\* recorded again, after another of the candidate's included.
save_candidate_validation(c, trial) ==
    /\ c \in proposals
    /\ trial \notin ToSet(validations[c])
    /\ validations' = [validations EXCEPT ![c] = Append(@, trial)]
    /\ UNCHANGED <<proposals, promotions, selection, sessionVars, evidenceVars, verdict, pressureVars>>

LatestAccepted(c) == validations[c] # <<>> /\ Accepted(Last(validations[c]))

\* Mutant: only a repetition of what is selected now is recognised.
SelectedAlready(c, intent) == selection # NoSelection /\ selection.candidate = c /\ selection.intent = intent

\* promotion_id is the hash of candidate and intent.  An existing row ends the
\* transaction, whatever is selected by now; selected_at makes the answer
\* "stale_promotion".
AlreadyPromoted(c, intent) == <<c, intent>> \in promotions

\* PromotionGate.promote and the transaction it ends in.  All its other answers
\* change nothing; the campaign of a promotion begins as "required".
promote_strategy_candidate(c, intent) ==
    /\ ~active_session
    /\ c \in proposals
    /\ LatestAccepted(c)
    /\ ~AlreadyPromoted(c, intent)
    /\ promotions' = promotions \cup {<<c, intent>>}
    /\ selection' = [candidate |-> c, intent |-> intent, validation |-> Last(validations[c])]
    /\ UNCHANGED <<proposals, validations, sessionVars, evidenceVars, verdict, pressureVars>>

-----------------------------------------------------------------------------
(* Sessions and settings *)

arm_backend_session ==
    /\ backend_armed' = TRUE /\ active_session' = TRUE
    /\ UNCHANGED <<choiceVars, session_lost, settings_versions, selection_restarts, evidenceVars, verdict,
                   pressureVars>>

\* A session that only reports blockers counts as active too.
start_live_session ==
    /\ ~active_session
    /\ active_session' = TRUE
    /\ UNCHANGED <<choiceVars, backend_armed, session_lost, settings_versions, selection_restarts, evidenceVars,
                   verdict, pressureVars>>

disarm_backend_session ==
    /\ backend_armed' = FALSE /\ active_session' = FALSE /\ session_lost' = FALSE
    /\ UNCHANGED <<choiceVars, settings_versions, selection_restarts, evidenceVars, verdict, pressureVars>>

\* Locking or clearing the hot wallet disarms and leaves the session.
lock_hot_wallet ==
    /\ backend_armed
    /\ backend_armed' = FALSE /\ session_lost' = FALSE
    /\ UNCHANGED <<choiceVars, active_session, settings_versions, selection_restarts, evidenceVars, verdict,
                   pressureVars>>

Present == Len(settings_versions)

\* A new version has observations and comparisons of its own, none yet.
NewVersion ==
    /\ Present < MaxSettings
    /\ settings_versions' = Append(settings_versions, backend_armed)
    /\ source_evidence' = "none"
    /\ evidence_is_recent' = FALSE
    /\ UNCHANGED campaign

settings_change ==
    /\ NewVersion
    /\ UNCHANGED <<choiceVars, backend_armed, active_session, session_lost, selection_restarts, verdict, pressureVars>>

\* The start captures the settings as stored, the armed flag included, before
\* it disarms a backend that has no password; the session is in memory.
selection_restart(local_auth_enabled) ==
    /\ selection_restarts < MaxRestarts
    /\ selection_restarts' = selection_restarts + 1
    /\ active_session' = FALSE
    /\ backend_armed' = (backend_armed /\ local_auth_enabled)
    /\ session_lost' = backend_armed'
    /\ \/ Last(settings_versions) # backend_armed /\ NewVersion
       \/ Last(settings_versions) = backend_armed /\ UNCHANGED <<settings_versions, evidenceVars>>
    /\ governor' = [failures |-> 0, recoveries |-> 0, shed |-> FALSE]
    /\ windows_seen' = <<>>
    /\ UNCHANGED <<choiceVars, verdict>>

-----------------------------------------------------------------------------
(* Evidence and the sentinel *)

observe_source(state) ==
    /\ source_evidence' = state
    /\ evidence_is_recent' = TRUE
    /\ UNCHANGED <<choiceVars, sessionVars, campaign, verdict, pressureVars>>

complete_comparisons(result) ==
    /\ campaign[Present] # result
    /\ campaign' = [campaign EXCEPT ![Present] = result]
    /\ evidence_is_recent' = TRUE
    /\ UNCHANGED <<choiceVars, sessionVars, source_evidence, verdict, pressureVars>>

evidence_ages ==
    /\ evidence_is_recent
    /\ evidence_is_recent' = FALSE
    /\ UNCHANGED <<choiceVars, sessionVars, source_evidence, campaign, verdict, pressureVars>>

\* Observations and comparisons carry settings versions, never a candidate's.
ActiveVersion == [proposed |-> selection.candidate, settings |-> IF selection = NoSelection THEN Present ELSE 0]
Observed(v) == IF v.settings = Present THEN source_evidence ELSE "none"
Compared(v) == IF v.settings # 0 THEN campaign[v.settings] ELSE "none"

Assessment(v, operations) ==
    IF Observed(v) = "none" \/ Compared(v) \in {"none", "few"} \/ ~evidence_is_recent
          \/ operations = "unsampled" THEN "insufficient_evidence"
    ELSE IF Observed(v) = "blocked" \/ Compared(v) = "losing" THEN "unfavorable"
    ELSE IF operations = "warning" THEN "observe_only"
    ELSE "pilot_eligible"

\* EconomicValidator.evaluate over every comparison there is: one of another
\* version is a blocker.
EconomicReady(n) ==
    /\ campaign[n] = "proven"
    /\ \A other \in SettingsVersions \ {n} : campaign[other] = "none"

\* The tiers are shed together, the core ones never.
SentinelAllowed == ~governor.shed

\* sentinel_current of the dashboard; shed, it reads the row there is.
refresh_sentinel_verdict(operations) ==
    /\ SentinelAllowed
    /\ verdict' = [status |-> Assessment(ActiveVersion, operations), expired |-> FALSE,
                   proposed |-> ActiveVersion.proposed, settings |-> ActiveVersion.settings]
    /\ UNCHANGED <<choiceVars, sessionVars, evidenceVars, pressureVars>>

verdict_expires ==
    /\ verdict # NoVerdict /\ ~verdict.expired
    /\ verdict' = [verdict EXCEPT !.expired = TRUE]
    /\ UNCHANGED <<choiceVars, sessionVars, evidenceVars, pressureVars>>

\* What the runtime guard of a pilot window asks of the two: the sentinel
\* without a refresh, the economics of the present settings version.
EvidenceAllows ==
    /\ verdict # NoVerdict /\ verdict.status = "pilot_eligible" /\ ~verdict.expired
    /\ EconomicReady(Present)

-----------------------------------------------------------------------------
(* Pressure *)

\* Mutant: a clear reading does not start the count of pressured ones again.
CountsOn(pressured) ==
    IF pressured
    THEN [governor EXCEPT !.failures = IF @ < FailureWindows THEN @ + 1 ELSE @,
                          !.recoveries = 0,
                          !.shed = @ \/ governor.failures + 1 >= FailureWindows]
    ELSE IF governor.shed /\ governor.recoveries + 1 >= RecoveryWindows
         THEN [failures |-> 0, recoveries |-> 0, shed |-> FALSE]
         ELSE [governor EXCEPT !.recoveries = IF governor.shed THEN @ + 1 ELSE @]

\* WorkloadGovernor.observe of a newer snapshot; what sheds is not undone by
\* fewer clear windows than RecoveryWindows in a row.
Observe(pressured) ==
    IF pressured
    THEN [governor EXCEPT !.failures = IF @ < FailureWindows THEN @ + 1 ELSE @,
                          !.recoveries = 0,
                          !.shed = @ \/ governor.failures + 1 >= FailureWindows]
    ELSE IF ~governor.shed
         THEN [governor EXCEPT !.failures = 0]
         ELSE IF governor.recoveries + 1 >= RecoveryWindows
              THEN [failures |-> 0, recoveries |-> 0, shed |-> FALSE]
              ELSE [governor EXCEPT !.failures = 0, !.recoveries = @ + 1]

workload_pressure(pressured) ==
    /\ governor' = Observe(pressured)
    /\ \E seen \in {Append(windows_seen, pressured)} :
          windows_seen' = IF Len(seen) > Longest THEN Tail(seen) ELSE seen
    /\ UNCHANGED <<choiceVars, sessionVars, evidenceVars, verdict>>

SelectionNext ==
    \/ \E c \in StrategyCandidates :
          \/ propose_strategy_candidate(c)
          \/ \E trial \in Trials : save_candidate_validation(c, trial)
          \/ \E intent \in Intents : promote_strategy_candidate(c, intent)
    \/ arm_backend_session \/ start_live_session \/ disarm_backend_session \/ lock_hot_wallet
    \/ settings_change
    \/ \E enabled \in BOOLEAN : selection_restart(enabled) \/ workload_pressure(enabled)
    \/ \E state \in {"blocked", "ready"} : observe_source(state)
    \/ \E result \in {"few", "losing", "proven"} : complete_comparisons(result)
    \/ evidence_ages
    \/ \E operations \in {"unsampled", "warning", "ready"} : refresh_sentinel_verdict(operations)
    \/ verdict_expires

SelectionSpec == SelectionInit /\ [][SelectionNext]_selectionVars

-----------------------------------------------------------------------------
(* Properties *)

\* The selected strategy changes only on the candidate's latest validation, at
\* most once for each intent of the operator, so that a retry that arrives late
\* does not overturn a later choice, and never under a backend armed since the
\* start (PromotionGate.promote, Storage.promote_strategy_candidate).
SelectionHolds ==
    [][selection' # selection =>
          /\ LatestAccepted(selection'.candidate)
          /\ <<selection'.candidate, selection'.intent>> \notin promotions
          /\ ~backend_armed \/ session_lost]_selectionVars

\* Work is shed, and comes back, only after the whole row of readings that the
\* thresholds ask for: pressure that comes and goes does neither
\* (WorkloadGovernor.observe).
LastSeen(n, pressured) ==
    /\ Len(windows_seen') >= n
    /\ \A i \in Len(windows_seen') - n + 1..Len(windows_seen') : windows_seen'[i] = pressured
ShedsInStreaks ==
    [][governor'.shed # governor.shed =>
          \/ governor'.shed /\ LastSeen(FailureWindows, TRUE)
          \/ governor.shed /\ LastSeen(RecoveryWindows, FALSE)
          \/ selection_restarts' # selection_restarts]_selectionVars

\* A pilot window runs on a verdict about the settings it trades under: one that
\* outlives its settings version meets the older comparisons in the economic
\* report (BotState._pilot_runtime_blockers, economic_validation_report).
PilotOnItsOwnEvidence == EvidenceAllows => verdict.settings = Present

\* What the sentinel and the governor let through rests on the evidence of the
\* present settings and on a whole row of readings (_pilot_runtime_blockers,
\* sentinel_current, WorkloadGovernor.observe).
AssessmentHolds == []PilotOnItsOwnEvidence /\ ShedsInStreaks
=============================================================================
