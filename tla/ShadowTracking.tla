----------------------------- MODULE ShadowTracking -----------------------------
(***************************************************************************)
(* The evidence of trades not made: candidates promoted from paper, their  *)
(* shadow quotes, the market observations bound to them and the economic   *)
(* comparisons drawn from both (core/state.py, core/storage.py).           *)
(*                                                                         *)
(* A handler runs to its end on the event loop, one transaction after the  *)
(* other; a crash ends it between two of them.  Events wait in the source  *)
(* queue with the time they were received.  Whether a price fires an exit  *)
(* rule, whether the provider answers a quote and whether a policy of the  *)
(* version lets a comparison be drawn are choices of the environment.      *)
(***************************************************************************)
EXTENDS Naturals, Sequences, FiniteSets, FiniteSetsExt

CONSTANTS
    Candidates,           \* paper decisions that are promoted, with their intents
    ShadowAudits,         \* audits of shadow quotes
    Mints,
    Cap,                  \* max_trade_subscriptions of each settings version
    EntryWindow,          \* SHADOW_ENTRY_WINDOW_SECONDS
    TrackWindow,          \* max_hold_time_seconds + 30
    MaxClock, MaxObservations, MaxShadowVersions, MaxShadowCrashes    \* bounds

ASSUME ShadowAssumption ==
    /\ {EntryWindow, TrackWindow, MaxClock, MaxObservations, MaxShadowVersions,
        MaxShadowCrashes} \subseteq Nat
    /\ Cap \in [0..MaxShadowVersions -> Nat]
    /\ "none" \notin Candidates \cup ShadowAudits \cup Mints

VARIABLES
    clock,
    arrived,              \* launch_queue: when each event was received
    strategy_version,     \* current_settings_version_id
    market,               \* accepted_market_observations, in the order of ingestion
    candidates,           \* shadow_tracking_candidates
    intents,              \* live_intents of the candidates
    shadow_audits,        \* live_execution_audits that are shadow_only
    captures,             \* pending_shadow_audit_captures
    bindings,             \* shadow_market_evidence_bindings
    comparisons,          \* shadow_economic_comparisons
    job,                  \* the handler under way
    shadow_crashes

shadowVars == <<clock, arrived, strategy_version, market, candidates, intents,
                shadow_audits, captures, bindings, comparisons, job, shadow_crashes>>

Observation == [mint: Mints, version: 0..MaxShadowVersions, received: 0..MaxClock,
                clean: BOOLEAN, exits: BOOLEAN]
Candidate == [state: {"none", "awaiting_entry", "tracking_shadow", "complete", "expired"},
              mint: Mints \cup {"none"}, version: 0..MaxShadowVersions,
              deadline: 0..(MaxClock + EntryWindow + TrackWindow),
              audit: ShadowAudits \cup {"none"}]
Intent == [status: {"none", "open", "quoted", "blocked", "expired", "cancelled"},
           mint: Mints \cup {"none"}, audit: ShadowAudits \cup {"none"}]
ShadowAudit == [status: {"none", "ready", "blocked", "stale"}, mint: Mints \cup {"none"},
                version: 0..MaxShadowVersions, quoted: 0..MaxClock]
Job == [step: {"idle", "selected", "promoted", "saved", "activating", "captured", "refreshing",
               "compared", "closing"},
        obs: 0..MaxObservations, todo: SUBSET Candidates,
        candidate: Candidates \cup {"none"}, audit: ShadowAudits \cup {"none"},
        final: BOOLEAN, audits: SUBSET ShadowAudits, slots: Nat, excluded: SUBSET Mints]
Idle == [step |-> "idle", obs |-> 0, todo |-> {}, candidate |-> "none", audit |-> "none",
         final |-> FALSE, audits |-> {}, slots |-> 0, excluded |-> {}]

Active == {c \in Candidates : candidates[c].state \in {"awaiting_entry", "tracking_shadow"}}

ShadowTypeOK ==
    /\ clock \in 0..MaxClock
    /\ arrived \in Seq(0..MaxClock)
    /\ strategy_version \in 0..MaxShadowVersions
    /\ market \in Seq(Observation) /\ Len(market) <= MaxObservations
    /\ candidates \in [Candidates -> Candidate]
    /\ intents \in [Candidates -> Intent]
    /\ shadow_audits \in [ShadowAudits -> ShadowAudit]
    /\ captures \in [ShadowAudits -> {"none", "pending", "closed"}]
    /\ \A a \in ShadowAudits : captures[a] # "none" => shadow_audits[a].status \in {"ready", "stale"}
    /\ bindings \subseteq [audit: ShadowAudits, obs: 1..MaxObservations, role: {"entry", "path"}]
    /\ comparisons \subseteq [audit: ShadowAudits, entry: 1..MaxObservations,
                              exit: 1..MaxObservations]
    /\ \A c \in Candidates :
          /\ candidates[c].state # "none" => candidates[c].mint = intents[c].mint
          /\ candidates[c].state \in {"tracking_shadow", "complete"} =>
                captures[candidates[c].audit] # "none"
    /\ job \in Job
    /\ shadow_crashes \in 0..MaxShadowCrashes

ShadowInit ==
    /\ clock = 0
    /\ arrived = <<>>
    /\ strategy_version = 0
    /\ market = <<>>
    /\ candidates = [c \in Candidates |-> [state |-> "none", mint |-> "none", version |-> 0,
                                           deadline |-> 0, audit |-> "none"]]
    /\ intents = [c \in Candidates |-> [status |-> "none", mint |-> "none", audit |-> "none"]]
    /\ shadow_audits = [a \in ShadowAudits |->
                           [status |-> "none", mint |-> "none", version |-> 0, quoted |-> 0]]
    /\ captures = [a \in ShadowAudits |-> "none"]
    /\ bindings = {}
    /\ comparisons = {}
    /\ job = Idle
    /\ shadow_crashes = 0

quoteVars == <<shadow_audits, captures, bindings, comparisons>>
worldVars == <<clock, arrived, strategy_version, shadow_crashes>>

-----------------------------------------------------------------------------
(* Candidates *)

\* _expire_shadow_tracking_candidates: each candidate with its capture in one
\* transaction.  Run by the selection, by each observation, by the source's
\* question for the preferred mints and by the status report.
Expiring == {c \in Active : \/ candidates[c].version # strategy_version
                            \/ candidates[c].deadline <= clock}
Expired == [c \in Candidates |-> IF c \in Expiring
                                 THEN [candidates[c] EXCEPT !.state = "expired", !.deadline = clock]
                                 ELSE candidates[c]]
ClosedWith == [a \in ShadowAudits |->
                  IF captures[a] = "pending" /\ \E c \in Expiring : candidates[c].audit = a
                  THEN "closed" ELSE captures[a]]

expire_shadow_tracking_candidates ==
    /\ job.step = "idle"
    /\ Expiring # {}
    /\ candidates' = Expired
    /\ captures' = ClosedWith
    /\ UNCHANGED <<worldVars, market, intents, shadow_audits, bindings, comparisons, job>>

\* What a call of generate_live_intents looks at once, before its loop over the
\* tokens: the candidates under way, and the mints that have one or an intent at
\* hand.  Two tokens of one mint in the same call both pass.
SlotsTaken == Active \ Expiring
AtHand == {m \in Mints : \E d \in Candidates :
              intents[d].mint = m /\ (intents[d].status \in {"open", "quoted"} \/ d \in SlotsTaken)}

generate_live_intents ==
    /\ job.step = "idle"
    /\ candidates' = Expired
    /\ captures' = ClosedWith
    /\ \E free \in 1..Cap[strategy_version] :
          /\ Cardinality(SlotsTaken) + free = Cap[strategy_version]
          /\ job' = [Idle EXCEPT !.step = "selected", !.slots = free, !.excluded = AtHand]
    /\ UNCHANGED <<worldVars, market, intents, shadow_audits, bindings, comparisons>>

\* One token that qualifies after the other, the intent first.
save_live_intent(c, m) ==
    /\ job.step = "selected" /\ job.slots > 0
    /\ intents[c].status = "none"
    /\ m \notin job.excluded
    /\ intents' = [intents EXCEPT ![c] = [status |-> "open", mint |-> m, audit |-> "none"]]
    /\ job' = [job EXCEPT !.step = "promoted", !.candidate = c, !.slots = @ - 1]
    /\ UNCHANGED <<worldVars, market, candidates, quoteVars>>

\* No further token qualifies.
promotion_is_over ==
    /\ job.step = "selected"
    /\ job' = Idle
    /\ UNCHANGED <<worldVars, market, candidates, intents, quoteVars>>

\* Back in the loop of the call, if one is under way and has a slot left.
Resumed == IF job.slots = 0 THEN Idle
           ELSE [Idle EXCEPT !.step = "selected", !.slots = job.slots, !.excluded = job.excluded]

\* The latest observation of the mint and the version received by now counts
\* if it is clean, and no other does (_latest_eligible_candidate_entry,
\* _shadow_entry_market_evidence).
ReceivedBy(m, v, t) == {i \in DOMAIN market : /\ market[i].mint = m /\ market[i].version = v
                                              /\ market[i].received <= t}
EntryOf(m, v, t) ==
    {i \in ReceivedBy(m, v, t) :
        /\ \A j \in ReceivedBy(m, v, t) : \/ market[j].received < market[i].received
                                          \/ market[j].received = market[i].received /\ j <= i
        /\ market[i].clean}

Waiting(m, v) == {c \in Active : /\ candidates[c].state = "awaiting_entry"
                                 /\ candidates[c].mint = m /\ candidates[c].version = v}

\* The candidate is saved; with a price at hand every candidate waiting for one
\* of its mint is activated.
save_shadow_tracking_candidate ==
    LET c == job.candidate
        m == intents[c].mint
        entry == EntryOf(m, strategy_version, clock)
    IN  /\ job.step = "promoted"
        /\ candidates' = [candidates EXCEPT ![c] =
              [state |-> "awaiting_entry", mint |-> m, version |-> strategy_version,
               deadline |-> clock + EntryWindow, audit |-> "none"]]
        /\ job' = IF entry = {} THEN Resumed
                  ELSE [job EXCEPT !.step = "activating", !.candidate = "none",
                                   !.todo = {c} \cup Waiting(m, strategy_version)]
        /\ UNCHANGED <<worldVars, market, intents, quoteVars>>

-----------------------------------------------------------------------------
(* Observations: _record_accepted_market_observation *)

\* The event at the head of the queue; the version is the one at ingestion.
save_accepted_market_observation(m, clean, exits) ==
    /\ job.step = "idle"
    /\ arrived # <<>>
    /\ Len(market) < MaxObservations
    /\ arrived' = Tail(arrived)
    /\ market' = Append(market, [mint |-> m, version |-> strategy_version,
                                 received |-> Head(arrived),
                                 clean |-> clean, exits |-> exits])
    /\ job' = [Idle EXCEPT !.step = "saved", !.obs = Len(market) + 1]
    /\ UNCHANGED <<clock, strategy_version, shadow_crashes, candidates, intents, quoteVars>>

Binds(a, o) == captures[a] = "pending" /\ shadow_audits[a].quoted < o.received

\* bind_accepted_market_observation_to_pending_shadows, then the start of
\* _activate_waiting_shadow_candidate.
bind_accepted_market_observation ==
    LET o == market[job.obs]
        bound == {a \in ShadowAudits : /\ o.clean /\ Binds(a, o)
                                       /\ shadow_audits[a].mint = o.mint
                                       /\ shadow_audits[a].version = o.version}
        new == {b \in [audit: bound, obs: {job.obs}, role: {"path"}] :
                   ~\E r \in {"entry", "path"} : [b EXCEPT !.role = r] \in bindings}
    IN  /\ job.step = "saved"
        /\ bindings' = bindings \cup new
        /\ candidates' = Expired
        /\ captures' = ClosedWith
        /\ job' = [job EXCEPT
              !.step = "activating",
              !.todo = IF o.clean THEN Waiting(o.mint, o.version) \ Expiring ELSE {},
              !.audits = {b.audit : b \in {x \in bindings' : x.obs = job.obs}}]
        /\ UNCHANGED <<worldVars, market, intents, shadow_audits, comparisons>>

-----------------------------------------------------------------------------
(* Activation: _activate_waiting_shadow_candidate *)

ValidAudit(a) ==
    /\ a # "none"
    /\ shadow_audits[a].status = "ready"
    /\ captures[a] = "pending"
    /\ \E b \in bindings : b.audit = a /\ b.role = "entry"

\* One candidate after the other.
TurnOf(c) == c \in job.todo /\ job.candidate \in {"none", c}
Dropped(c) == [job EXCEPT !.step = "activating", !.todo = @ \ {c}, !.candidate = "none",
                          !.audit = "none", !.final = FALSE]

Quote(m, answer) == [status |-> answer, mint |-> m, version |-> strategy_version,
                     quoted |-> clock]

\* The capture, the binding of the entry and the audit in one transaction.
save_shadow_quote_audit_capture(a, m) ==
    /\ captures' = [captures EXCEPT ![a] = "pending"]
    /\ bindings' = bindings \cup
          [audit: {a}, obs: EntryOf(m, strategy_version, clock), role: {"entry"}]
    /\ shadow_audits' = [shadow_audits EXCEPT ![a] = Quote(m, "ready")]

\* quote_live_intent(shadow_only) as far as the audit; a blocked quote has no
\* capture.  A cancelled intent or a provider that fails raises.
quote_shadow_intent(c, a, answer) ==
    LET m == intents[c].mint
    IN  /\ job.step = "activating" /\ TurnOf(c)
        /\ intents[c].audit = "none"
        /\ IF answer = "raises" \/ intents[c].status = "cancelled"
           THEN /\ job' = Dropped(c)
                /\ UNCHANGED quoteVars
           ELSE /\ shadow_audits[a].status = "none"
                /\ IF answer = "ready"
                   THEN save_shadow_quote_audit_capture(a, m)
                   ELSE /\ shadow_audits' = [shadow_audits EXCEPT ![a] = Quote(m, answer)]
                        /\ UNCHANGED <<captures, bindings>>
                /\ job' = [job EXCEPT !.step = "captured", !.candidate = c, !.audit = a]
                /\ UNCHANGED comparisons
        /\ UNCHANGED <<worldVars, market, candidates, intents>>

\* The end of quote_live_intent: the intent names its audit.
save_quoted_intent ==
    LET c == job.candidate IN
    /\ job.step = "captured"
    /\ intents' = [intents EXCEPT ![c] =
          [@ EXCEPT !.audit = job.audit,
                    !.status = IF shadow_audits[job.audit].status = "ready" THEN "quoted"
                               ELSE "blocked"]]
    /\ job' = [job EXCEPT !.step = "activating", !.audit = "none"]
    /\ UNCHANGED <<worldVars, market, candidates, quoteVars>>

\* An audit that no longer serves is given up once, and quoted anew.
discard_invalid_audit(c) ==
    /\ job.step = "activating" /\ TurnOf(c)
    /\ intents[c].audit # "none"
    /\ ~ValidAudit(intents[c].audit)
    /\ IF job.final /\ job.candidate = c
       THEN job' = Dropped(c) /\ UNCHANGED intents
       ELSE /\ intents' = [intents EXCEPT ![c] = [@ EXCEPT !.audit = "none", !.status = "open"]]
            /\ job' = [job EXCEPT !.final = TRUE, !.candidate = c]
    /\ UNCHANGED <<worldVars, market, candidates, quoteVars>>

\* transition_shadow_tracking_candidate to tracking_shadow.
track_shadow_candidate(c) ==
    LET a == intents[c].audit IN
    /\ job.step = "activating" /\ TurnOf(c)
    /\ ValidAudit(a)
    /\ candidates' = [candidates EXCEPT ![c] =
          [@ EXCEPT !.state = "tracking_shadow", !.audit = a,
                    !.deadline = shadow_audits[a].quoted + TrackWindow]]
    /\ job' = Dropped(c)
    /\ UNCHANGED <<worldVars, market, intents, quoteVars>>

activation_is_over ==
    /\ job.step = "activating" /\ job.todo = {}
    /\ job' = IF job.audits = {} THEN Resumed ELSE [job EXCEPT !.step = "refreshing"]
    /\ UNCHANGED <<worldVars, market, candidates, intents, quoteVars>>

-----------------------------------------------------------------------------
(* Comparisons: _refresh_shadow_comparisons *)

EntryBound(a) == {b.obs : b \in {x \in bindings : x.audit = a /\ x.role = "entry"}}
PathBound(a) == {b.obs : b \in {x \in bindings : x.audit = a /\ x.role = "path"}}
\* The first bound price that fires an exit rule.
ExitsOf(a) == {i \in PathBound(a) :
                  /\ market[i].exits /\ market[i].received > shadow_audits[a].quoted
                  /\ market[i].mint = shadow_audits[a].mint
                  /\ market[i].version = shadow_audits[a].version
                  /\ \A j \in PathBound(a) : market[j].exits => i <= j}

Refreshed(a) ==
    LET rest == job.audits \ {a}
    IN  IF rest = {} THEN Idle ELSE [Idle EXCEPT !.step = "refreshing", !.audits = rest]

\* Mutant: evaluated is as good as persisted.
EvaluatedOnly(a, economic) == TRUE
Persisted(a, economic) == economic \/ \E k \in comparisons : k.audit = a

\* _evaluate_shadow_comparison and _persist_economic_shadow_comparison, which
\* keeps the comparison the audit has.
persist_economic_comparison(a, economic) ==
    LET drawn == [audit: {a}, entry: EntryBound(a), exit: ExitsOf(a)]
    IN  /\ job.step = "refreshing" /\ a \in job.audits
        /\ IF EntryBound(a) # {} /\ ExitsOf(a) # {} /\ Persisted(a, economic)
           THEN /\ comparisons' = IF economic /\ ~\E k \in comparisons : k.audit = a
                                  THEN comparisons \cup drawn ELSE comparisons
                /\ job' = [job EXCEPT !.step = "compared", !.audit = a]
           ELSE job' = Refreshed(a) /\ UNCHANGED comparisons
        /\ UNCHANGED <<worldVars, market, candidates, intents, shadow_audits, captures, bindings>>

close_pending_shadow_audit_capture ==
    /\ job.step = "compared"
    /\ captures' = [captures EXCEPT ![job.audit] = IF @ = "pending" THEN "closed" ELSE @]
    /\ job' = [job EXCEPT !.step = "closing"]
    /\ UNCHANGED <<worldVars, market, candidates, intents, shadow_audits, bindings, comparisons>>

Tracks(c, a) == candidates[c].audit = a /\ candidates[c].state = "tracking_shadow"
complete_shadow_candidates ==
    LET a == job.audit IN
    /\ job.step = "closing"
    /\ candidates' = [c \in Candidates |->
          IF Tracks(c, a) THEN [candidates[c] EXCEPT !.state = "complete", !.audit = a,
                                                     !.deadline = clock]
          ELSE candidates[c]]
    /\ job' = Refreshed(a)
    /\ UNCHANGED <<worldVars, market, intents, quoteVars>>

\* _shadow_capture_window_expired: never under a candidate that is active.
WindowOver(a) == /\ ~\E c \in Active : candidates[c].audit = a
                 /\ clock >= shadow_audits[a].quoted + TrackWindow

\* _normalize_live_audits closes captures nobody tracks any more.
Normalized == [a \in ShadowAudits |->
                  IF shadow_audits[a].status = "stale" /\ captures[a] = "pending" /\ WindowOver(a)
                  THEN "closed" ELSE captures[a]]

\* A report normalizes and refreshes all audits that have a comparison.
shadow_report ==
    /\ job.step = "idle"
    /\ captures' = Normalized
    /\ LET compared == {a \in ShadowAudits : captures[a] # "none"}
       IN  /\ compared # {}
           /\ job' = [Idle EXCEPT !.step = "refreshing", !.audits = compared]
    /\ UNCHANGED <<worldVars, market, candidates, intents, shadow_audits, bindings, comparisons>>

-----------------------------------------------------------------------------
(* The world and the process *)

EventArrives ==
    /\ Len(market) + Len(arrived) < MaxObservations
    /\ arrived' = Append(arrived, clock)
    /\ UNCHANGED <<clock, strategy_version, shadow_crashes, market, candidates, intents,
                   quoteVars, job>>

TimePasses ==
    /\ clock < MaxClock
    /\ job.step = "idle"
    /\ clock' = clock + 1
    /\ UNCHANGED <<arrived, strategy_version, shadow_crashes, market, candidates, intents,
                   quoteVars, job>>

\* A quote is over: its audit is marked stale, its intent expired.
QuoteExpires(a) ==
    /\ job.step = "idle"
    /\ shadow_audits[a].status = "ready"
    /\ shadow_audits' = [shadow_audits EXCEPT ![a].status = "stale"]
    /\ intents' = [c \in Candidates |-> IF intents[c].audit = a /\ intents[c].status = "quoted"
                                        THEN [intents[c] EXCEPT !.status = "expired"]
                                        ELSE intents[c]]
    /\ UNCHANGED <<worldVars, market, candidates, captures, bindings, comparisons, job>>

cancel_live_intent(c) ==
    /\ job.step = "idle"
    /\ intents[c].status \in {"open", "quoted"}
    /\ intents' = [intents EXCEPT ![c].status = "cancelled"]
    /\ UNCHANGED <<worldVars, market, candidates, quoteVars, job>>

strategy_version_changes ==
    /\ job.step = "idle"
    /\ strategy_version < MaxShadowVersions
    /\ strategy_version' = strategy_version + 1
    /\ UNCHANGED <<clock, arrived, shadow_crashes, market, candidates, intents, quoteVars, job>>

\* The queue and the handler are gone; startup normalizes.
ShadowCrash ==
    /\ shadow_crashes < MaxShadowCrashes
    /\ shadow_crashes' = shadow_crashes + 1
    /\ arrived' = <<>>
    /\ job' = Idle
    /\ captures' = Normalized
    /\ UNCHANGED <<clock, strategy_version, market, candidates, intents, shadow_audits,
                   bindings, comparisons>>

ShadowNext ==
    \/ expire_shadow_tracking_candidates \/ generate_live_intents \/ promotion_is_over
    \/ save_shadow_tracking_candidate
    \/ bind_accepted_market_observation \/ save_quoted_intent \/ activation_is_over
    \/ close_pending_shadow_audit_capture \/ complete_shadow_candidates \/ shadow_report
    \/ \E c \in Candidates :
          \/ \E m \in Mints : save_live_intent(c, m)
          \/ \E a \in ShadowAudits, answer \in {"ready", "blocked", "raises"} :
                quote_shadow_intent(c, a, answer)
          \/ discard_invalid_audit(c) \/ track_shadow_candidate(c) \/ cancel_live_intent(c)
    \/ \E m \in Mints, clean, exits \in BOOLEAN : save_accepted_market_observation(m, clean, exits)
    \/ \E a \in ShadowAudits : \/ \E economic \in BOOLEAN : persist_economic_comparison(a, economic)
                               \/ QuoteExpires(a)
    \/ EventArrives \/ TimePasses \/ strategy_version_changes \/ ShadowCrash

ShadowSpec == ShadowInit /\ [][ShadowNext]_shadowVars

-----------------------------------------------------------------------------
(* Properties *)

\* A comparison never looks ahead: it enters at a price received by the time of
\* its quote and leaves at one received after it, both clean and of the mint and
\* the version the quote was made for, however late either was ingested.
NoLookAhead ==
    \A k \in comparisons :
        LET a == shadow_audits[k.audit]
            in == market[k.entry]
            out == market[k.exit]
        IN  /\ in.received <= a.quoted /\ a.quoted < out.received
            /\ in.clean /\ out.clean
            /\ {in.mint, out.mint} = {a.mint} /\ {in.version, out.version} = {a.version}

\* A candidate that is tracked can still be completed: its capture is open, or
\* its comparison is there; a crash between the two transactions, a report or a
\* restart does not take the capture away from under it.
TrackedIsCaptured ==
    \A c \in Candidates : candidates[c].state = "tracking_shadow" =>
        \/ captures[candidates[c].audit] = "pending"
        \/ \E k \in comparisons : k.audit = candidates[c].audit

\* A candidate is complete only with the comparison of its own audit, drawn
\* under the version it was selected for.
CompleteHasEvidence ==
    \A c \in Candidates : candidates[c].state = "complete" =>
        /\ \E k \in comparisons : k.audit = candidates[c].audit
        /\ shadow_audits[candidates[c].audit].version = candidates[c].version
        /\ shadow_audits[candidates[c].audit].mint = candidates[c].mint

\* A candidate that expired leaves no capture behind that goes on collecting.
ExpiredIsClosed ==
    \A c \in Candidates :
        candidates[c].state = "expired" /\ candidates[c].audit # "none" =>
            captures[candidates[c].audit] = "closed"

\* The candidates of the version under way never outnumber its trade
\* subscriptions, whatever the calls that selected them saw before they saved,
\* and no two candidates, of one mint or not, live on the same quote.
CandidatesWithinCap ==
    /\ Cardinality({c \in Active : candidates[c].version = strategy_version})
          <= Cap[strategy_version]
    /\ \A c, d \in Candidates :
          candidates[c].audit = candidates[d].audit /\ candidates[c].audit # "none" => c = d

\* What the evidence reports count is evidence: drawn without looking ahead,
\* from candidates that were tracked within the cap, completed by their own
\* comparison or closed for good (_refresh_shadow_comparisons).
EvidenceIsSound ==
    /\ NoLookAhead /\ TrackedIsCaptured /\ CompleteHasEvidence
    /\ ExpiredIsClosed /\ CandidatesWithinCap
=============================================================================
