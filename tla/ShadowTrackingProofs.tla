------------------------ MODULE ShadowTrackingProofs ------------------------
(***************************************************************************)
(* Proofs about ShadowTracking, for any candidates, audits, mints, windows *)
(* and bounds: comparisons do not look ahead, a tracked candidate can be   *)
(* completed, a complete one has the evidence of its own version, and the  *)
(* candidates stay within the trade subscriptions.                         *)
(*                                                                         *)
(* The invariant says of every row what it was made from: a binding from   *)
(* an observation of the audit's mint and version (BindingsHold), an       *)
(* audit from the candidate's intent (CandidatesHold), and of the handler  *)
(* under way what it looked at in an earlier transaction (JobHolds).       *)
(***************************************************************************)
EXTENDS ShadowTracking, FiniteSetTheorems, TLAPS

Current == {c \in Active : candidates[c].version = strategy_version}
Promoted == {c \in Candidates : candidates[c].state # "none"}

\* A candidate follows its intent; the audit it tracks is the intent's, quoted for
\* its mint under its version, and no other candidate's.
CandidatesHold ==
    \A c \in Candidates :
        /\ intents[c].status = "none" => candidates[c].state = "none"
        /\ candidates[c].state = "none" => intents[c].audit = "none"
        /\ candidates[c].state \in {"none", "awaiting_entry"} => candidates[c].audit = "none"
        /\ candidates[c].audit # "none" => candidates[c].audit = intents[c].audit
        /\ candidates[c].state \in {"tracking_shadow", "complete"} => candidates[c].audit # "none"
        /\ candidates[c].version <= strategy_version
        /\ intents[c].audit # "none" =>
              /\ shadow_audits[intents[c].audit].status # "none"
              /\ shadow_audits[intents[c].audit].mint = intents[c].mint
              /\ shadow_audits[intents[c].audit].version = candidates[c].version
              /\ \A d \in Candidates : intents[d].audit = intents[c].audit => d = c

\* What is bound was observed clean; an entry was received by the time of the
\* quote, for its mint and version.
BindingsHold ==
    /\ \A b \in bindings :
          /\ captures[b.audit] # "none"
          /\ b.obs \in DOMAIN market /\ market[b.obs].clean
          /\ b.role = "entry" =>
                /\ market[b.obs].received <= shadow_audits[b.audit].quoted
                /\ market[b.obs].mint = shadow_audits[b.audit].mint
                /\ market[b.obs].version = shadow_audits[b.audit].version
    /\ \A k \in comparisons : /\ captures[k.audit] # "none"
                              /\ k.entry \in DOMAIN market /\ k.exit \in DOMAIN market

\* The slots a call of generate_live_intents took for its loop, with the one of the
\* promotion under way, are still free when it comes to use them.
Promotion == IF job.step = "promoted" THEN 1 ELSE 0
SlotsHold == Cardinality(Current) + job.slots + Promotion <= Cap[strategy_version]

\* The handler under way: a promotion has its own intent, an activation is of
\* waiting candidates of the version, a quote is nobody's yet, and a capture is
\* closed, a candidate completed, for a comparison that is there.
JobHolds ==
    /\ job.step = "idle" => job.slots = 0
    /\ job.step = "promoted" =>
          /\ job.candidate \in Candidates
          /\ candidates[job.candidate].state = "none"
          /\ intents[job.candidate].status # "none"
          /\ intents[job.candidate].mint \in Mints
    /\ job.step = "saved" => /\ job.obs \in DOMAIN market
                             /\ market[job.obs].version = strategy_version
    /\ job.step \in {"activating", "captured"} =>
          \A c \in job.todo : /\ candidates[c].state = "awaiting_entry"
                              /\ candidates[c].version = strategy_version
    /\ job.step = "captured" =>
          /\ job.candidate \in job.todo /\ job.audit \in ShadowAudits
          /\ shadow_audits[job.audit].status # "none"
          /\ shadow_audits[job.audit].mint = intents[job.candidate].mint
          /\ shadow_audits[job.audit].version = strategy_version
          /\ \A c \in Candidates : intents[c].audit # job.audit
    /\ job.step \in {"compared", "closing"} =>
          /\ job.audit \in ShadowAudits
          /\ \E k \in comparisons : k.audit = job.audit

ShadowInv ==
    /\ ShadowTypeOK
    /\ CandidatesHold
    /\ BindingsHold
    /\ JobHolds
    /\ IsFiniteSet(Promoted)
    /\ NoLookAhead
    /\ TrackedIsCaptured
    /\ CompleteHasEvidence
    /\ ExpiredIsClosed
    /\ SlotsHold

\* The columns have their types.
RowsTyped ==
    /\ clock \in 0..MaxClock /\ arrived \in Seq(0..MaxClock)
    /\ strategy_version \in 0..MaxShadowVersions /\ shadow_crashes \in 0..MaxShadowCrashes
    /\ market \in Seq(Observation) /\ Len(market) <= MaxObservations
    /\ candidates \in [Candidates -> Candidate] /\ intents \in [Candidates -> Intent]
    /\ shadow_audits \in [ShadowAudits -> ShadowAudit]
    /\ captures \in [ShadowAudits -> {"none", "pending", "closed"}]
    /\ bindings \subseteq [audit: ShadowAudits, obs: 1..MaxObservations, role: {"entry", "path"}]
    /\ comparisons \subseteq [audit: ShadowAudits, entry: 1..MaxObservations,
                              exit: 1..MaxObservations]
    /\ job \in Job

\* Observations, quotes, captures, bindings and comparisons stay what they are.
MarketKept == \A i \in DOMAIN market : i \in DOMAIN market' /\ market'[i] = market[i]
QuotesKept ==
    \A a \in ShadowAudits : shadow_audits[a].status # "none" =>
        /\ shadow_audits'[a].status # "none"
        /\ shadow_audits'[a].mint = shadow_audits[a].mint
        /\ shadow_audits'[a].version = shadow_audits[a].version
        /\ shadow_audits'[a].quoted = shadow_audits[a].quoted
CapturesKept ==
    \A a \in ShadowAudits : /\ captures[a] # "none" => captures'[a] # "none"
                            /\ captures[a] = "closed" => captures'[a] = "closed"

-----------------------------------------------------------------------------
(* The operators of the model.                                             *)

\* The assumptions, in the form the steps below use them.
LEMMA ShadowConstants ==
    /\ Cap \in [0..MaxShadowVersions -> Nat] /\ EntryWindow \in Nat /\ TrackWindow \in Nat /\ MaxClock \in Nat
    /\ MaxObservations \in Nat /\ MaxShadowVersions \in Nat /\ MaxShadowCrashes \in Nat
    /\ "none" \notin Candidates /\ "none" \notin ShadowAudits /\ "none" \notin Mints
BY ShadowAssumption

\* The windows end within the bound of deadlines.
LEMMA DeadlinesTyped ==
  ASSUME NEW t \in 0..MaxClock
  PROVE  /\ t \in 0..(MaxClock + EntryWindow + TrackWindow)
         /\ t + EntryWindow \in 0..(MaxClock + EntryWindow + TrackWindow)
         /\ t + TrackWindow \in 0..(MaxClock + EntryWindow + TrackWindow)
BY ShadowConstants

\* The fields of the rows and of the handler under way.
LEMMA ShadowFields ==
  ASSUME ShadowTypeOK
  PROVE  /\ \A c \in Candidates :
               /\ candidates[c] \in Candidate /\ intents[c] \in Intent
               /\ candidates[c].state \in {"none", "awaiting_entry", "tracking_shadow",
                                           "complete", "expired"}
               /\ candidates[c].version \in 0..MaxShadowVersions
               /\ candidates[c].audit \in ShadowAudits \cup {"none"}
               /\ intents[c].audit \in ShadowAudits \cup {"none"}
               /\ intents[c].mint \in Mints \cup {"none"}
         /\ \A a \in ShadowAudits :
               /\ shadow_audits[a] \in ShadowAudit
               /\ shadow_audits[a].status \in {"none", "ready", "blocked", "stale"}
               /\ shadow_audits[a].quoted \in 0..MaxClock
               /\ captures[a] \in {"none", "pending", "closed"}
         /\ job \in Job /\ job.todo \subseteq Candidates /\ job.audits \subseteq ShadowAudits
         /\ job.candidate \in Candidates \cup {"none"}
         /\ job.audit \in ShadowAudits \cup {"none"} /\ job.slots \in Nat
         /\ strategy_version \in 0..MaxShadowVersions /\ clock \in 0..MaxClock
         /\ Cap[strategy_version] \in Nat
<1>1. \A c \in Candidates : candidates[c] \in Candidate /\ intents[c] \in Intent
  BY DEF ShadowTypeOK
<1>2. \A a \in ShadowAudits : /\ shadow_audits[a] \in ShadowAudit
                              /\ captures[a] \in {"none", "pending", "closed"}
  BY DEF ShadowTypeOK
<1>3. job \in Job /\ strategy_version \in 0..MaxShadowVersions /\ clock \in 0..MaxClock
  BY DEF ShadowTypeOK
<1> QED
  BY <1>1, <1>2, <1>3, ShadowConstants DEF Candidate, Intent, ShadowAudit, Job

\* The idle handler is a handler (models of the code's locals).
LEMMA IdleTyped == Idle \in Job
BY ShadowConstants DEF Idle, Job

\* An observation stays where it was ingested (accepted_market_observations).
LEMMA MarketIndexed ==
  ASSUME ShadowTypeOK
  PROVE  /\ DOMAIN market = 1..Len(market) /\ Len(market) \in Nat
         /\ Len(market) <= MaxObservations
         /\ \A i \in DOMAIN market : /\ i \in 1..MaxObservations /\ market[i] \in Observation
                                     /\ market[i].received \in 0..MaxClock
                                     /\ market[i].mint \in Mints
<1>1. market \in Seq(Observation) /\ Len(market) <= MaxObservations
  BY DEF ShadowTypeOK
<1>2. DOMAIN market = 1..Len(market) /\ Len(market) \in Nat
      /\ \A i \in DOMAIN market : market[i] \in Observation
  BY <1>1
<1>3. \A i \in DOMAIN market : i \in 1..MaxObservations
  BY <1>1, <1>2, ShadowConstants
<1> QED
  BY <1>1, <1>2, <1>3 DEF Observation

\* An expiry takes candidates out of the active ones, each with its capture, and
\* changes nothing else of them (_expire_shadow_tracking_candidates).
LEMMA ExpiryFields ==
  ASSUME ShadowTypeOK
  PROVE  /\ Expired \in [Candidates -> Candidate]
         /\ ClosedWith \in [ShadowAudits -> {"none", "pending", "closed"}]
         /\ \A c \in Candidates :
               /\ Expired[c].mint = candidates[c].mint
               /\ Expired[c].version = candidates[c].version
               /\ Expired[c].audit = candidates[c].audit
               /\ c \in Expiring => Expired[c].state = "expired"
               /\ c \notin Expiring => Expired[c] = candidates[c]
         /\ \A a \in ShadowAudits :
               /\ captures[a] = "none" <=> ClosedWith[a] = "none"
               /\ captures[a] = "closed" => ClosedWith[a] = "closed"
               /\ ClosedWith[a] # captures[a] =>
                     ClosedWith[a] = "closed" /\ \E c \in Expiring : candidates[c].audit = a
               /\ (\E c \in Expiring : candidates[c].audit = a) =>
                     captures[a] = "none" \/ ClosedWith[a] = "closed"
<1>1. \A c \in Candidates : [candidates[c] EXCEPT !.state = "expired", !.deadline = clock] \in Candidate
  <2>1. clock \in 0..(MaxClock + EntryWindow + TrackWindow)
    BY ShadowFields, DeadlinesTyped
  <2> QED
    BY <2>1, ShadowFields DEF Candidate
<1>2. \A c \in Candidates :
        /\ [candidates[c] EXCEPT !.state = "expired", !.deadline = clock].mint = candidates[c].mint
        /\ [candidates[c] EXCEPT !.state = "expired", !.deadline = clock].version = candidates[c].version
        /\ [candidates[c] EXCEPT !.state = "expired", !.deadline = clock].audit = candidates[c].audit
        /\ [candidates[c] EXCEPT !.state = "expired", !.deadline = clock].state = "expired"
  BY ShadowFields DEF Candidate
<1>3. Expired \in [Candidates -> Candidate]
  BY <1>1, ShadowFields DEF Expired
<1>4. \A c \in Candidates :
         /\ c \in Expiring =>
               Expired[c] = [candidates[c] EXCEPT !.state = "expired", !.deadline = clock]
         /\ c \notin Expiring => Expired[c] = candidates[c]
  BY DEF Expired
<1>5. \A a \in ShadowAudits : ClosedWith[a] =
         IF captures[a] = "pending" /\ \E c \in Expiring : candidates[c].audit = a
         THEN "closed" ELSE captures[a]
  BY DEF ClosedWith
<1>6. ClosedWith \in [ShadowAudits -> {"none", "pending", "closed"}]
  BY ShadowFields DEF ClosedWith
<1>7. \A c \in Candidates :
         /\ Expired[c].mint = candidates[c].mint
         /\ Expired[c].version = candidates[c].version
         /\ Expired[c].audit = candidates[c].audit
         /\ c \in Expiring => Expired[c].state = "expired"
         /\ c \notin Expiring => Expired[c] = candidates[c]
  <2> TAKE c \in Candidates
  <2>1. CASE c \in Expiring
    BY <2>1, <1>2, <1>4
  <2>2. CASE c \notin Expiring
    BY <2>2, <1>4
  <2> QED
    BY <2>1, <2>2
<1>8. \A a \in ShadowAudits :
         /\ captures[a] = "none" <=> ClosedWith[a] = "none"
         /\ captures[a] = "closed" => ClosedWith[a] = "closed"
         /\ ClosedWith[a] # captures[a] =>
               ClosedWith[a] = "closed" /\ \E c \in Expiring : candidates[c].audit = a
         /\ (\E c \in Expiring : candidates[c].audit = a) =>
               captures[a] = "none" \/ ClosedWith[a] = "closed"
  <2> TAKE a \in ShadowAudits
  <2>1. captures[a] \in {"none", "pending", "closed"}
    BY ShadowFields
  <2>2. CASE captures[a] = "pending" /\ \E c \in Expiring : candidates[c].audit = a
    BY <2>2, <1>5
  <2>3. CASE ~(captures[a] = "pending" /\ \E c \in Expiring : candidates[c].audit = a)
    <3>1. ClosedWith[a] = captures[a]
      BY <2>3, <1>5
    <3> QED
      BY <3>1, <2>1, <2>3
  <2> QED
    BY <2>2, <2>3
<1> QED
  BY <1>3, <1>6, <1>7, <1>8

\* Normalizing closes captures nobody tracks (_normalize_live_audits).
LEMMA NormalizedFields ==
  ASSUME ShadowTypeOK
  PROVE  /\ Normalized \in [ShadowAudits -> {"none", "pending", "closed"}]
         /\ \A a \in ShadowAudits :
               /\ captures[a] = "none" <=> Normalized[a] = "none"
               /\ captures[a] = "closed" => Normalized[a] = "closed"
               /\ Normalized[a] # captures[a] => ~\E c \in Active : candidates[c].audit = a
<1>1. \A a \in ShadowAudits : Normalized[a] =
         IF shadow_audits[a].status = "stale" /\ captures[a] = "pending" /\ WindowOver(a)
         THEN "closed" ELSE captures[a]
  BY DEF Normalized
<1>2. Normalized \in [ShadowAudits -> {"none", "pending", "closed"}]
  BY ShadowFields DEF Normalized
<1> QED
  BY <1>1, <1>2, ShadowFields DEF WindowOver

-----------------------------------------------------------------------------
(* The rows have their types.                                              *)

\* Nothing is promoted, quoted or observed at the start.
LEMMA ShadowInitially == ShadowInit => ShadowInv
<1> SUFFICES ASSUME ShadowInit PROVE ShadowInv
  OBVIOUS
<1>1. /\ 0 \in 0..MaxClock /\ 0 \in 0..MaxShadowVersions /\ 0 \in 0..MaxShadowCrashes
      /\ 0 \in 0..(MaxClock + EntryWindow + TrackWindow) /\ 0 <= MaxObservations
  BY ShadowConstants
<1>2. /\ candidates \in [Candidates -> Candidate] /\ intents \in [Candidates -> Intent]
      /\ shadow_audits \in [ShadowAudits -> ShadowAudit]
  BY <1>1 DEF ShadowInit, Candidate, Intent, ShadowAudit
<1>3. /\ \A c \in Candidates : candidates[c].state = "none" /\ candidates[c].audit = "none"
                               /\ intents[c].audit = "none" /\ candidates[c].version = 0
      /\ \A a \in ShadowAudits : captures[a] = "none"
      /\ Active = {} /\ Promoted = {}
      /\ job.step = "idle" /\ job.slots = 0
  BY DEF ShadowInit, Active, Promoted, Idle
<1>4. ShadowTypeOK
  <2>1. arrived \in Seq(0..MaxClock) /\ market \in Seq(Observation) /\ Len(market) = 0
    BY DEF ShadowInit
  <2>2. captures \in [ShadowAudits -> {"none", "pending", "closed"}]
    BY DEF ShadowInit
  <2> QED
    BY <1>1, <1>2, <1>3, <2>1, <2>2, IdleTyped DEF ShadowInit, ShadowTypeOK
<1>5. CandidatesHold
  BY <1>3 DEF ShadowInit, CandidatesHold
<1>6. BindingsHold /\ NoLookAhead
  BY DEF ShadowInit, BindingsHold, NoLookAhead
<1>7. JobHolds
  BY <1>3 DEF JobHolds
<1>8. IsFiniteSet(Promoted) /\ Cardinality({}) = 0
  BY <1>3, FS_EmptySet
<1>9. TrackedIsCaptured /\ CompleteHasEvidence /\ ExpiredIsClosed
  BY <1>3 DEF TrackedIsCaptured, CompleteHasEvidence, ExpiredIsClosed
<1>10. SlotsHold
  <2>1. Current = {}
    BY <1>3 DEF Current
  <2>2. strategy_version \in 0..MaxShadowVersions /\ Promotion = 0
    BY <1>1, <1>3 DEF ShadowInit, Promotion
  <2> QED
    BY <1>3, <1>8, <2>1, <2>2, ShadowConstants DEF SlotsHold
<1> QED
  BY <1>4, <1>5, <1>6, <1>7, <1>8, <1>9, <1>10 DEF ShadowInv

-----------------------------------------------------------------------------
(* The rows have their types.                                              *)

\* What a handler holds between two transactions is a handler's
\* (the locals of _activate_waiting_shadow_candidate, _refresh_shadow_comparisons).
LEMMA JobsTyped ==
  ASSUME ShadowTypeOK
  PROVE  /\ \A n \in Nat, e \in SUBSET Mints :
               [Idle EXCEPT !.step = "selected", !.slots = n, !.excluded = e] \in Job
         /\ Resumed \in Job
         /\ \A c \in Candidates :
               job.slots > 0 => [job EXCEPT !.step = "promoted", !.candidate = c,
                                            !.slots = job.slots - 1] \in Job
         /\ \A c \in Candidates : /\ Dropped(c) \in Job
                                  /\ [job EXCEPT !.final = TRUE, !.candidate = c] \in Job
         /\ \A t \in SUBSET Candidates :
               [job EXCEPT !.step = "activating", !.candidate = "none", !.todo = t] \in Job
         /\ \A n \in 0..MaxObservations : [Idle EXCEPT !.step = "saved", !.obs = n] \in Job
         /\ \A t \in SUBSET Candidates, s \in SUBSET ShadowAudits :
               [job EXCEPT !.step = "activating", !.todo = t, !.audits = s] \in Job
         /\ \A c \in Candidates, a \in ShadowAudits :
               [job EXCEPT !.step = "captured", !.candidate = c, !.audit = a] \in Job
         /\ [job EXCEPT !.step = "activating", !.audit = "none"] \in Job
         /\ [job EXCEPT !.step = "refreshing"] \in Job
         /\ [job EXCEPT !.step = "closing"] \in Job
         /\ \A a \in ShadowAudits : [job EXCEPT !.step = "compared", !.audit = a] \in Job
         /\ \A s \in SUBSET ShadowAudits :
               [Idle EXCEPT !.step = "refreshing", !.audits = s] \in Job
         /\ \A a : Refreshed(a) \in Job
<1>1. job \in Job /\ Idle \in Job
  BY IdleTyped, ShadowFields
<1>0. /\ \A n \in Nat, e \in SUBSET Mints :
            [Idle EXCEPT !.step = "selected", !.slots = n, !.excluded = e] \in Job
      /\ job.slots \in Nat /\ job.excluded \in SUBSET Mints
      /\ \A c \in Candidates, n \in Nat :
            [job EXCEPT !.step = "promoted", !.candidate = c, !.slots = n] \in Job
  BY <1>1 DEF Job
<1>m. job.slots \in Nat => (job.slots > 0 => job.slots - 1 \in Nat)
  OBVIOUS
<1>r. Resumed \in Job /\ (job.slots > 0 => job.slots - 1 \in Nat)
  <2>1. [Idle EXCEPT !.step = "selected", !.slots = job.slots, !.excluded = job.excluded] \in Job
    BY <1>0
  <2>2. Resumed \in Job
    BY <2>1, <1>1 DEF Resumed
  <2> QED
    BY <2>2, <1>0, <1>m
<1>2. /\ \A c \in Candidates : [job EXCEPT !.final = TRUE, !.candidate = c] \in Job
      /\ \A t \in SUBSET Candidates :
            [job EXCEPT !.step = "activating", !.candidate = "none", !.todo = t] \in Job
      /\ \A n \in 0..MaxObservations : [Idle EXCEPT !.step = "saved", !.obs = n] \in Job
  BY <1>1 DEF Job
<1>3. /\ \A t \in SUBSET Candidates, s \in SUBSET ShadowAudits :
            [job EXCEPT !.step = "activating", !.todo = t, !.audits = s] \in Job
      /\ \A c \in Candidates, a \in ShadowAudits :
            [job EXCEPT !.step = "captured", !.candidate = c, !.audit = a] \in Job
  BY <1>1 DEF Job
<1>4. /\ [job EXCEPT !.step = "activating", !.audit = "none"] \in Job
      /\ [job EXCEPT !.step = "refreshing"] \in Job
      /\ [job EXCEPT !.step = "closing"] \in Job
      /\ \A a \in ShadowAudits : [job EXCEPT !.step = "compared", !.audit = a] \in Job
      /\ \A s \in SUBSET ShadowAudits :
            [Idle EXCEPT !.step = "refreshing", !.audits = s] \in Job
  BY <1>1 DEF Job
<1>5. \A c \in Candidates : Dropped(c) \in Job
  BY <1>1 DEF Job, Dropped
<1>6. \A a : Refreshed(a) \in Job
  <2> TAKE a
  <2>1. job.audits \ {a} \in SUBSET ShadowAudits
    BY ShadowFields
  <2> QED
    BY <2>1, <1>1, <1>4 DEF Refreshed
<1> QED
  BY <1>0, <1>r, <1>2, <1>3, <1>4, <1>5, <1>6

\* The types, split into columns and the links between them.
LEMMA TypeSplit ==
  ShadowTypeOK <=>
    /\ RowsTyped
    /\ \A a \in ShadowAudits : captures[a] # "none" =>
                                   shadow_audits[a].status \in {"ready", "stale"}
    /\ \A c \in Candidates :
          /\ candidates[c].state # "none" => candidates[c].mint = intents[c].mint
          /\ candidates[c].state \in {"tracking_shadow", "complete"} =>
                captures[candidates[c].audit] # "none"
BY DEF ShadowTypeOK, RowsTyped

\* The head of a queue and the rest of it.
LEMMA QueueTyped ==
  ASSUME NEW S, NEW q \in Seq(S), q # <<>>
  PROVE  Head(q) \in S /\ Tail(q) \in Seq(S)
OBVIOUS

\* Each step keeps the columns typed (models.py and the tables of storage.py).
LEMMA RowsStep ==
  ASSUME ShadowInv, ShadowNext
  PROVE  RowsTyped'
<1> USE DEF worldVars, quoteVars
<1>a. ShadowTypeOK /\ RowsTyped
  BY TypeSplit DEF ShadowInv
<1>b. /\ Expired \in [Candidates -> Candidate]
      /\ ClosedWith \in [ShadowAudits -> {"none", "pending", "closed"}]
      /\ Normalized \in [ShadowAudits -> {"none", "pending", "closed"}]
  BY <1>a, ExpiryFields, NormalizedFields
<1>c. clock \in 0..MaxClock /\ strategy_version \in 0..MaxShadowVersions
  BY <1>a DEF RowsTyped
<1>1. CASE expire_shadow_tracking_candidates
  BY <1>1, <1>a, <1>b DEF expire_shadow_tracking_candidates, RowsTyped
<1>2. CASE save_shadow_tracking_candidate
  <2> DEFINE c == job.candidate
             row == [state |-> "awaiting_entry", mint |-> intents[c].mint,
                     version |-> strategy_version, deadline |-> clock + EntryWindow,
                     audit |-> "none"]
  <2>1. c \in Candidates /\ intents[c].mint \in Mints
    BY <1>2 DEF ShadowInv, JobHolds, save_shadow_tracking_candidate
  <2>2. row \in Candidate
    BY <2>1, <1>c, DeadlinesTyped DEF Candidate
  <2>3. candidates' = [candidates EXCEPT ![c] = row]
    BY <1>2 DEF save_shadow_tracking_candidate
  <2>4. candidates' \in [Candidates -> Candidate]
    BY <2>2, <2>3, <1>a DEF RowsTyped
  <2>5. {c} \cup Waiting(intents[c].mint, strategy_version) \in SUBSET Candidates
    BY <2>1 DEF Waiting, Active
  <2>6. job' \in Job
    BY <1>2, <2>5, <1>a, JobsTyped DEF save_shadow_tracking_candidate
  <2> QED
    BY <1>2, <2>4, <2>6, <1>a DEF save_shadow_tracking_candidate, RowsTyped
<1>3. CASE bind_accepted_market_observation
  <2>1. job.obs \in 1..MaxObservations
    BY <1>3, <1>a, MarketIndexed
    DEF ShadowInv, JobHolds, bind_accepted_market_observation
  <2>2. bindings' \subseteq [audit: ShadowAudits, obs: 1..MaxObservations, role: {"entry", "path"}]
    BY <1>3, <2>1, <1>a DEF bind_accepted_market_observation, RowsTyped
  <2>3. {b.audit : b \in {x \in bindings' : x.obs = job.obs}} \in SUBSET ShadowAudits
    BY <2>2
  <2>4. \A m, v : Waiting(m, v) \ Expiring \in SUBSET Candidates
    BY DEF Waiting, Active
  <2>5. job' \in Job
    BY <1>3, <2>3, <2>4, <1>a, JobsTyped DEF bind_accepted_market_observation
  <2> QED
    BY <1>3, <2>2, <2>5, <1>a, <1>b DEF bind_accepted_market_observation, RowsTyped
<1>4. CASE save_quoted_intent
  <2> DEFINE c == job.candidate
  <2>1. c \in Candidates /\ job.audit \in ShadowAudits
    BY <1>4, <1>a, ShadowFields DEF ShadowInv, JobHolds, save_quoted_intent
  <2>2. \A s \in {"quoted", "blocked"} :
           [intents[c] EXCEPT !.audit = job.audit, !.status = s] \in Intent
    <3>1. intents[c] \in Intent
      BY <2>1, <1>a, ShadowFields
    <3> QED
      BY <3>1, <2>1 DEF Intent
  <2>3. intents' \in [Candidates -> Intent]
    BY <1>4, <2>1, <2>2, <1>a DEF save_quoted_intent, RowsTyped
  <2>4. job' \in Job
    BY <1>4, <1>a, JobsTyped DEF save_quoted_intent
  <2> QED
    BY <1>4, <2>3, <2>4, <1>a DEF save_quoted_intent, RowsTyped
<1>5. CASE activation_is_over
  <2>1. job' \in Job
    BY <1>5, <1>a, JobsTyped DEF activation_is_over
  <2> QED
    BY <1>5, <2>1, <1>a DEF activation_is_over, RowsTyped
<1>6. CASE close_pending_shadow_audit_capture
  <2>1. captures' \in [ShadowAudits -> {"none", "pending", "closed"}]
    BY <1>6, <1>a DEF close_pending_shadow_audit_capture, RowsTyped
  <2>2. job' \in Job
    BY <1>6, <1>a, JobsTyped DEF close_pending_shadow_audit_capture
  <2> QED
    BY <1>6, <2>1, <2>2, <1>a DEF close_pending_shadow_audit_capture, RowsTyped
<1>7. CASE complete_shadow_candidates
  <2>1. job.audit \in ShadowAudits /\ clock \in 0..(MaxClock + EntryWindow + TrackWindow)
    BY <1>7, <1>c, DeadlinesTyped DEF ShadowInv, JobHolds, complete_shadow_candidates
  <2>2. \A c \in Candidates :
          [candidates[c] EXCEPT !.state = "complete", !.audit = job.audit, !.deadline = clock]
             \in Candidate
    BY <2>1, <1>a, ShadowFields DEF Candidate
  <2>3. candidates' \in [Candidates -> Candidate]
    BY <1>7, <2>2, <1>a DEF complete_shadow_candidates, RowsTyped
  <2>4. job' \in Job
    BY <1>7, <1>a, JobsTyped DEF complete_shadow_candidates
  <2> QED
    BY <1>7, <2>3, <2>4, <1>a DEF complete_shadow_candidates, RowsTyped
<1>8. CASE shadow_report
  <2>1. {a \in ShadowAudits : captures[a] # "none"} \in SUBSET ShadowAudits
    OBVIOUS
  <2>2. job' \in Job
    BY <1>8, <2>1, <1>a, JobsTyped DEF shadow_report
  <2> QED
    BY <1>8, <2>2, <1>a, <1>b DEF shadow_report, RowsTyped
<1>9. ASSUME NEW c \in Candidates, NEW m \in Mints, save_live_intent(c, m)
      PROVE  RowsTyped'
  <2>1. [status |-> "open", mint |-> m, audit |-> "none"] \in Intent
    BY DEF Intent
  <2>2. intents' \in [Candidates -> Intent]
    BY <1>9, <2>1, <1>a DEF save_live_intent, RowsTyped
  <2>3. job' \in Job
    BY <1>9, <1>a, JobsTyped DEF save_live_intent
  <2> QED
    BY <1>9, <2>2, <2>3, <1>a DEF save_live_intent, RowsTyped
<1>21. CASE generate_live_intents
  <2>1. PICK free \in 1..Cap[strategy_version] :
           job' = [Idle EXCEPT !.step = "selected", !.slots = free, !.excluded = AtHand]
    BY <1>21 DEF generate_live_intents
  <2>2. free \in Nat /\ AtHand \in SUBSET Mints
    BY <1>a, ShadowFields DEF AtHand
  <2>3. job' \in Job
    BY <2>1, <2>2, <1>a, JobsTyped
  <2> QED
    BY <1>21, <2>3, <1>a, <1>b DEF generate_live_intents, RowsTyped
<1>22. CASE promotion_is_over
  BY <1>22, <1>a, IdleTyped DEF promotion_is_over, RowsTyped
<1>10. ASSUME NEW c \in Candidates, NEW a \in ShadowAudits,
              NEW answer \in {"ready", "blocked", "raises"}, quote_shadow_intent(c, a, answer)
       PROVE  RowsTyped'
  <2> DEFINE m == intents[c].mint
  <2>0. \/ job' = Dropped(c)
        \/ job' = [job EXCEPT !.step = "captured", !.candidate = c, !.audit = a]
    BY <1>10 DEF quote_shadow_intent
  <2>e. /\ Dropped(c) \in Job
        /\ [job EXCEPT !.step = "captured", !.candidate = c, !.audit = a] \in Job
    BY <1>a, JobsTyped
  <2>1. job' \in Job
    BY <2>0, <2>e
  <2>2. m \in Mints \cup {"none"}
    BY <1>a, ShadowFields
  <2>3. \A s \in {"ready", "blocked"} : Quote(m, s) \in ShadowAudit
    BY <2>2, <1>c DEF Quote, ShadowAudit
  <2>4. CASE answer = "raises" \/ intents[c].status = "cancelled"
    BY <1>10, <2>4, <2>1, <1>a DEF quote_shadow_intent, RowsTyped
  <2>5. CASE ~(answer = "raises" \/ intents[c].status = "cancelled") /\ answer = "ready"
    <3>1. /\ captures' = [captures EXCEPT ![a] = "pending"]
          /\ bindings' = bindings \cup
                [audit: {a}, obs: EntryOf(m, strategy_version, clock), role: {"entry"}]
          /\ shadow_audits' = [shadow_audits EXCEPT ![a] = Quote(m, "ready")]
      BY <1>10, <2>5 DEF quote_shadow_intent, save_shadow_quote_audit_capture
    <3>2. EntryOf(m, strategy_version, clock) \subseteq 1..MaxObservations
      BY <1>a, MarketIndexed DEF EntryOf, ReceivedBy
    <3>3. bindings' \subseteq [audit: ShadowAudits, obs: 1..MaxObservations, role: {"entry", "path"}]
      BY <3>1, <3>2, <1>a DEF RowsTyped
    <3>4. /\ captures' \in [ShadowAudits -> {"none", "pending", "closed"}]
          /\ shadow_audits' \in [ShadowAudits -> ShadowAudit]
      BY <3>1, <2>3, <1>a DEF RowsTyped
    <3> QED
      BY <1>10, <2>5, <2>1, <3>3, <3>4, <1>a DEF quote_shadow_intent, RowsTyped
  <2>6. CASE ~(answer = "raises" \/ intents[c].status = "cancelled") /\ answer # "ready"
    <3>1. shadow_audits' = [shadow_audits EXCEPT ![a] = Quote(m, "blocked")]
      BY <1>10, <2>6 DEF quote_shadow_intent
    <3>2. shadow_audits' \in [ShadowAudits -> ShadowAudit]
      BY <3>1, <2>3, <1>a DEF RowsTyped
    <3> QED
      BY <1>10, <2>6, <2>1, <3>2, <1>a DEF quote_shadow_intent, RowsTyped
  <2> QED
    BY <2>4, <2>5, <2>6
<1>11. ASSUME NEW c \in Candidates, discard_invalid_audit(c)
       PROVE  RowsTyped'
  <2>1. [intents[c] EXCEPT !.audit = "none", !.status = "open"] \in Intent
    <3>1. intents[c] \in Intent
      BY <1>a, ShadowFields
    <3> QED
      BY <3>1 DEF Intent
  <2>2. intents' \in [Candidates -> Intent]
    BY <1>11, <2>1, <1>a DEF discard_invalid_audit, RowsTyped
  <2>3. job' \in Job
    BY <1>11, <1>a, JobsTyped DEF discard_invalid_audit
  <2> QED
    BY <1>11, <2>2, <2>3, <1>a DEF discard_invalid_audit, RowsTyped
<1>12. ASSUME NEW c \in Candidates, track_shadow_candidate(c)
       PROVE  RowsTyped'
  <2> DEFINE a == intents[c].audit
  <2>1. a \in ShadowAudits
    BY <1>12, <1>a, ShadowFields DEF track_shadow_candidate, ValidAudit
  <2>2. shadow_audits[a].quoted + TrackWindow \in 0..(MaxClock + EntryWindow + TrackWindow)
    BY <2>1, <1>a, ShadowFields, DeadlinesTyped
  <2>3. [candidates[c] EXCEPT !.state = "tracking_shadow", !.audit = a,
                              !.deadline = shadow_audits[a].quoted + TrackWindow] \in Candidate
    BY <2>1, <2>2, <1>a, ShadowFields DEF Candidate
  <2>4. candidates' \in [Candidates -> Candidate]
    BY <1>12, <2>3, <1>a DEF track_shadow_candidate, RowsTyped
  <2>5. job' \in Job
    BY <1>12, <1>a, JobsTyped DEF track_shadow_candidate
  <2> QED
    BY <1>12, <2>4, <2>5, <1>a DEF track_shadow_candidate, RowsTyped
<1>13. ASSUME NEW c \in Candidates, cancel_live_intent(c)
       PROVE  RowsTyped'
  <2>1. intents' = [intents EXCEPT ![c] = [intents[c] EXCEPT !.status = "cancelled"]]
    BY <1>13 DEF cancel_live_intent
  <2>2. [intents[c] EXCEPT !.status = "cancelled"] \in Intent
    <3>1. intents[c] \in Intent
      BY <1>a, ShadowFields
    <3> QED
      BY <3>1 DEF Intent
  <2>3. intents' \in [Candidates -> Intent]
    BY <2>1, <2>2, <1>a DEF RowsTyped
  <2> QED
    BY <1>13, <2>3, <1>a DEF cancel_live_intent, RowsTyped
<1>14. ASSUME NEW m \in Mints, NEW clean \in BOOLEAN, NEW exits \in BOOLEAN,
              save_accepted_market_observation(m, clean, exits)
       PROVE  RowsTyped'
  <2>1. /\ arrived \in Seq(0..MaxClock) /\ arrived # <<>>
        /\ market \in Seq(Observation) /\ Len(market) < MaxObservations
    BY <1>14, <1>a DEF save_accepted_market_observation, RowsTyped
  <2>2. Head(arrived) \in 0..MaxClock /\ Tail(arrived) \in Seq(0..MaxClock)
    BY <2>1, QueueTyped
  <2>3. [mint |-> m, version |-> strategy_version, received |-> Head(arrived),
         clean |-> clean, exits |-> exits] \in Observation
    BY <2>2, <1>c DEF Observation
  <2>4. /\ market' \in Seq(Observation) /\ Len(market') = Len(market) + 1
        /\ Len(market) + 1 \in 0..MaxObservations
    BY <1>14, <2>1, <2>3, ShadowConstants DEF save_accepted_market_observation
  <2>5. Len(market') <= MaxObservations
    BY <2>4, ShadowConstants
  <2>6. job' \in Job
    BY <1>14, <2>4, <1>a, JobsTyped DEF save_accepted_market_observation
  <2> QED
    BY <1>14, <2>2, <2>4, <2>5, <2>6, <1>a DEF save_accepted_market_observation, RowsTyped
<1>15. ASSUME NEW a \in ShadowAudits, NEW economic \in BOOLEAN,
              persist_economic_comparison(a, economic)
       PROVE  RowsTyped'
  <2>1. EntryBound(a) \subseteq 1..MaxObservations /\ PathBound(a) \subseteq 1..MaxObservations
    BY <1>a DEF EntryBound, PathBound, RowsTyped
  <2>2. ExitsOf(a) \subseteq 1..MaxObservations
    BY <2>1 DEF ExitsOf
  <2>3. [audit: {a}, entry: EntryBound(a), exit: ExitsOf(a)] \subseteq
           [audit: ShadowAudits, entry: 1..MaxObservations, exit: 1..MaxObservations]
    BY <2>1, <2>2
  <2>4. comparisons' \subseteq [audit: ShadowAudits, entry: 1..MaxObservations,
                                exit: 1..MaxObservations]
    BY <1>15, <2>3, <1>a DEF persist_economic_comparison, RowsTyped
  <2>5. job' \in Job
    BY <1>15, <1>a, JobsTyped DEF persist_economic_comparison
  <2> QED
    BY <1>15, <2>4, <2>5, <1>a DEF persist_economic_comparison, RowsTyped
<1>16. ASSUME NEW a \in ShadowAudits, QuoteExpires(a)
       PROVE  RowsTyped'
  <2>1. shadow_audits' = [shadow_audits EXCEPT ![a] = [shadow_audits[a] EXCEPT !.status = "stale"]]
    BY <1>16 DEF QuoteExpires
  <2>2. [shadow_audits[a] EXCEPT !.status = "stale"] \in ShadowAudit
    BY <1>a, ShadowFields DEF ShadowAudit
  <2>3. shadow_audits' \in [ShadowAudits -> ShadowAudit]
    BY <2>1, <2>2, <1>a DEF RowsTyped
  <2>4. \A c \in Candidates : [intents[c] EXCEPT !.status = "expired"] \in Intent
    BY <1>a, ShadowFields DEF Intent
  <2>5. intents' \in [Candidates -> Intent]
    BY <1>16, <2>4, <1>a DEF QuoteExpires, RowsTyped
  <2> QED
    BY <1>16, <2>3, <2>5, <1>a DEF QuoteExpires, RowsTyped
<1>17. CASE EventArrives
  <2>1. arrived' \in Seq(0..MaxClock)
    BY <1>17, <1>a, <1>c DEF EventArrives, RowsTyped
  <2> QED
    BY <1>17, <2>1, <1>a DEF EventArrives, RowsTyped
<1>18. CASE TimePasses
  <2>1. clock' \in 0..MaxClock
    BY <1>18, <1>c, ShadowConstants DEF TimePasses
  <2> QED
    BY <1>18, <2>1, <1>a DEF TimePasses, RowsTyped
<1>19. CASE strategy_version_changes
  <2>1. strategy_version' \in 0..MaxShadowVersions
    BY <1>19, <1>c, ShadowConstants DEF strategy_version_changes
  <2> QED
    BY <1>19, <2>1, <1>a DEF strategy_version_changes, RowsTyped
<1>20. CASE ShadowCrash
  <2>1. shadow_crashes' \in 0..MaxShadowCrashes /\ arrived' \in Seq(0..MaxClock)
    BY <1>20, <1>a, ShadowConstants DEF ShadowCrash, RowsTyped
  <2> QED
    BY <1>20, <2>1, <1>a, <1>b, IdleTyped DEF ShadowCrash, RowsTyped
<1> QED
  BY <1>1, <1>2, <1>3, <1>4, <1>5, <1>6, <1>7, <1>8, <1>9, <1>10, <1>11, <1>12, <1>13, <1>14,
     <1>15, <1>16, <1>17, <1>18, <1>19, <1>20, <1>21, <1>22 DEF ShadowNext

-----------------------------------------------------------------------------
(* Which step changes which rows, and how.                                 *)

\* The steps that write each table (storage.py).
LEMMA Writers ==
  ASSUME ShadowNext
  PROVE  /\ \/ market' = market
            \/ \E m \in Mints, clean, exits \in BOOLEAN :
                  save_accepted_market_observation(m, clean, exits)
         /\ \/ shadow_audits' = shadow_audits
            \/ \E c \in Candidates, a \in ShadowAudits, answer \in {"ready", "blocked", "raises"} :
                  quote_shadow_intent(c, a, answer)
            \/ \E a \in ShadowAudits : QuoteExpires(a)
         /\ \/ bindings' = bindings
            \/ bind_accepted_market_observation
            \/ \E c \in Candidates, a \in ShadowAudits, answer \in {"ready", "blocked", "raises"} :
                  quote_shadow_intent(c, a, answer)
         /\ \/ comparisons' = comparisons
            \/ \E a \in ShadowAudits, economic \in BOOLEAN : persist_economic_comparison(a, economic)
         /\ \/ captures' \in {captures, Normalized}
            \/ captures' = ClosedWith /\ candidates' = Expired
            \/ close_pending_shadow_audit_capture
            \/ \E c \in Candidates, a \in ShadowAudits, answer \in {"ready", "blocked", "raises"} :
                  quote_shadow_intent(c, a, answer)
         /\ strategy_version' = strategy_version \/ strategy_version_changes
<1> USE DEF worldVars, quoteVars
<1> DEFINE Observes == \E m \in Mints, clean, exits \in BOOLEAN :
                          save_accepted_market_observation(m, clean, exits)
           Quotes == \E c \in Candidates, a \in ShadowAudits,
                        answer \in {"ready", "blocked", "raises"} : quote_shadow_intent(c, a, answer)
           Expires == \E a \in ShadowAudits : QuoteExpires(a)
           Persists == \E a \in ShadowAudits, economic \in BOOLEAN :
                          persist_economic_comparison(a, economic)
           Alone == /\ market' = market /\ shadow_audits' = shadow_audits
                    /\ bindings' = bindings /\ comparisons' = comparisons
                    /\ captures' = captures /\ strategy_version' = strategy_version
<1>1. CASE expire_shadow_tracking_candidates \/ generate_live_intents
  BY <1>1 DEF expire_shadow_tracking_candidates, generate_live_intents
<1>2. CASE \/ save_shadow_tracking_candidate \/ save_quoted_intent \/ activation_is_over
           \/ complete_shadow_candidates \/ promotion_is_over
           \/ \E c \in Candidates, m \in Mints : save_live_intent(c, m)
  <2>1. Alone
    BY <1>2 DEF save_shadow_tracking_candidate, save_quoted_intent, activation_is_over,
                complete_shadow_candidates, promotion_is_over, save_live_intent
  <2> QED
    BY <2>1
<1>3. CASE bind_accepted_market_observation \/ close_pending_shadow_audit_capture
  BY <1>3 DEF bind_accepted_market_observation, close_pending_shadow_audit_capture
<1>4. CASE shadow_report \/ ShadowCrash
  BY <1>4 DEF shadow_report, ShadowCrash
<1>5. CASE Quotes
  <2>1. market' = market /\ comparisons' = comparisons /\ strategy_version' = strategy_version
    BY <1>5 DEF quote_shadow_intent
  <2> QED
    BY <1>5, <2>1
<1>6. CASE \E c \in Candidates : discard_invalid_audit(c) \/ track_shadow_candidate(c)
                                  \/ cancel_live_intent(c)
  <2>1. Alone
    BY <1>6 DEF discard_invalid_audit, track_shadow_candidate, cancel_live_intent
  <2> QED
    BY <2>1
<1>7. CASE Observes
  <2>1. /\ shadow_audits' = shadow_audits /\ bindings' = bindings /\ comparisons' = comparisons
        /\ captures' = captures /\ strategy_version' = strategy_version
    BY <1>7 DEF save_accepted_market_observation
  <2> QED
    BY <1>7, <2>1
<1>8. CASE Persists
  <2>1. /\ market' = market /\ shadow_audits' = shadow_audits /\ bindings' = bindings
        /\ captures' = captures /\ strategy_version' = strategy_version
    BY <1>8 DEF persist_economic_comparison
  <2> QED
    BY <1>8, <2>1
<1>9. CASE Expires
  <2>1. /\ market' = market /\ bindings' = bindings /\ comparisons' = comparisons
        /\ captures' = captures /\ strategy_version' = strategy_version
    BY <1>9 DEF QuoteExpires
  <2> QED
    BY <1>9, <2>1
<1>10. CASE EventArrives \/ TimePasses
  <2>1. Alone
    BY <1>10 DEF EventArrives, TimePasses
  <2> QED
    BY <2>1
<1>11. CASE strategy_version_changes
  BY <1>11 DEF strategy_version_changes
<1> QED
  BY <1>1, <1>2, <1>3, <1>4, <1>5, <1>6, <1>7, <1>8, <1>9, <1>10, <1>11 DEF ShadowNext

\* Observations and quotes stay as they were made, and a capture that was opened
\* and closed stays closed (save_accepted_market_observation, save_shadow_quote_audit_capture).
LEMMA Growth ==
  ASSUME ShadowTypeOK, RowsTyped', ShadowNext
  PROVE  MarketKept /\ QuotesKept /\ CapturesKept
<1>1. MarketKept
  <2>1. CASE market' = market
    BY <2>1 DEF MarketKept
  <2>2. ASSUME NEW m \in Mints, NEW clean \in BOOLEAN, NEW exits \in BOOLEAN,
               save_accepted_market_observation(m, clean, exits)
        PROVE  MarketKept
    <3> DEFINE o == [mint |-> m, version |-> strategy_version, received |-> Head(arrived),
                     clean |-> clean, exits |-> exits]
    <3>1. market' = Append(market, o) /\ market \in Seq(Observation)
      BY <2>2 DEF save_accepted_market_observation, ShadowTypeOK
    <3>2. /\ DOMAIN market = 1..Len(market) /\ Len(market) \in Nat
          /\ DOMAIN market' = 1..(Len(market) + 1)
          /\ \A i \in 1..Len(market) : market'[i] = market[i]
      <4> HIDE DEF o
      <4> QED
        BY <3>1
    <3> QED
      BY <3>2 DEF MarketKept
  <2> QED
    BY <2>1, <2>2, Writers
<1>2. ASSUME NEW c \in Candidates, NEW a \in ShadowAudits,
             NEW answer \in {"ready", "blocked", "raises"}, quote_shadow_intent(c, a, answer)
      PROVE  /\ \A b \in ShadowAudits \ {a} :
                   shadow_audits'[b] = shadow_audits[b] /\ captures'[b] = captures[b]
             /\ \/ shadow_audits[a].status = "none" /\ captures[a] = "none"
                \/ shadow_audits'[a] = shadow_audits[a] /\ captures'[a] = captures[a]
  <2>1. /\ captures \in [ShadowAudits -> {"none", "pending", "closed"}]
        /\ shadow_audits \in [ShadowAudits -> ShadowAudit]
        /\ shadow_audits[a].status = "none" => captures[a] = "none"
    BY DEF ShadowTypeOK
  <2>2. CASE answer = "raises" \/ intents[c].status = "cancelled"
    BY <1>2, <2>2 DEF quote_shadow_intent, quoteVars
  <2>3. CASE ~(answer = "raises" \/ intents[c].status = "cancelled") /\ answer = "ready"
    <3>1. /\ shadow_audits[a].status = "none"
          /\ captures' = [captures EXCEPT ![a] = "pending"]
          /\ shadow_audits' = [shadow_audits EXCEPT ![a] = Quote(intents[c].mint, "ready")]
      BY <1>2, <2>3 DEF quote_shadow_intent, save_shadow_quote_audit_capture
    <3> QED
      BY <3>1, <2>1
  <2>4. CASE ~(answer = "raises" \/ intents[c].status = "cancelled") /\ answer # "ready"
    <3>1. /\ shadow_audits[a].status = "none"
          /\ captures' = captures
          /\ shadow_audits' = [shadow_audits EXCEPT ![a] = Quote(intents[c].mint, answer)]
      BY <1>2, <2>4 DEF quote_shadow_intent
    <3> QED
      BY <3>1, <2>1
  <2> QED
    BY <2>2, <2>3, <2>4
<1>3. QuotesKept
  <2>1. CASE shadow_audits' = shadow_audits
    BY <2>1 DEF QuotesKept
  <2>2. ASSUME NEW a \in ShadowAudits, QuoteExpires(a)
        PROVE  QuotesKept
    <3>1. shadow_audits' = [shadow_audits EXCEPT ![a] =
                               [shadow_audits[a] EXCEPT !.status = "stale"]]
      BY <2>2 DEF QuoteExpires
    <3>2. shadow_audits \in [ShadowAudits -> ShadowAudit] /\ shadow_audits[a] \in ShadowAudit
      BY DEF ShadowTypeOK
    <3>3. /\ shadow_audits'[a].status = "stale"
          /\ shadow_audits'[a].mint = shadow_audits[a].mint
          /\ shadow_audits'[a].version = shadow_audits[a].version
          /\ shadow_audits'[a].quoted = shadow_audits[a].quoted
      BY <3>1, <3>2 DEF ShadowAudit
    <3>4. \A b \in ShadowAudits \ {a} : shadow_audits'[b] = shadow_audits[b]
      BY <3>1, <3>2
    <3> QED
      BY <3>3, <3>4 DEF QuotesKept
  <2>3. ASSUME NEW c \in Candidates, NEW a \in ShadowAudits,
               NEW answer \in {"ready", "blocked", "raises"}, quote_shadow_intent(c, a, answer)
        PROVE  QuotesKept
    BY <2>3, <1>2 DEF QuotesKept
  <2> QED
    BY <2>1, <2>2, <2>3, Writers
<1>4. CapturesKept
  <2>1. CASE captures' \in {captures, ClosedWith, Normalized}
    BY <2>1, ExpiryFields, NormalizedFields DEF CapturesKept
  <2>2. CASE close_pending_shadow_audit_capture
    <3>1. /\ captures' = [captures EXCEPT ![job.audit] = IF @ = "pending" THEN "closed" ELSE @]
          /\ captures \in [ShadowAudits -> {"none", "pending", "closed"}]
      BY <2>2 DEF close_pending_shadow_audit_capture, ShadowTypeOK
    <3> QED
      BY <3>1 DEF CapturesKept
  <2>3. ASSUME NEW c \in Candidates, NEW a \in ShadowAudits,
               NEW answer \in {"ready", "blocked", "raises"}, quote_shadow_intent(c, a, answer)
        PROVE  CapturesKept
    BY <2>3, <1>2 DEF CapturesKept
  <2> QED
    BY <2>1, <2>2, <2>3, Writers
<1> QED
  BY <1>1, <1>3, <1>4

\* What a step does to a candidate: it expires, is saved, tracked or completed
\* (transition_shadow_tracking_candidate).
CandidateMoves(c) ==
    \/ candidates'[c] = candidates[c]
    \/ /\ c \in Expiring /\ captures' = ClosedWith
       /\ intents'[c] = intents[c]
       /\ candidates'[c].state = "expired"
       /\ candidates'[c].mint = candidates[c].mint
       /\ candidates'[c].version = candidates[c].version
       /\ candidates'[c].audit = candidates[c].audit
    \/ /\ save_shadow_tracking_candidate /\ c = job.candidate
       /\ candidates[c].state = "none"
       /\ intents'[c] = intents[c] /\ intents[c].status # "none"
       /\ candidates'[c].state = "awaiting_entry"
       /\ candidates'[c].mint = intents[c].mint
       /\ candidates'[c].version = strategy_version
       /\ candidates'[c].audit = "none"
    \/ /\ track_shadow_candidate(c) /\ ValidAudit(intents[c].audit)
       /\ candidates[c].state = "awaiting_entry"
       /\ intents'[c] = intents[c]
       /\ candidates'[c].state = "tracking_shadow"
       /\ candidates'[c].mint = candidates[c].mint
       /\ candidates'[c].version = candidates[c].version
       /\ candidates'[c].audit = intents[c].audit
    \/ /\ complete_shadow_candidates /\ candidates[c].state = "tracking_shadow"
       /\ candidates[c].audit = job.audit
       /\ intents'[c] = intents[c]
       /\ candidates'[c].state = "complete"
       /\ candidates'[c].mint = candidates[c].mint
       /\ candidates'[c].version = candidates[c].version
       /\ candidates'[c].audit = candidates[c].audit

\* What it does to an intent: it is promoted, named its audit, given a new one,
\* or only its status changes.
IntentMoves(c) ==
    \/ intents'[c] = intents[c]
    \/ /\ intents[c].status # "none" /\ intents'[c].status # "none"
       /\ intents'[c].mint = intents[c].mint
       /\ intents'[c].audit = intents[c].audit
    \/ /\ intents[c].status = "none" /\ intents'[c].status # "none"
       /\ intents'[c].audit = "none"
       /\ candidates'[c] = candidates[c]
    \/ /\ save_quoted_intent /\ c = job.candidate
       /\ intents'[c].status # "none"
       /\ intents'[c].mint = intents[c].mint
       /\ intents'[c].audit = job.audit
    \/ /\ candidates[c].state = "awaiting_entry"
       /\ intents'[c].status # "none"
       /\ intents'[c].mint = intents[c].mint
       /\ intents'[c].audit = "none"

\* An expiry moves a candidate as CandidateMoves says, unless its intent is new.
LEMMA ExpiryMoves ==
  ASSUME ShadowTypeOK, NEW c \in Candidates, candidates' = Expired, captures' = ClosedWith,
         c \in Expiring => intents'[c] = intents[c]
  PROVE  CandidateMoves(c)
<1>1. CASE c \in Expiring
  BY <1>1, ExpiryFields DEF CandidateMoves
<1>2. CASE c \notin Expiring
  BY <1>2, ExpiryFields DEF CandidateMoves
<1> QED
  BY <1>1, <1>2

\* A candidate whose intent is not there is not under way.
LEMMA ExpiringIsActive ==
  \A c \in Expiring : /\ c \in Active /\ c \in Candidates
                      /\ candidates[c].state \in {"awaiting_entry", "tracking_shadow"}
BY DEF Expiring, Active

\* Every step moves each candidate and each intent in one of these ways.
LEMMA Moves ==
  ASSUME ShadowInv, ShadowNext, NEW c \in Candidates
  PROVE  CandidateMoves(c) /\ IntentMoves(c)
<1> USE DEF worldVars, quoteVars
<1>a. ShadowTypeOK /\ CandidatesHold /\ JobHolds
  BY DEF ShadowInv
<1>b. /\ candidates \in [Candidates -> Candidate] /\ intents \in [Candidates -> Intent]
      /\ candidates[c] \in Candidate /\ intents[c] \in Intent
  BY <1>a DEF ShadowTypeOK
<1>c. intents[c].status = "none" => candidates[c].state = "none" /\ intents[c].audit = "none"
  BY <1>a DEF CandidatesHold
<1>1. CASE \/ expire_shadow_tracking_candidates \/ bind_accepted_market_observation
           \/ generate_live_intents
  <2>1. candidates' = Expired /\ captures' = ClosedWith /\ intents' = intents
    BY <1>1 DEF expire_shadow_tracking_candidates, bind_accepted_market_observation,
                generate_live_intents
  <2>2. CandidateMoves(c)
    BY <2>1, <1>a, ExpiryMoves
  <2> QED
    BY <2>1, <2>2 DEF IntentMoves
<1>2. CASE save_shadow_tracking_candidate
  <2>1. /\ intents' = intents
        /\ candidates' = [candidates EXCEPT ![job.candidate] =
              [state |-> "awaiting_entry", mint |-> intents[job.candidate].mint,
               version |-> strategy_version, deadline |-> clock + EntryWindow, audit |-> "none"]]
    BY <1>2 DEF save_shadow_tracking_candidate
  <2>2. candidates[job.candidate].state = "none" /\ intents[job.candidate].status # "none"
    BY <1>2, <1>a DEF save_shadow_tracking_candidate, JobHolds
  <2>3. CASE c = job.candidate
    BY <1>2, <2>1, <2>2, <2>3, <1>b DEF CandidateMoves, IntentMoves
  <2>4. CASE c # job.candidate
    BY <2>1, <2>4, <1>b DEF CandidateMoves, IntentMoves
  <2> QED
    BY <2>3, <2>4
<1>3. CASE save_quoted_intent
  <2> DEFINE s == IF shadow_audits[job.audit].status = "ready" THEN "quoted" ELSE "blocked"
  <2>1. /\ candidates' = candidates
        /\ intents' = [intents EXCEPT ![job.candidate] =
                          [intents[job.candidate] EXCEPT !.audit = job.audit, !.status = s]]
    BY <1>3 DEF save_quoted_intent
  <2>2. s # "none"
    OBVIOUS
  <2>3. CASE c = job.candidate
    <3> HIDE DEF s
    <3>1. intents'[c] = [intents[c] EXCEPT !.audit = job.audit, !.status = s]
      BY <2>1, <2>3, <1>b
    <3>2. intents'[c].audit = job.audit /\ intents'[c].status = s /\ intents'[c].mint = intents[c].mint
      BY <3>1, <1>b DEF Intent
    <3> QED
      BY <3>2, <1>3, <2>1, <2>2, <2>3 DEF CandidateMoves, IntentMoves
  <2>4. CASE c # job.candidate
    BY <2>1, <2>4, <1>b DEF CandidateMoves, IntentMoves
  <2> QED
    BY <2>3, <2>4
<1>4. CASE complete_shadow_candidates
  <2>1. /\ intents' = intents
        /\ candidates'[c] = IF Tracks(c, job.audit)
                            THEN [candidates[c] EXCEPT !.state = "complete", !.audit = job.audit,
                                                       !.deadline = clock]
                            ELSE candidates[c]
    BY <1>4 DEF complete_shadow_candidates
  <2>2. CASE Tracks(c, job.audit)
    <3>1. /\ candidates'[c].state = "complete" /\ candidates'[c].audit = job.audit
          /\ candidates'[c].mint = candidates[c].mint
          /\ candidates'[c].version = candidates[c].version
      BY <2>1, <2>2, <1>b DEF Candidate
    <3> QED
      BY <3>1, <1>4, <2>1, <2>2 DEF Tracks, CandidateMoves, IntentMoves
  <2>3. CASE ~Tracks(c, job.audit)
    BY <2>1, <2>3 DEF CandidateMoves, IntentMoves
  <2> QED
    BY <2>2, <2>3
<1>5. ASSUME NEW d \in Candidates, NEW m \in Mints, save_live_intent(d, m)
      PROVE  CandidateMoves(c) /\ IntentMoves(c)
  <2>1. /\ candidates' = candidates /\ intents[d].status = "none"
        /\ intents' = [intents EXCEPT ![d] = [status |-> "open", mint |-> m, audit |-> "none"]]
    BY <1>5 DEF save_live_intent
  <2>2. CASE c = d
    <3>1. intents'[c].status = "open" /\ intents'[c].audit = "none"
      BY <2>1, <2>2, <1>b
    <3> QED
      BY <3>1, <2>1, <2>2 DEF CandidateMoves, IntentMoves
  <2>3. CASE c # d
    BY <2>1, <2>3, <1>b DEF CandidateMoves, IntentMoves
  <2> QED
    BY <2>2, <2>3
<1>6. ASSUME NEW d \in Candidates, discard_invalid_audit(d)
      PROVE  CandidateMoves(c) /\ IntentMoves(c)
  <2>1. /\ candidates' = candidates
        /\ \/ intents' = intents
           \/ intents' = [intents EXCEPT ![d] =
                             [intents[d] EXCEPT !.audit = "none", !.status = "open"]]
    BY <1>6 DEF discard_invalid_audit
  <2>2. candidates[d].state = "awaiting_entry"
    BY <1>6, <1>a DEF discard_invalid_audit, TurnOf, JobHolds
  <2>3. CASE c = d /\ intents' # intents
    <3>1. intents'[c] = [intents[c] EXCEPT !.audit = "none", !.status = "open"]
      BY <2>1, <2>3, <1>b
    <3>2. intents'[c].audit = "none" /\ intents'[c].status = "open" /\ intents'[c].mint = intents[c].mint
      BY <3>1, <1>b DEF Intent
    <3> QED
      BY <3>2, <2>1, <2>2, <2>3 DEF CandidateMoves, IntentMoves
  <2>4. CASE c # d \/ intents' = intents
    BY <2>1, <2>4, <1>b DEF CandidateMoves, IntentMoves
  <2> QED
    BY <2>3, <2>4
<1>7. ASSUME NEW d \in Candidates, track_shadow_candidate(d)
      PROVE  CandidateMoves(c) /\ IntentMoves(c)
  <2>1. /\ intents' = intents /\ ValidAudit(intents[d].audit)
        /\ candidates' = [candidates EXCEPT ![d] =
              [candidates[d] EXCEPT !.state = "tracking_shadow", !.audit = intents[d].audit,
                 !.deadline = shadow_audits[intents[d].audit].quoted + TrackWindow]]
    BY <1>7 DEF track_shadow_candidate
  <2>2. candidates[d].state = "awaiting_entry"
    BY <1>7, <1>a DEF track_shadow_candidate, TurnOf, JobHolds
  <2>3. CASE c = d
    <3>1. candidates'[c] =
             [candidates[c] EXCEPT !.state = "tracking_shadow", !.audit = intents[c].audit,
                 !.deadline = shadow_audits[intents[c].audit].quoted + TrackWindow]
      BY <2>1, <2>3, <1>b
    <3>2. /\ candidates'[c].state = "tracking_shadow" /\ candidates'[c].audit = intents[c].audit
          /\ candidates'[c].mint = candidates[c].mint
          /\ candidates'[c].version = candidates[c].version
      BY <3>1, <1>b DEF Candidate
    <3> QED
      BY <3>2, <1>7, <2>1, <2>2, <2>3 DEF CandidateMoves, IntentMoves
  <2>4. CASE c # d
    BY <2>1, <2>4, <1>b DEF CandidateMoves, IntentMoves
  <2> QED
    BY <2>3, <2>4
<1>8. ASSUME NEW d \in Candidates, cancel_live_intent(d)
      PROVE  CandidateMoves(c) /\ IntentMoves(c)
  <2>1. /\ candidates' = candidates /\ intents[d].status # "none"
        /\ intents' = [intents EXCEPT ![d] = [intents[d] EXCEPT !.status = "cancelled"]]
    BY <1>8 DEF cancel_live_intent
  <2>2. CASE c = d
    <3>1. intents'[c] = [intents[c] EXCEPT !.status = "cancelled"]
      BY <2>1, <2>2, <1>b
    <3>2. /\ intents'[c].status = "cancelled" /\ intents'[c].audit = intents[c].audit
          /\ intents'[c].mint = intents[c].mint
      BY <3>1, <1>b DEF Intent
    <3> QED
      BY <3>2, <2>1, <2>2 DEF CandidateMoves, IntentMoves
  <2>3. CASE c # d
    BY <2>1, <2>3, <1>b DEF CandidateMoves, IntentMoves
  <2> QED
    BY <2>2, <2>3
<1>9. ASSUME NEW a \in ShadowAudits, QuoteExpires(a)
      PROVE  CandidateMoves(c) /\ IntentMoves(c)
  <2>1. /\ candidates' = candidates
        /\ intents'[c] = IF intents[c].audit = a /\ intents[c].status = "quoted"
                         THEN [intents[c] EXCEPT !.status = "expired"] ELSE intents[c]
    BY <1>9 DEF QuoteExpires
  <2>2. CASE intents[c].audit = a /\ intents[c].status = "quoted"
    <3>1. /\ intents'[c].status = "expired" /\ intents'[c].audit = intents[c].audit
          /\ intents'[c].mint = intents[c].mint
      BY <2>1, <2>2, <1>b DEF Intent
    <3> QED
      BY <3>1, <2>1, <2>2 DEF CandidateMoves, IntentMoves
  <2>3. CASE ~(intents[c].audit = a /\ intents[c].status = "quoted")
    BY <2>1, <2>3 DEF CandidateMoves, IntentMoves
  <2> QED
    BY <2>2, <2>3
<1>10. CASE \/ activation_is_over \/ close_pending_shadow_audit_capture \/ shadow_report
            \/ promotion_is_over
            \/ (\E d \in Candidates, a \in ShadowAudits, answer \in {"ready", "blocked", "raises"} :
                   quote_shadow_intent(d, a, answer))
            \/ (\E m \in Mints, clean, exits \in BOOLEAN :
                   save_accepted_market_observation(m, clean, exits))
            \/ (\E a \in ShadowAudits, economic \in BOOLEAN : persist_economic_comparison(a, economic))
            \/ EventArrives \/ TimePasses \/ strategy_version_changes \/ ShadowCrash
  <2>1. candidates' = candidates /\ intents' = intents
    BY <1>10 DEF activation_is_over, close_pending_shadow_audit_capture, shadow_report,
       promotion_is_over,
       quote_shadow_intent, save_accepted_market_observation, persist_economic_comparison,
       EventArrives, TimePasses, strategy_version_changes, ShadowCrash
  <2> QED
    BY <2>1 DEF CandidateMoves, IntentMoves
<1> QED
  BY <1>1, <1>2, <1>3, <1>4, <1>5, <1>6, <1>7, <1>8, <1>9, <1>10 DEF ShadowNext

-----------------------------------------------------------------------------
(* Each part of the invariant is kept.                                     *)

\* The audit a new name in an intent stands for (save_quoted_intent).
LEMMA NamedAudit ==
  ASSUME ShadowInv, save_quoted_intent
  PROVE  /\ job.candidate \in Candidates /\ job.audit \in ShadowAudits /\ job.audit # "none"
         /\ candidates[job.candidate].state = "awaiting_entry"
         /\ shadow_audits[job.audit].status # "none"
         /\ shadow_audits[job.audit].mint = intents[job.candidate].mint
         /\ shadow_audits[job.audit].version = candidates[job.candidate].version
         /\ \A c \in Candidates : intents[c].audit # job.audit
         /\ candidates' = candidates /\ shadow_audits' = shadow_audits /\ captures' = captures
         /\ \A c \in Candidates \ {job.candidate} : intents'[c] = intents[c]
<1>1. job.step = "captured" /\ job.todo \subseteq Candidates
  BY ShadowFields DEF ShadowInv, save_quoted_intent
<1>2. /\ job.candidate \in job.todo /\ job.audit \in ShadowAudits
      /\ candidates[job.candidate].state = "awaiting_entry"
      /\ candidates[job.candidate].version = strategy_version
      /\ shadow_audits[job.audit].status # "none"
      /\ shadow_audits[job.audit].mint = intents[job.candidate].mint
      /\ shadow_audits[job.audit].version = strategy_version
      /\ \A c \in Candidates : intents[c].audit # job.audit
  BY <1>1 DEF ShadowInv, JobHolds
<1>3. /\ candidates' = candidates /\ shadow_audits' = shadow_audits /\ captures' = captures
      /\ \A c \in Candidates \ {job.candidate} : intents'[c] = intents[c]
  BY DEF save_quoted_intent, quoteVars, ShadowInv, ShadowTypeOK
<1> QED
  BY <1>1, <1>2, <1>3, ShadowConstants

\* An intent names the audit it named, another one it was just given, or none.
LEMMA AuditMoves ==
  ASSUME ShadowInv, ShadowNext, NEW c \in Candidates, intents'[c].audit # "none"
  PROVE  \/ /\ intents'[c].audit = intents[c].audit
            /\ intents'[c].mint = intents[c].mint
         \/ /\ save_quoted_intent /\ c = job.candidate
            /\ intents'[c].audit = job.audit
            /\ intents'[c].mint = intents[c].mint
BY Moves DEF IntentMoves

\* A candidate's row follows its intent and its audit
\* (save_shadow_tracking_candidate, transition_shadow_tracking_candidate).
LEMMA CandidatesStep ==
  ASSUME ShadowInv, ShadowNext, RowsTyped'
  PROVE  CandidatesHold'
<1>a. ShadowTypeOK /\ CandidatesHold /\ QuotesKept
  BY Growth DEF ShadowInv
<1>b. strategy_version \in Nat /\ strategy_version' >= strategy_version
  BY <1>a, ShadowFields, ShadowConstants, Writers DEF strategy_version_changes
<1> SUFFICES ASSUME NEW c \in Candidates
             PROVE
        /\ intents'[c].status = "none" => candidates'[c].state = "none"
        /\ candidates'[c].state = "none" => intents'[c].audit = "none"
        /\ candidates'[c].state \in {"none", "awaiting_entry"} => candidates'[c].audit = "none"
        /\ candidates'[c].audit # "none" => candidates'[c].audit = intents'[c].audit
        /\ candidates'[c].state \in {"tracking_shadow", "complete"} => candidates'[c].audit # "none"
        /\ candidates'[c].version <= strategy_version'
        /\ intents'[c].audit # "none" =>
              /\ shadow_audits'[intents'[c].audit].status # "none"
              /\ shadow_audits'[intents'[c].audit].mint = intents'[c].mint
              /\ shadow_audits'[intents'[c].audit].version = candidates'[c].version
              /\ \A d \in Candidates : intents'[d].audit = intents'[c].audit => d = c
  BY DEF CandidatesHold
<1>c. /\ candidates[c] \in Candidate /\ candidates[c].version \in Nat
      /\ intents[c].audit \in ShadowAudits \cup {"none"}
  BY <1>a, ShadowFields
<1>d. /\ intents[c].status = "none" => candidates[c].state = "none"
      /\ candidates[c].state = "none" => intents[c].audit = "none"
      /\ candidates[c].state \in {"none", "awaiting_entry"} => candidates[c].audit = "none"
      /\ candidates[c].audit # "none" => candidates[c].audit = intents[c].audit
      /\ candidates[c].state \in {"tracking_shadow", "complete"} => candidates[c].audit # "none"
      /\ candidates[c].version <= strategy_version
      /\ intents[c].audit # "none" =>
            /\ shadow_audits[intents[c].audit].status # "none"
            /\ shadow_audits[intents[c].audit].mint = intents[c].mint
            /\ shadow_audits[intents[c].audit].version = candidates[c].version
            /\ \A d \in Candidates : intents[d].audit = intents[c].audit => d = c
  BY <1>a DEF CandidatesHold
<1>e. CandidateMoves(c) /\ IntentMoves(c)
  BY Moves
<1>f. save_quoted_intent => /\ candidates' = candidates
                            /\ candidates[job.candidate].state = "awaiting_entry"
  BY NamedAudit
<1>1. candidates'[c].version <= strategy_version'
  <2>1. candidates'[c].version \in {candidates[c].version, strategy_version}
    BY <1>e DEF CandidateMoves
  <2>2. strategy_version' \in Nat
    BY ShadowConstants DEF RowsTyped
  <2> QED
    BY <2>1, <2>2, <1>b, <1>c, <1>d
<1>2. intents'[c].status = "none" => candidates'[c].state = "none"
  <2> SUFFICES ASSUME intents'[c].status = "none"
               PROVE  candidates'[c].state = "none"
    OBVIOUS
  <2>1. intents'[c] = intents[c]
    BY <1>e DEF IntentMoves
  <2>2. candidates[c].state = "none" /\ intents[c].audit = "none" /\ intents[c].status = "none"
    BY <2>1, <1>d
  <2>3. candidates'[c] = candidates[c]
    BY <2>2, <1>e, ExpiringIsActive DEF CandidateMoves, ValidAudit
  <2> QED
    BY <2>2, <2>3
<1>3. candidates'[c].state = "none" => intents'[c].audit = "none"
  <2> SUFFICES ASSUME candidates'[c].state = "none"
               PROVE  intents'[c].audit = "none"
    OBVIOUS
  <2>1. candidates'[c] = candidates[c]
    BY <1>e DEF CandidateMoves
  <2>2. intents[c].audit = "none" /\ candidates[c].state = "none"
    BY <2>1, <1>d
  <2> QED
    BY <2>2, <1>e, <1>f DEF IntentMoves
<1>4. candidates'[c].state \in {"none", "awaiting_entry"} => candidates'[c].audit = "none"
  BY <1>d, <1>e DEF CandidateMoves
<1>5. candidates'[c].audit # "none" => candidates'[c].audit = intents'[c].audit
  <2>1. CASE candidates'[c] = candidates[c]
    BY <2>1, <1>d, <1>e, <1>f DEF IntentMoves
  <2>2. CASE candidates'[c] # candidates[c]
    <3>1. intents'[c] = intents[c]
      BY <2>2, <1>e, <1>a DEF CandidateMoves
    <3> QED
      BY <3>1, <2>2, <1>d, <1>e DEF CandidateMoves
  <2> QED
    BY <2>1, <2>2
<1>6. candidates'[c].state \in {"tracking_shadow", "complete"} => candidates'[c].audit # "none"
  BY <1>d, <1>e DEF CandidateMoves, ValidAudit
<1>7. ASSUME intents'[c].audit # "none"
      PROVE  /\ shadow_audits'[intents'[c].audit].status # "none"
             /\ shadow_audits'[intents'[c].audit].mint = intents'[c].mint
             /\ shadow_audits'[intents'[c].audit].version = candidates'[c].version
             /\ \A d \in Candidates : intents'[d].audit = intents'[c].audit => d = c
  <2>1. CASE intents'[c].audit = intents[c].audit /\ intents'[c].mint = intents[c].mint
    <3>1. intents[c].audit \in ShadowAudits /\ intents[c].audit # "none"
      BY <2>1, <1>7, <1>c
    <3>2. candidates'[c].version = candidates[c].version
      BY <3>1, <1>d, <1>e DEF CandidateMoves
    <3>3. ASSUME NEW d \in Candidates, intents'[d].audit = intents'[c].audit
          PROVE  d = c
      <4>1. intents'[d].audit # "none"
        BY <3>3, <1>7
      <4>2. CASE intents'[d].audit = intents[d].audit
        BY <4>2, <3>3, <3>1, <2>1, <1>d
      <4>3. CASE save_quoted_intent /\ intents'[d].audit = job.audit
        BY <4>3, <3>3, <2>1, NamedAudit
      <4> QED
        BY <4>1, <4>2, <4>3, AuditMoves
    <3> QED
      BY <3>1, <3>2, <3>3, <2>1, <1>a, <1>d DEF QuotesKept
  <2>2. CASE /\ save_quoted_intent /\ c = job.candidate
             /\ intents'[c].audit = job.audit
             /\ intents'[c].mint = intents[c].mint
    <3>1. ASSUME NEW d \in Candidates, intents'[d].audit = intents'[c].audit
          PROVE  d = c
      BY <3>1, <2>2, NamedAudit
    <3> QED
      BY <3>1, <2>2, NamedAudit
  <2> QED
    BY <1>7, <2>1, <2>2, AuditMoves
<1> QED
  BY <1>1, <1>2, <1>3, <1>4, <1>5, <1>6, <1>7

\* A capture belongs to a quote that was ready, a candidate to the mint of its
\* intent, and a tracked candidate has its capture.
LEMMA LinksStep ==
  ASSUME ShadowInv, ShadowNext, RowsTyped', CandidatesHold'
  PROVE  ShadowTypeOK'
<1>a. ShadowTypeOK /\ CandidatesHold /\ QuotesKept /\ CapturesKept
  BY Growth DEF ShadowInv
<1>b. /\ captures \in [ShadowAudits -> {"none", "pending", "closed"}]
      /\ shadow_audits \in [ShadowAudits -> ShadowAudit]
  BY <1>a DEF ShadowTypeOK
<1>1. ASSUME NEW a \in ShadowAudits, captures'[a] # "none"
      PROVE  shadow_audits'[a].status \in {"ready", "stale"}
  <2>1. captures[a] # "none" => shadow_audits[a].status \in {"ready", "stale"}
    BY <1>a DEF ShadowTypeOK
  <2>2. ASSUME NEW d \in Candidates, NEW b \in ShadowAudits,
               NEW answer \in {"ready", "blocked", "raises"}, quote_shadow_intent(d, b, answer)
        PROVE  shadow_audits'[a].status \in {"ready", "stale"}
    <3>1. CASE answer = "raises" \/ intents[d].status = "cancelled"
      BY <3>1, <2>1, <2>2, <1>1 DEF quote_shadow_intent, quoteVars
    <3>2. CASE ~(answer = "raises" \/ intents[d].status = "cancelled") /\ answer = "ready"
      <4>1. /\ captures' = [captures EXCEPT ![b] = "pending"]
            /\ shadow_audits' = [shadow_audits EXCEPT ![b] = Quote(intents[d].mint, "ready")]
        BY <2>2, <3>2 DEF quote_shadow_intent, save_shadow_quote_audit_capture
      <4> QED
        BY <4>1, <2>1, <1>1, <1>b DEF Quote
    <3>3. CASE ~(answer = "raises" \/ intents[d].status = "cancelled") /\ answer # "ready"
      <4>1. /\ captures' = captures /\ shadow_audits[b].status = "none"
            /\ shadow_audits' = [shadow_audits EXCEPT ![b] = Quote(intents[d].mint, answer)]
        BY <2>2, <3>3 DEF quote_shadow_intent
      <4> QED
        BY <4>1, <2>1, <1>1, <1>b
    <3> QED
      BY <3>1, <3>2, <3>3
  <2>3. CASE ~\E d \in Candidates, b \in ShadowAudits, answer \in {"ready", "blocked", "raises"} :
                quote_shadow_intent(d, b, answer)
    <3>1. captures[a] # "none"
      <4>1. CASE captures' \in {captures, ClosedWith, Normalized}
        BY <4>1, <1>1, <1>a, ExpiryFields, NormalizedFields
      <4>2. CASE close_pending_shadow_audit_capture
        <5>1. captures' = [captures EXCEPT ![job.audit] = IF @ = "pending" THEN "closed" ELSE @]
          BY <4>2 DEF close_pending_shadow_audit_capture
        <5> QED
          BY <5>1, <1>1, <1>b
      <4> QED
        BY <4>1, <4>2, <2>3, Writers
    <3>2. CASE shadow_audits' = shadow_audits
      BY <3>1, <3>2, <2>1
    <3>3. ASSUME NEW b \in ShadowAudits, QuoteExpires(b)
          PROVE  shadow_audits'[a].status \in {"ready", "stale"}
      <4>1. shadow_audits' = [shadow_audits EXCEPT ![b] =
                                 [shadow_audits[b] EXCEPT !.status = "stale"]]
        BY <3>3 DEF QuoteExpires
      <4>2. [shadow_audits[b] EXCEPT !.status = "stale"].status = "stale"
        BY <1>b DEF ShadowAudit
      <4> QED
        BY <4>1, <4>2, <3>1, <2>1, <1>b
    <3> QED
      BY <3>2, <3>3, <2>3, Writers
  <2> QED
    BY <2>2, <2>3
<1>2. ASSUME NEW c \in Candidates
      PROVE  /\ candidates'[c].state # "none" => candidates'[c].mint = intents'[c].mint
             /\ candidates'[c].state \in {"tracking_shadow", "complete"} =>
                   captures'[candidates'[c].audit] # "none"
  <2>a. /\ candidates[c].state # "none" => candidates[c].mint = intents[c].mint
        /\ candidates[c].state \in {"tracking_shadow", "complete"} =>
              captures[candidates[c].audit] # "none"
    BY <1>a DEF ShadowTypeOK
  <2>b. /\ candidates[c].state \in {"tracking_shadow", "complete"} =>
              candidates[c].audit \in ShadowAudits
        /\ intents[c].status = "none" => candidates[c].state = "none"
    BY <1>a, ShadowFields DEF CandidatesHold
  <2>c. CandidateMoves(c) /\ IntentMoves(c)
    BY Moves
  <2>1. candidates'[c].state # "none" => candidates'[c].mint = intents'[c].mint
    <3>1. CASE candidates'[c] = candidates[c]
      BY <3>1, <2>a, <2>b, <2>c DEF IntentMoves
    <3>2. CASE candidates'[c] # candidates[c]
      BY <3>2, <2>a, <2>c, ExpiringIsActive DEF CandidateMoves
    <3> QED
      BY <3>1, <3>2
  <2>2. ASSUME candidates'[c].state \in {"tracking_shadow", "complete"}
        PROVE  captures'[candidates'[c].audit] # "none"
    <3>1. CASE /\ candidates[c].state \in {"tracking_shadow", "complete"}
               /\ candidates'[c].audit = candidates[c].audit
      <4>1. candidates[c].audit \in ShadowAudits /\ captures[candidates[c].audit] # "none"
        BY <3>1, <2>a, <2>b
      <4> QED
        BY <4>1, <3>1, <1>a DEF CapturesKept
    <3>2. CASE /\ track_shadow_candidate(c) /\ ValidAudit(intents[c].audit)
               /\ candidates'[c].audit = intents[c].audit
      BY <3>2 DEF ValidAudit, track_shadow_candidate, quoteVars
    <3> QED
      BY <2>2, <2>c, <3>1, <3>2 DEF CandidateMoves
  <2> QED
    BY <2>1, <2>2
<1> QED
  BY <1>1, <1>2 DEF ShadowTypeOK, RowsTyped

\* What an audit's bindings say of it when the step is over, for those it had.
LEMMA BindingsStep ==
  ASSUME ShadowInv, ShadowNext, RowsTyped'
  PROVE  BindingsHold' /\ NoLookAhead'
<1>a. ShadowTypeOK /\ BindingsHold /\ NoLookAhead /\ JobHolds
      /\ MarketKept /\ QuotesKept /\ CapturesKept
  BY Growth DEF ShadowInv
<1>b. /\ \A b \in bindings : b.audit \in ShadowAudits
      /\ \A k \in comparisons : k.audit \in ShadowAudits
      /\ \A a \in ShadowAudits : captures[a] # "none" => shadow_audits[a].status # "none"
  BY <1>a DEF ShadowTypeOK
<1>1. \A b \in bindings :
          /\ captures'[b.audit] # "none"
          /\ b.obs \in DOMAIN market' /\ market'[b.obs].clean
          /\ b.role = "entry" =>
                /\ market'[b.obs].received <= shadow_audits'[b.audit].quoted
                /\ market'[b.obs].mint = shadow_audits'[b.audit].mint
                /\ market'[b.obs].version = shadow_audits'[b.audit].version
  <2> TAKE b \in bindings
  <2>1. /\ b.audit \in ShadowAudits /\ captures[b.audit] # "none"
        /\ b.obs \in DOMAIN market /\ market[b.obs].clean
        /\ b.role = "entry" =>
              /\ market[b.obs].received <= shadow_audits[b.audit].quoted
              /\ market[b.obs].mint = shadow_audits[b.audit].mint
              /\ market[b.obs].version = shadow_audits[b.audit].version
    BY <1>a, <1>b DEF BindingsHold
  <2>2. captures'[b.audit] # "none"
    BY <2>1, <1>a DEF CapturesKept
  <2>3. b.obs \in DOMAIN market' /\ market'[b.obs] = market[b.obs]
    BY <2>1, <1>a DEF MarketKept
  <2>4. /\ shadow_audits'[b.audit].mint = shadow_audits[b.audit].mint
        /\ shadow_audits'[b.audit].version = shadow_audits[b.audit].version
        /\ shadow_audits'[b.audit].quoted = shadow_audits[b.audit].quoted
    BY <2>1, <1>a, <1>b DEF QuotesKept
  <2> QED
    BY <2>1, <2>2, <2>3, <2>4
<1>2. ASSUME NEW b \in bindings', b \notin bindings
      PROVE  /\ captures'[b.audit] # "none"
             /\ b.obs \in DOMAIN market' /\ market'[b.obs].clean
             /\ b.role = "entry" =>
                   /\ market'[b.obs].received <= shadow_audits'[b.audit].quoted
                   /\ market'[b.obs].mint = shadow_audits'[b.audit].mint
                   /\ market'[b.obs].version = shadow_audits'[b.audit].version
  <2>1. CASE bind_accepted_market_observation
    <3> DEFINE o == market[job.obs]
               bound == {a \in ShadowAudits : /\ o.clean /\ Binds(a, o)
                                              /\ shadow_audits[a].mint = o.mint
                                              /\ shadow_audits[a].version = o.version}
    <3>1. b \in [audit: bound, obs: {job.obs}, role: {"path"}]
      BY <2>1, <1>2 DEF bind_accepted_market_observation
    <3>2. /\ b.audit \in ShadowAudits /\ o.clean /\ captures[b.audit] = "pending"
          /\ b.obs = job.obs /\ b.role = "path"
      BY <3>1 DEF Binds
    <3>3. job.obs \in DOMAIN market
      BY <2>1, <1>a DEF JobHolds, bind_accepted_market_observation
    <3>4. captures'[b.audit] # "none"
      BY <3>2, <1>a DEF CapturesKept
    <3>5. job.obs \in DOMAIN market' /\ market'[job.obs] = market[job.obs]
      BY <3>3, <1>a DEF MarketKept
    <3> QED
      BY <3>2, <3>4, <3>5
  <2>2. ASSUME NEW c \in Candidates, NEW a \in ShadowAudits,
               NEW answer \in {"ready", "blocked", "raises"}, quote_shadow_intent(c, a, answer)
        PROVE  /\ captures'[b.audit] # "none"
               /\ b.obs \in DOMAIN market' /\ market'[b.obs].clean
               /\ b.role = "entry" =>
                     /\ market'[b.obs].received <= shadow_audits'[b.audit].quoted
                     /\ market'[b.obs].mint = shadow_audits'[b.audit].mint
                     /\ market'[b.obs].version = shadow_audits'[b.audit].version
    <3> DEFINE m == intents[c].mint
    <3>1. /\ save_shadow_quote_audit_capture(a, m) /\ market' = market
      BY <2>2, <1>2 DEF quote_shadow_intent, quoteVars
    <3>2. /\ b \in [audit: {a}, obs: EntryOf(m, strategy_version, clock), role: {"entry"}]
          /\ captures' = [captures EXCEPT ![a] = "pending"]
          /\ shadow_audits' = [shadow_audits EXCEPT ![a] = Quote(m, "ready")]
      BY <3>1, <1>2 DEF save_shadow_quote_audit_capture
    <3>3. /\ b.audit = a /\ b.obs \in DOMAIN market /\ market[b.obs].clean
          /\ market[b.obs].received <= clock
          /\ market[b.obs].mint = m /\ market[b.obs].version = strategy_version
      BY <3>2 DEF EntryOf, ReceivedBy
    <3>4. captures'[a] = "pending" /\ shadow_audits'[a] = Quote(m, "ready")
      BY <3>2, <1>a DEF ShadowTypeOK
    <3> QED
      BY <3>1, <3>3, <3>4 DEF Quote
  <2> QED
    BY <1>2, <2>1, <2>2, Writers
<1>3. \A k \in comparisons :
         /\ captures'[k.audit] # "none"
         /\ k.entry \in DOMAIN market' /\ k.exit \in DOMAIN market'
         /\ market'[k.entry].received <= shadow_audits'[k.audit].quoted
         /\ shadow_audits'[k.audit].quoted < market'[k.exit].received
         /\ market'[k.entry].clean /\ market'[k.exit].clean
         /\ market'[k.entry].mint = shadow_audits'[k.audit].mint
         /\ market'[k.exit].mint = shadow_audits'[k.audit].mint
         /\ market'[k.entry].version = shadow_audits'[k.audit].version
         /\ market'[k.exit].version = shadow_audits'[k.audit].version
  <2> TAKE k \in comparisons
  <2>1. /\ captures[k.audit] # "none" /\ k.audit \in ShadowAudits
        /\ k.entry \in DOMAIN market /\ k.exit \in DOMAIN market
    BY <1>a, <1>b DEF BindingsHold
  <2>2. /\ market[k.entry].received <= shadow_audits[k.audit].quoted
        /\ shadow_audits[k.audit].quoted < market[k.exit].received
        /\ market[k.entry].clean /\ market[k.exit].clean
        /\ {market[k.entry].mint, market[k.exit].mint} = {shadow_audits[k.audit].mint}
        /\ {market[k.entry].version, market[k.exit].version} = {shadow_audits[k.audit].version}
    BY <1>a DEF NoLookAhead
  <2>3. /\ market[k.entry].mint = shadow_audits[k.audit].mint
        /\ market[k.exit].mint = shadow_audits[k.audit].mint
        /\ market[k.entry].version = shadow_audits[k.audit].version
        /\ market[k.exit].version = shadow_audits[k.audit].version
    BY <2>2
  <2>4. captures'[k.audit] # "none"
    BY <2>1, <1>a DEF CapturesKept
  <2>5. /\ k.entry \in DOMAIN market' /\ market'[k.entry] = market[k.entry]
        /\ k.exit \in DOMAIN market' /\ market'[k.exit] = market[k.exit]
    BY <2>1, <1>a DEF MarketKept
  <2>6. /\ shadow_audits'[k.audit].mint = shadow_audits[k.audit].mint
        /\ shadow_audits'[k.audit].version = shadow_audits[k.audit].version
        /\ shadow_audits'[k.audit].quoted = shadow_audits[k.audit].quoted
    BY <2>1, <1>a, <1>b DEF QuotesKept
  <2> QED
    BY <2>1, <2>2, <2>3, <2>4, <2>5, <2>6
<1>4. ASSUME NEW k \in comparisons', k \notin comparisons
      PROVE  /\ captures'[k.audit] # "none"
             /\ k.entry \in DOMAIN market' /\ k.exit \in DOMAIN market'
             /\ market'[k.entry].received <= shadow_audits'[k.audit].quoted
             /\ shadow_audits'[k.audit].quoted < market'[k.exit].received
             /\ market'[k.entry].clean /\ market'[k.exit].clean
             /\ market'[k.entry].mint = shadow_audits'[k.audit].mint
             /\ market'[k.exit].mint = shadow_audits'[k.audit].mint
             /\ market'[k.entry].version = shadow_audits'[k.audit].version
             /\ market'[k.exit].version = shadow_audits'[k.audit].version
  <2>1. PICK a \in ShadowAudits, economic \in BOOLEAN : persist_economic_comparison(a, economic)
    BY <1>4, Writers
  <2>2. /\ k \in [audit: {a}, entry: EntryBound(a), exit: ExitsOf(a)]
        /\ market' = market /\ shadow_audits' = shadow_audits /\ captures' = captures
    BY <2>1, <1>4 DEF persist_economic_comparison
  <2>3. k.audit = a /\ k.entry \in EntryBound(a) /\ k.exit \in ExitsOf(a)
    BY <2>2
  <2>4. PICK b \in bindings : b.audit = a /\ b.role = "entry" /\ b.obs = k.entry
    BY <2>3 DEF EntryBound
  <2>5. PICK p \in bindings : p.audit = a /\ p.role = "path" /\ p.obs = k.exit
    BY <2>3 DEF ExitsOf, PathBound
  <2>6. /\ market[k.exit].received > shadow_audits[a].quoted
        /\ market[k.exit].mint = shadow_audits[a].mint
        /\ market[k.exit].version = shadow_audits[a].version
    BY <2>3 DEF ExitsOf
  <2>7. /\ captures[a] # "none"
        /\ k.entry \in DOMAIN market /\ market[k.entry].clean
        /\ market[k.entry].received <= shadow_audits[a].quoted
        /\ market[k.entry].mint = shadow_audits[a].mint
        /\ market[k.entry].version = shadow_audits[a].version
    BY <2>4, <1>a DEF BindingsHold
  <2>8. k.exit \in DOMAIN market /\ market[k.exit].clean
    BY <2>5, <1>a DEF BindingsHold
  <2>9. shadow_audits[a].quoted \in Nat /\ market[k.exit].received \in Nat
    BY <2>8, <1>a, ShadowFields, MarketIndexed
  <2> QED
    BY <2>2, <2>3, <2>6, <2>7, <2>8, <2>9
<1>5. BindingsHold'
  BY <1>1, <1>2, <1>3, <1>4 DEF BindingsHold
<1>6. NoLookAhead'
  BY <1>3, <1>4 DEF NoLookAhead
<1> QED
  BY <1>5, <1>6

\* A handler that is over, or goes on with comparisons, holds nothing yet.
LEMMA NothingHeld ==
  ASSUME \/ job' = Idle
         \/ job'.step \in {"selected", "refreshing"}
         \/ job' = job /\ job.step = "idle" /\ job.slots = 0
  PROVE  JobHolds'
BY DEF JobHolds, Idle

\* Where an activation is, and what it has left to do.
LEMMA ActivationHeld ==
  ASSUME job'.step = "activating",
         \A c \in job'.todo : /\ candidates'[c].state = "awaiting_entry"
                              /\ candidates'[c].version = strategy_version'
  PROVE  JobHolds'
BY DEF JobHolds

\* The steps of a handler.
LEMMA JobFields ==
  ASSUME ShadowTypeOK
  PROVE  /\ Idle.step = "idle" /\ Idle.slots = 0
         /\ \A a : Refreshed(a) = Idle \/ Refreshed(a).step = "refreshing"
         /\ \A a : Refreshed(a).slots = 0
         /\ (Resumed = Idle \/ Resumed.step = "selected")
         /\ Resumed.slots = job.slots
         /\ \A c : Dropped(c).step = "activating" /\ Dropped(c).todo = job.todo \ {c}
         /\ \A c : Dropped(c).slots = job.slots
<1>1. job \in Job /\ Idle \in Job
  BY IdleTyped, ShadowFields
<1>2. Idle.step = "idle" /\ Idle.slots = 0
  BY DEF Idle
<1>3. \A s : /\ [Idle EXCEPT !.step = "refreshing", !.audits = s].step = "refreshing"
             /\ [Idle EXCEPT !.step = "refreshing", !.audits = s].slots = 0
  BY <1>1, <1>2 DEF Job
<1>4. \A s, n : /\ [Idle EXCEPT !.step = "selected", !.slots = n, !.excluded = s].step = "selected"
                /\ [Idle EXCEPT !.step = "selected", !.slots = n, !.excluded = s].slots = n
  BY <1>1 DEF Job
<1>5. \/ Resumed = Idle /\ job.slots = 0
      \/ Resumed.step = "selected" /\ Resumed.slots = job.slots
  <2> DEFINE again == [Idle EXCEPT !.step = "selected", !.slots = job.slots,
                                   !.excluded = job.excluded]
  <2>1. again.step = "selected" /\ again.slots = job.slots
    BY <1>4
  <2>2. Resumed = IF job.slots = 0 THEN Idle ELSE again
    BY DEF Resumed
  <2> HIDE DEF again
  <2> QED
    BY <2>1, <2>2
<1>6. \A a : \/ Refreshed(a) = Idle
             \/ Refreshed(a).step = "refreshing" /\ Refreshed(a).slots = 0
  BY <1>3 DEF Refreshed
<1>7. \A c : /\ Dropped(c).step = "activating" /\ Dropped(c).todo = job.todo \ {c}
             /\ Dropped(c).slots = job.slots
  BY <1>1 DEF Dropped, Job
<1> QED
  BY <1>2, <1>5, <1>6, <1>7

\* What the handler looked at in one transaction is still so in the next, as no
\* other handler runs in between (_activate_waiting_shadow_candidate).
LEMMA JobStep ==
  ASSUME ShadowInv, ShadowNext, RowsTyped', ShadowTypeOK'
  PROVE  JobHolds'
<1> USE DEF worldVars, quoteVars
<1>a. ShadowTypeOK /\ JobHolds /\ CandidatesHold
  BY DEF ShadowInv
<1>b. /\ job \in Job /\ Idle \in Job /\ job.todo \subseteq Candidates
      /\ candidates \in [Candidates -> Candidate] /\ intents \in [Candidates -> Intent]
      /\ shadow_audits \in [ShadowAudits -> ShadowAudit]
  BY <1>a, ShadowFields, IdleTyped DEF ShadowTypeOK
<1>1. CASE \/ expire_shadow_tracking_candidates \/ activation_is_over \/ complete_shadow_candidates
           \/ shadow_report \/ TimePasses \/ strategy_version_changes \/ ShadowCrash
           \/ (\E c \in Candidates : cancel_live_intent(c))
           \/ (\E a \in ShadowAudits : QuoteExpires(a))
           \/ promotion_is_over \/ generate_live_intents
  <2>1. [job EXCEPT !.step = "refreshing"].step = "refreshing"
        /\ \A s : [Idle EXCEPT !.step = "refreshing", !.audits = s].step = "refreshing"
    BY <1>b DEF Job
  <2>2. \A n, e : [Idle EXCEPT !.step = "selected", !.slots = n, !.excluded = e].step = "selected"
    BY <1>b DEF Job
  <2>3. job.step = "idle" => job.slots = 0
    BY <1>a DEF JobHolds
  <2>4. CASE activation_is_over \/ complete_shadow_candidates \/ shadow_report \/ ShadowCrash
             \/ promotion_is_over \/ generate_live_intents
    <3>0. \/ job' \in {Idle, Resumed, Refreshed(job.audit)}
          \/ job' = [job EXCEPT !.step = "refreshing"]
          \/ \E s : job' = [Idle EXCEPT !.step = "refreshing", !.audits = s]
          \/ \E n : job' = [Idle EXCEPT !.step = "selected", !.slots = n, !.excluded = AtHand]
      BY <2>4 DEF activation_is_over, complete_shadow_candidates,
         shadow_report, ShadowCrash, promotion_is_over, generate_live_intents
    <3>2. Resumed = Idle \/ Resumed.step = "selected"
      BY <1>a, JobFields
    <3>3. Refreshed(job.audit) = Idle \/ Refreshed(job.audit).step = "refreshing"
      BY <1>a, JobFields
    <3>1. job' = Idle \/ job'.step \in {"selected", "refreshing"}
      <4>1. CASE job' \in {Idle, Resumed, Refreshed(job.audit)}
        BY <4>1, <3>2, <3>3
      <4>2. CASE job' = [job EXCEPT !.step = "refreshing"]
        BY <4>2, <2>1
      <4>3. ASSUME NEW s, job' = [Idle EXCEPT !.step = "refreshing", !.audits = s]
            PROVE  job'.step = "refreshing"
        BY <4>3, <2>1
      <4>4. ASSUME NEW n, job' = [Idle EXCEPT !.step = "selected", !.slots = n,
                                              !.excluded = AtHand]
            PROVE  job'.step = "selected"
        BY <4>4, <2>2
      <4> QED
        BY <3>0, <4>1, <4>2, <4>3, <4>4
    <3> QED
      BY <3>1, NothingHeld
  <2>5. CASE \/ expire_shadow_tracking_candidates \/ TimePasses \/ strategy_version_changes
             \/ (\E c \in Candidates : cancel_live_intent(c))
             \/ (\E a \in ShadowAudits : QuoteExpires(a))
    <3>1. job' = job /\ job.step = "idle"
      BY <2>5 DEF expire_shadow_tracking_candidates, TimePasses, strategy_version_changes,
         cancel_live_intent, QuoteExpires
    <3> QED
      BY <3>1, <2>3, NothingHeld
  <2> QED
    BY <1>1, <2>4, <2>5
<1>2. CASE save_shadow_tracking_candidate
  <2> DEFINE c == job.candidate
             m == intents[c].mint
             row == [state |-> "awaiting_entry", mint |-> m, version |-> strategy_version,
                     deadline |-> clock + EntryWindow, audit |-> "none"]
             todo == {c} \cup Waiting(m, strategy_version)
  <2>1. c \in Candidates
    BY <1>2, <1>a DEF JobHolds, save_shadow_tracking_candidate
  <2>2. /\ candidates' = [candidates EXCEPT ![c] = row] /\ strategy_version' = strategy_version
        /\ job' \in {Resumed, [job EXCEPT !.step = "activating", !.candidate = "none",
                                           !.todo = todo]}
    BY <1>2 DEF save_shadow_tracking_candidate
  <2>3. \A d \in todo : /\ candidates'[d].state = "awaiting_entry"
                        /\ candidates'[d].version = strategy_version
    <3>1. candidates'[c].state = "awaiting_entry" /\ candidates'[c].version = strategy_version
      BY <2>1, <2>2, <1>b
    <3>2. ASSUME NEW d \in Waiting(m, strategy_version), d # c
          PROVE  /\ candidates'[d].state = "awaiting_entry"
                 /\ candidates'[d].version = strategy_version
      BY <3>2, <2>2, <1>b DEF Waiting, Active
    <3> QED
      BY <3>1, <3>2
  <2>4. CASE job' = Resumed
    BY <2>4, <1>a, JobFields, NothingHeld
  <2>5. CASE job' = [job EXCEPT !.step = "activating", !.candidate = "none", !.todo = todo]
    <3>1. job'.step = "activating" /\ job'.todo = todo
      <4> HIDE DEF todo
      <4> QED
        BY <2>5, <1>b DEF Job
    <3> QED
      BY <3>1, <2>2, <2>3, ActivationHeld
  <2> QED
    BY <2>2, <2>4, <2>5
<1>3. CASE bind_accepted_market_observation
  <2> DEFINE o == market[job.obs]
             todo == IF o.clean THEN Waiting(o.mint, o.version) \ Expiring ELSE {}
             audits == {b.audit : b \in {x \in bindings' : x.obs = job.obs}}
  <2>1. o.version = strategy_version /\ strategy_version' = strategy_version
        /\ candidates' = Expired
    BY <1>3, <1>a DEF JobHolds, bind_accepted_market_observation
  <2>2. job' = [job EXCEPT !.step = "activating", !.todo = todo, !.audits = audits]
    BY <1>3 DEF bind_accepted_market_observation
  <2>3. job'.step = "activating" /\ job'.todo = todo
    <3> HIDE DEF todo, audits
    <3> QED
      BY <2>2, <1>b DEF Job
  <2>4. ASSUME NEW c \in todo
        PROVE  candidates'[c].state = "awaiting_entry" /\ candidates'[c].version = strategy_version'
    <3>1. c \in Waiting(o.mint, o.version) /\ c \notin Expiring
      OBVIOUS
    <3>2. /\ c \in Candidates /\ candidates[c].state = "awaiting_entry"
          /\ candidates[c].version = o.version
      BY <3>1 DEF Waiting, Active
    <3>3. candidates'[c] = candidates[c]
      BY <3>1, <3>2, <2>1, <1>a, ExpiryFields
    <3> QED
      BY <3>2, <3>3, <2>1
  <2> HIDE DEF todo
  <2> QED
    BY <2>3, <2>4, ActivationHeld
<1>4. CASE save_quoted_intent
  <2>1. /\ job' = [job EXCEPT !.step = "activating", !.audit = "none"]
        /\ job.step = "captured"
        /\ candidates' = candidates /\ strategy_version' = strategy_version
    BY <1>4 DEF save_quoted_intent
  <2>2. job'.step = "activating" /\ job'.todo = job.todo
    BY <2>1, <1>b DEF Job
  <2>3. \A c \in job.todo : /\ candidates[c].state = "awaiting_entry"
                            /\ candidates[c].version = strategy_version
    BY <2>1, <1>a DEF JobHolds
  <2> QED
    BY <2>1, <2>2, <2>3, ActivationHeld
<1>5. CASE close_pending_shadow_audit_capture
  <2>1. /\ job' = [job EXCEPT !.step = "closing"] /\ job.step = "compared"
        /\ comparisons' = comparisons
    BY <1>5 DEF close_pending_shadow_audit_capture
  <2>2. job'.step = "closing" /\ job'.audit = job.audit
    BY <2>1, <1>b DEF Job
  <2>3. job.audit \in ShadowAudits /\ \E k \in comparisons : k.audit = job.audit
    BY <2>1, <1>a DEF JobHolds
  <2> QED
    BY <2>1, <2>2, <2>3 DEF JobHolds
<1>6. ASSUME NEW c \in Candidates, NEW m \in Mints, save_live_intent(c, m)
      PROVE  JobHolds'
  <2>1. /\ job' = [job EXCEPT !.step = "promoted", !.candidate = c, !.slots = job.slots - 1]
        /\ candidates' = candidates
        /\ intents' = [intents EXCEPT ![c] = [status |-> "open", mint |-> m, audit |-> "none"]]
        /\ intents[c].status = "none"
    BY <1>6 DEF save_live_intent
  <2>2. job'.step = "promoted" /\ job'.candidate = c
    BY <2>1, <1>b DEF Job
  <2>3. intents'[c].status = "open" /\ intents'[c].mint = m
    BY <2>1, <1>b
  <2>4. candidates[c].state = "none"
    BY <2>1, <1>a DEF CandidatesHold
  <2> QED
    BY <2>1, <2>2, <2>3, <2>4 DEF JobHolds
<1>7. ASSUME NEW c \in Candidates, NEW a \in ShadowAudits,
             NEW answer \in {"ready", "blocked", "raises"}, quote_shadow_intent(c, a, answer)
      PROVE  JobHolds'
  <2>1. /\ job.step = "activating" /\ c \in job.todo
        /\ candidates' = candidates /\ intents' = intents /\ strategy_version' = strategy_version
    BY <1>7 DEF quote_shadow_intent, TurnOf
  <2>2. \A d \in job.todo : /\ candidates[d].state = "awaiting_entry"
                            /\ candidates[d].version = strategy_version
    BY <2>1, <1>a DEF JobHolds
  <2>3. CASE job' = Dropped(c)
    <3>1. job'.step = "activating" /\ job'.todo \subseteq job.todo
      BY <2>3, <1>a, JobFields
    <3> QED
      BY <3>1, <2>1, <2>2, ActivationHeld
  <2>4. CASE job' # Dropped(c)
    <3>1. /\ answer # "raises" /\ shadow_audits[a].status = "none"
          /\ job' = [job EXCEPT !.step = "captured", !.candidate = c, !.audit = a]
          /\ shadow_audits' = [shadow_audits EXCEPT ![a] = Quote(intents[c].mint, answer)]
      BY <1>7, <2>4 DEF quote_shadow_intent, save_shadow_quote_audit_capture
    <3>2. /\ job'.step = "captured" /\ job'.candidate = c /\ job'.audit = a
          /\ job'.todo = job.todo
      BY <3>1, <1>b DEF Job
    <3>3. /\ shadow_audits'[a].status # "none"
          /\ shadow_audits'[a].mint = intents[c].mint
          /\ shadow_audits'[a].version = strategy_version
      BY <3>1, <1>b DEF Quote
    <3>4. \A d \in Candidates : intents[d].audit # a
      BY <3>1, <1>a, ShadowConstants DEF CandidatesHold
    <3> QED
      BY <3>2, <3>3, <3>4, <2>1, <2>2 DEF JobHolds
  <2> QED
    BY <2>3, <2>4
<1>8. ASSUME NEW c \in Candidates, discard_invalid_audit(c)
      PROVE  JobHolds'
  <2>1. /\ job.step = "activating"
        /\ candidates' = candidates /\ strategy_version' = strategy_version
        /\ job' \in {Dropped(c), [job EXCEPT !.final = TRUE, !.candidate = c]}
    BY <1>8 DEF discard_invalid_audit
  <2>2. \A d \in job.todo : /\ candidates[d].state = "awaiting_entry"
                            /\ candidates[d].version = strategy_version
    BY <2>1, <1>a DEF JobHolds
  <2>3. job'.step = "activating" /\ job'.todo \subseteq job.todo
    <3>1. LET j == [job EXCEPT !.final = TRUE, !.candidate = c]
          IN  j.step = job.step /\ j.todo = job.todo
      BY <1>b DEF Job
    <3> QED
      BY <3>1, <2>1, <1>a, JobFields
  <2> QED
    BY <2>1, <2>2, <2>3, ActivationHeld
<1>9. ASSUME NEW c \in Candidates, track_shadow_candidate(c)
      PROVE  JobHolds'
  <2>1. /\ job.step = "activating" /\ job' = Dropped(c) /\ strategy_version' = strategy_version
        /\ candidates' = [candidates EXCEPT ![c] =
              [candidates[c] EXCEPT !.state = "tracking_shadow", !.audit = intents[c].audit,
                 !.deadline = shadow_audits[intents[c].audit].quoted + TrackWindow]]
    BY <1>9 DEF track_shadow_candidate
  <2>2. \A d \in job.todo : /\ candidates[d].state = "awaiting_entry"
                            /\ candidates[d].version = strategy_version
    BY <2>1, <1>a DEF JobHolds
  <2>3. job'.step = "activating" /\ job'.todo = job.todo \ {c}
    BY <2>1, <1>a, JobFields
  <2>4. \A d \in job'.todo : candidates'[d] = candidates[d]
    BY <2>1, <2>3, <1>b
  <2> QED
    BY <2>1, <2>2, <2>3, <2>4, ActivationHeld
<1>10. ASSUME NEW m \in Mints, NEW clean \in BOOLEAN, NEW exits \in BOOLEAN,
              save_accepted_market_observation(m, clean, exits)
       PROVE  JobHolds'
  <2> DEFINE o == [mint |-> m, version |-> strategy_version, received |-> Head(arrived),
                   clean |-> clean, exits |-> exits]
  <2>1. /\ market' = Append(market, o) /\ strategy_version' = strategy_version
        /\ job' = [Idle EXCEPT !.step = "saved", !.obs = Len(market) + 1]
    BY <1>10 DEF save_accepted_market_observation
  <2>2. job'.step = "saved" /\ job'.obs = Len(market) + 1
    BY <2>1, <1>b DEF Job
  <2>3. /\ Len(market) + 1 \in DOMAIN market' /\ market'[Len(market) + 1] = o
    <3>1. market \in Seq(Observation)
      BY <1>a DEF ShadowTypeOK
    <3> HIDE DEF o
    <3> QED
      BY <3>1, <2>1
  <2>4. o.version = strategy_version
    OBVIOUS
  <2> HIDE DEF o
  <2> QED
    BY <2>1, <2>2, <2>3, <2>4 DEF JobHolds
<1>11. ASSUME NEW a \in ShadowAudits, NEW economic \in BOOLEAN,
              persist_economic_comparison(a, economic)
       PROVE  JobHolds'
  <2>1. CASE EntryBound(a) # {} /\ ExitsOf(a) # {} /\ Persisted(a, economic)
    <3>1. /\ job' = [job EXCEPT !.step = "compared", !.audit = a]
          /\ comparisons' = IF economic /\ ~\E k \in comparisons : k.audit = a
                            THEN comparisons \cup [audit: {a}, entry: EntryBound(a), exit: ExitsOf(a)]
                            ELSE comparisons
      BY <1>11, <2>1 DEF persist_economic_comparison
    <3>2. job'.step = "compared" /\ job'.audit = a
      BY <3>1, <1>b DEF Job
    <3>3. \E k \in comparisons' : k.audit = a
      <4>1. CASE \E k \in comparisons : k.audit = a
        BY <4>1, <3>1
      <4>2. CASE ~\E k \in comparisons : k.audit = a
        <5>1. PICK i \in EntryBound(a), j \in ExitsOf(a) : TRUE
          BY <2>1
        <5>2. economic
          BY <4>2, <2>1 DEF Persisted
        <5>3. [audit |-> a, entry |-> i, exit |-> j] \in comparisons'
          BY <5>1, <5>2, <4>2, <3>1
        <5> QED
          BY <5>3
      <4> QED
        BY <4>1, <4>2
    <3> QED
      BY <3>2, <3>3 DEF JobHolds
  <2>2. CASE ~(EntryBound(a) # {} /\ ExitsOf(a) # {} /\ Persisted(a, economic))
    <3>1. job' = Refreshed(a)
      BY <1>11, <2>2 DEF persist_economic_comparison
    <3> QED
      BY <3>1, <1>a, JobFields, NothingHeld
  <2> QED
    BY <2>1, <2>2
<1>12. CASE EventArrives
  <2>1. /\ job' = job /\ candidates' = candidates /\ intents' = intents /\ market' = market
        /\ shadow_audits' = shadow_audits /\ comparisons' = comparisons
        /\ strategy_version' = strategy_version
    BY <1>12 DEF EventArrives
  <2>2. Active' = Active /\ Current' = Current
    BY <2>1 DEF Active, Current
  <2> QED
    BY <2>1, <2>2, <1>a DEF JobHolds
<1> QED
  BY <1>1, <1>2, <1>3, <1>4, <1>5, <1>6, <1>7, <1>8, <1>9, <1>10, <1>11, <1>12 DEF ShadowNext

\* A comparison that was drawn is kept (_persist_economic_shadow_comparison).
LEMMA ComparisonsStay ==
  ASSUME ShadowNext
  PROVE  comparisons \subseteq comparisons'
<1>1. ASSUME NEW a \in ShadowAudits, NEW economic \in BOOLEAN,
             persist_economic_comparison(a, economic)
      PROVE  comparisons \subseteq comparisons'
  BY <1>1 DEF persist_economic_comparison
<1> QED
  BY <1>1, Writers

\* No two candidates track one audit.
LEMMA OneCandidatePerAudit ==
  ASSUME CandidatesHold, NEW c \in Candidates, NEW d \in Candidates,
         candidates[c].audit = candidates[d].audit, candidates[c].audit # "none"
  PROVE  c = d
<1>1. candidates[c].audit = intents[c].audit /\ candidates[d].audit = intents[d].audit
  BY DEF CandidatesHold
<1>2. intents[c].audit # "none" /\ intents[d].audit = intents[c].audit
  BY <1>1
<1>3. \A e \in Candidates : intents[e].audit = intents[c].audit => e = c
  BY <1>2 DEF CandidatesHold
<1> QED
  BY <1>2, <1>3

\* The capture of a candidate that goes on being tracked is closed only for a
\* comparison that is there: not with another candidate's, nor by a report or a
\* restart (close_pending_shadow_audit_capture, _normalize_live_audits).
LEMMA TrackedStep ==
  ASSUME ShadowInv, ShadowNext, RowsTyped'
  PROVE  TrackedIsCaptured'
<1>a. ShadowTypeOK /\ CandidatesHold /\ JobHolds /\ TrackedIsCaptured
  BY DEF ShadowInv
<1>b. captures \in [ShadowAudits -> {"none", "pending", "closed"}]
  BY <1>a DEF ShadowTypeOK
<1> SUFFICES ASSUME NEW c \in Candidates, candidates'[c].state = "tracking_shadow"
             PROVE  \/ captures'[candidates'[c].audit] = "pending"
                    \/ \E k \in comparisons' : k.audit = candidates'[c].audit
  BY DEF TrackedIsCaptured
<1>1. CASE candidates'[c] = candidates[c]
  <2> DEFINE a == candidates[c].audit
  <2>1. /\ c \in Active /\ a # "none" /\ a \in ShadowAudits
        /\ captures[a] = "pending" \/ \E k \in comparisons : k.audit = a
    BY <1>1, <1>a, ShadowFields DEF Active, CandidatesHold, TrackedIsCaptured
  <2>2. CASE \E k \in comparisons : k.audit = a
    BY <2>2, <1>1, ComparisonsStay
  <2>3. CASE captures[a] = "pending"
    <3>1. CASE captures' = captures
      BY <3>1, <2>3, <1>1
    <3>2. CASE captures' = ClosedWith /\ candidates' = Expired
      <4>1. c \notin Expiring
        BY <3>2, <1>1, <1>a, ExpiryFields
      <4>2. ~\E d \in Expiring : candidates[d].audit = a
        BY <4>1, <2>1, <1>a, ExpiringIsActive, OneCandidatePerAudit
      <4> QED
        BY <3>2, <4>2, <2>1, <2>3, <1>1, <1>a, ExpiryFields
    <3>4. CASE captures' = Normalized
      BY <3>4, <2>1, <2>3, <1>1, <1>a, NormalizedFields
    <3>5. CASE close_pending_shadow_audit_capture
      <4>1. /\ captures' = [captures EXCEPT ![job.audit] = IF @ = "pending" THEN "closed" ELSE @]
            /\ \E k \in comparisons : k.audit = job.audit
        BY <3>5, <1>a DEF close_pending_shadow_audit_capture, JobHolds
      <4>2. a = job.audit \/ captures'[a] = captures[a]
        BY <4>1, <2>1, <1>b
      <4> QED
        BY <4>1, <4>2, <2>3, <1>1, ComparisonsStay
    <3>6. ASSUME NEW d \in Candidates, NEW b \in ShadowAudits,
                 NEW answer \in {"ready", "blocked", "raises"}, quote_shadow_intent(d, b, answer)
          PROVE  captures'[a] = "pending"
      <4>1. captures' = captures \/ captures' = [captures EXCEPT ![b] = "pending"]
        BY <3>6 DEF quote_shadow_intent, save_shadow_quote_audit_capture, quoteVars
      <4> QED
        BY <4>1, <2>1, <2>3, <1>b
    <3> QED
      BY <3>1, <3>2, <3>4, <3>5, <3>6, <1>1, Writers
  <2> QED
    BY <2>1, <2>2, <2>3
<1>2. CASE candidates'[c] # candidates[c]
  <2>1. /\ track_shadow_candidate(c) /\ ValidAudit(intents[c].audit)
        /\ candidates'[c].audit = intents[c].audit
    BY <1>2, Moves DEF CandidateMoves
  <2>2. captures' = captures
    BY <2>1 DEF track_shadow_candidate, quoteVars
  <2> QED
    BY <2>1, <2>2 DEF ValidAudit
<1> QED
  BY <1>1, <1>2

\* A candidate is completed by the comparison of the audit it tracks
\* (complete_shadow_candidates after _persist_economic_shadow_comparison).
LEMMA CompleteStep ==
  ASSUME ShadowInv, ShadowNext, RowsTyped'
  PROVE  CompleteHasEvidence'
<1>a. ShadowTypeOK /\ CandidatesHold /\ JobHolds /\ CompleteHasEvidence /\ QuotesKept
  BY Growth DEF ShadowInv
<1> SUFFICES ASSUME NEW c \in Candidates, candidates'[c].state = "complete"
             PROVE  /\ \E k \in comparisons' : k.audit = candidates'[c].audit
                    /\ shadow_audits'[candidates'[c].audit].version = candidates'[c].version
                    /\ shadow_audits'[candidates'[c].audit].mint = candidates'[c].mint
  BY DEF CompleteHasEvidence
<1> DEFINE a == candidates[c].audit
<1>1. CASE candidates'[c] = candidates[c]
  <2>1. /\ \E k \in comparisons : k.audit = a
        /\ shadow_audits[a].version = candidates[c].version
        /\ shadow_audits[a].mint = candidates[c].mint
    BY <1>1, <1>a DEF CompleteHasEvidence
  <2>2. a \in ShadowAudits /\ shadow_audits[a].status # "none"
    BY <1>1, <1>a, ShadowFields DEF CandidatesHold
  <2> QED
    BY <1>1, <2>1, <2>2, <1>a, ComparisonsStay DEF QuotesKept
<1>2. CASE candidates'[c] # candidates[c]
  <2>1. /\ complete_shadow_candidates /\ candidates[c].state = "tracking_shadow"
        /\ a = job.audit
        /\ candidates'[c].mint = candidates[c].mint
        /\ candidates'[c].version = candidates[c].version
        /\ candidates'[c].audit = a
    BY <1>2, Moves DEF CandidateMoves
  <2>2. /\ shadow_audits' = shadow_audits /\ comparisons' = comparisons
        /\ \E k \in comparisons : k.audit = a
    BY <2>1, <1>a DEF complete_shadow_candidates, quoteVars, JobHolds
  <2>3. a # "none" /\ a = intents[c].audit
    BY <2>1, <1>a DEF CandidatesHold
  <2>4. /\ shadow_audits[a].version = candidates[c].version
        /\ shadow_audits[a].mint = intents[c].mint
    BY <2>3, <1>a DEF CandidatesHold
  <2>5. candidates[c].mint = intents[c].mint
    BY <2>1, <1>a DEF ShadowTypeOK
  <2> QED
    BY <2>1, <2>2, <2>4, <2>5
<1> QED
  BY <1>1, <1>2

\* A candidate expires together with its capture
\* (_expire_shadow_tracking_candidates).
LEMMA ExpiredStep ==
  ASSUME ShadowInv, ShadowNext, RowsTyped'
  PROVE  ExpiredIsClosed'
<1>a. ShadowTypeOK /\ CandidatesHold /\ ExpiredIsClosed /\ CapturesKept
  BY Growth DEF ShadowInv
<1> SUFFICES ASSUME NEW c \in Candidates, candidates'[c].state = "expired",
                    candidates'[c].audit # "none"
             PROVE  captures'[candidates'[c].audit] = "closed"
  BY DEF ExpiredIsClosed
<1> DEFINE a == candidates[c].audit
<1>1. candidates'[c].audit = a /\ a # "none" /\ a \in ShadowAudits
  BY Moves, <1>a, ShadowFields DEF CandidateMoves
<1>2. CASE candidates'[c] = candidates[c]
  BY <1>1, <1>2, <1>a DEF ExpiredIsClosed, CapturesKept
<1>3. CASE candidates'[c] # candidates[c]
  <2>1. c \in Expiring /\ captures' = ClosedWith
    BY <1>3, Moves DEF CandidateMoves
  <2>2. candidates[c].state = "tracking_shadow"
    BY <2>1, <1>1, <1>a, ExpiringIsActive DEF CandidatesHold
  <2>3. captures[a] # "none"
    BY <2>2, <1>a DEF ShadowTypeOK
  <2> QED
    BY <2>1, <2>3, <1>1, <1>a, ExpiryFields
<1> QED
  BY <1>2, <1>3

\* Candidates are promoted one at a time, so that there are finitely many.
LEMMA PromotedStep ==
  ASSUME ShadowInv, ShadowNext
  PROVE  IsFiniteSet(Promoted')
<1>1. Promoted' \subseteq Promoted \cup {job.candidate}
  <2> SUFFICES ASSUME NEW c \in Candidates, candidates'[c].state # "none", c # job.candidate
               PROVE  candidates[c].state # "none"
    BY DEF Promoted
  <2> QED
    BY Moves, ExpiringIsActive DEF CandidateMoves
<1>2. IsFiniteSet(Promoted \cup {job.candidate})
  BY FS_AddElement DEF ShadowInv
<1> QED
  BY <1>1, <1>2, FS_Subset

\* Which steps take slots: a call of generate_live_intents takes those that are
\* free, a promotion one of them; the rest give theirs back or keep them.
LEMMA SlotMoves ==
  ASSUME ShadowInv, ShadowNext, ~generate_live_intents, ~save_shadow_tracking_candidate
  PROVE  job'.slots + Promotion' <= job.slots + Promotion /\ job'.slots + Promotion' \in Nat
<1> USE DEF worldVars, quoteVars
<1>a. ShadowTypeOK /\ job \in Job /\ Idle \in Job /\ job.slots \in Nat
  BY ShadowFields, IdleTyped DEF ShadowInv
<1>b. Promotion \in {0, 1} /\ (job.step # "promoted" => Promotion = 0)
  BY DEF Promotion
<1>c. ASSUME job'.slots \in {0, job.slots}, job'.step # "promoted"
      PROVE  job'.slots + Promotion' <= job.slots + Promotion /\ job'.slots + Promotion' \in Nat
  <2>1. Promotion' = 0
    BY <1>c DEF Promotion
  <2> QED
    BY <2>1, <1>a, <1>b, <1>c
<1>1. CASE UNCHANGED job
  BY <1>1, <1>a, <1>b DEF Promotion
<1>2. ASSUME NEW c \in Candidates, NEW m \in Mints, save_live_intent(c, m)
      PROVE  job'.slots + Promotion' <= job.slots + Promotion /\ job'.slots + Promotion' \in Nat
  <2>1. /\ job' = [job EXCEPT !.step = "promoted", !.candidate = c, !.slots = job.slots - 1]
        /\ job.step = "selected" /\ job.slots > 0
    BY <1>2 DEF save_live_intent
  <2>2. job'.slots = job.slots - 1 /\ job'.step = "promoted"
    BY <2>1, <1>a DEF Job
  <2>3. Promotion' = 1
    BY <2>2 DEF Promotion
  <2> QED
    BY <2>1, <2>2, <2>3, <1>a, <1>b
<1>3. CASE \/ job' \in {Idle, Resumed} \/ (\E c : job' = Dropped(c)) \/ (\E a : job' = Refreshed(a))
  <2>1. job'.slots \in {0, job.slots} /\ job'.step # "promoted"
    BY <1>3, <1>a, JobFields
  <2> QED
    BY <2>1, <1>c
<1>4. CASE \/ bind_accepted_market_observation \/ save_quoted_intent \/ activation_is_over
           \/ close_pending_shadow_audit_capture \/ shadow_report
           \/ (\E c \in Candidates, a \in ShadowAudits, answer \in {"ready", "blocked", "raises"} :
                   quote_shadow_intent(c, a, answer) /\ job' # Dropped(c))
           \/ (\E m \in Mints, clean, exits \in BOOLEAN :
                   save_accepted_market_observation(m, clean, exits))
           \/ (\E a \in ShadowAudits, economic \in BOOLEAN :
                   persist_economic_comparison(a, economic) /\ job' # Refreshed(a))
           \/ (\E c \in Candidates : discard_invalid_audit(c) /\ job' # Dropped(c))
  <2> DEFINE Moved ==
        \/ job' = Resumed
        \/ \E t, u : job' = [job EXCEPT !.step = "activating", !.todo = t, !.audits = u]
        \/ job' = [job EXCEPT !.step = "activating", !.audit = "none"]
        \/ job' = [job EXCEPT !.step = "refreshing"]
        \/ job' = [job EXCEPT !.step = "closing"]
        \/ \E t : job' = [Idle EXCEPT !.step = "refreshing", !.audits = t]
        \/ \E c, a : job' = [job EXCEPT !.step = "captured", !.candidate = c, !.audit = a]
        \/ \E n : job' = [Idle EXCEPT !.step = "saved", !.obs = n]
        \/ \E a : job' = [job EXCEPT !.step = "compared", !.audit = a]
        \/ job.step = "activating" /\ \E c : job' = [job EXCEPT !.final = TRUE, !.candidate = c]
  <2>1. Moved
    <3>1. CASE bind_accepted_market_observation
      BY <3>1 DEF bind_accepted_market_observation
    <3>2. CASE \/ save_quoted_intent \/ activation_is_over
               \/ close_pending_shadow_audit_capture \/ shadow_report
      <4>1. \/ job' = Resumed
            \/ job' = [job EXCEPT !.step = "activating", !.audit = "none"]
            \/ job' = [job EXCEPT !.step = "refreshing"]
            \/ job' = [job EXCEPT !.step = "closing"]
            \/ \E t : job' = [Idle EXCEPT !.step = "refreshing", !.audits = t]
        BY <3>2 DEF save_quoted_intent, activation_is_over,
           close_pending_shadow_audit_capture, shadow_report
      <4> QED
        BY <4>1
    <3>3. ASSUME NEW c \in Candidates, NEW a \in ShadowAudits,
                 NEW answer \in {"ready", "blocked", "raises"},
                 quote_shadow_intent(c, a, answer), job' # Dropped(c)
          PROVE  Moved
      <4>1. job' = [job EXCEPT !.step = "captured", !.candidate = c, !.audit = a]
        BY <3>3 DEF quote_shadow_intent
      <4> QED
        BY <4>1
    <3>4. ASSUME NEW m \in Mints, NEW clean \in BOOLEAN, NEW exits \in BOOLEAN,
                 save_accepted_market_observation(m, clean, exits)
          PROVE  Moved
      <4>1. job' = [Idle EXCEPT !.step = "saved", !.obs = Len(market) + 1]
        BY <3>4 DEF save_accepted_market_observation
      <4> QED
        BY <4>1
    <3>5. ASSUME NEW a \in ShadowAudits, NEW economic \in BOOLEAN,
                 persist_economic_comparison(a, economic), job' # Refreshed(a)
          PROVE  Moved
      <4>1. job' = [job EXCEPT !.step = "compared", !.audit = a]
        BY <3>5 DEF persist_economic_comparison
      <4> QED
        BY <4>1
    <3>6. ASSUME NEW c \in Candidates, discard_invalid_audit(c), job' # Dropped(c)
          PROVE  Moved
      <4>1. job.step = "activating" /\ job' = [job EXCEPT !.final = TRUE, !.candidate = c]
        BY <3>6 DEF discard_invalid_audit
      <4> QED
        BY <4>1
    <3> HIDE DEF Moved
    <3> QED
      BY <1>4, <3>1, <3>2, <3>3, <3>4, <3>5, <3>6
  <2>2. Idle.slots = 0
    BY DEF Idle
  <2>3. job'.slots \in {0, job.slots} /\ job'.step # "promoted"
    BY <2>1, <2>2, <1>a, JobFields DEF Job
  <2> QED
    BY <2>3, <1>c
<1>5. CASE \/ expire_shadow_tracking_candidates \/ EventArrives \/ TimePasses
           \/ strategy_version_changes
           \/ (\E c \in Candidates : cancel_live_intent(c))
           \/ (\E a \in ShadowAudits : QuoteExpires(a))
  BY <1>5, <1>1 DEF expire_shadow_tracking_candidates, EventArrives, TimePasses,
     strategy_version_changes, cancel_live_intent, QuoteExpires
<1>6. CASE promotion_is_over \/ ShadowCrash \/ complete_shadow_candidates
           \/ (\E c \in Candidates : track_shadow_candidate(c))
  BY <1>6, <1>3 DEF promotion_is_over, ShadowCrash, complete_shadow_candidates,
     track_shadow_candidate
<1> QED
  BY <1>2, <1>3, <1>4, <1>5, <1>6 DEF ShadowNext

\* The candidates of the version stay within its trade subscriptions: only a
\* promotion adds one, in a slot its call saw free, and a new version starts with
\* none (generate_live_intents, max_trade_subscriptions).
LEMMA SlotsStep ==
  ASSUME ShadowInv, ShadowNext, RowsTyped'
  PROVE  SlotsHold'
<1>a. /\ ShadowTypeOK /\ CandidatesHold /\ JobHolds /\ IsFiniteSet(Promoted) /\ SlotsHold
      /\ job \in Job /\ Idle \in Job /\ job.slots \in Nat /\ Cap[strategy_version] \in Nat
  BY ShadowFields, IdleTyped DEF ShadowInv
<1>b. IsFiniteSet(Current) /\ Cardinality(Current) \in Nat
  <2>1. Current \subseteq Promoted
    BY DEF Current, Active, Promoted
  <2> QED
    BY <2>1, <1>a, FS_Subset, FS_CardinalityType
<1>c. Promotion \in {0, 1}
  BY DEF Promotion
<1>1. CASE save_shadow_tracking_candidate
  <2> DEFINE n == job.candidate
             m == intents[n].mint
  <2>1. n \in Candidates /\ candidates[n].state = "none" /\ Promotion = 1
    BY <1>1, <1>a DEF save_shadow_tracking_candidate, JobHolds, Promotion
  <2>2. /\ strategy_version' = strategy_version
        /\ candidates' = [candidates EXCEPT ![n] =
              [state |-> "awaiting_entry", mint |-> m,
               version |-> strategy_version, deadline |-> clock + EntryWindow, audit |-> "none"]]
        /\ \/ job' = Resumed
           \/ job' = [job EXCEPT !.step = "activating", !.candidate = "none",
                                 !.todo = {n} \cup Waiting(m, strategy_version)]
    BY <1>1 DEF save_shadow_tracking_candidate, worldVars
  <2>3. /\ candidates'[n].state = "awaiting_entry" /\ candidates'[n].version = strategy_version
        /\ \A d \in Candidates \ {n} : candidates'[d] = candidates[d]
    BY <2>1, <2>2, <1>a DEF ShadowTypeOK
  <2>4. Active' = Active \cup {n} /\ n \notin Active
    BY <2>1, <2>3 DEF Active
  <2>5. Current' = Current \cup {n} /\ n \notin Current
    BY <2>2, <2>3, <2>4 DEF Current, Active
  <2>6. Cardinality(Current') = Cardinality(Current) + 1
    BY <2>5, <1>b, FS_AddElement
  <2>7. job'.slots = job.slots /\ job'.step # "promoted"
    BY <2>2, <1>a, JobFields DEF Job
  <2>8. Promotion' = 0
    BY <2>7 DEF Promotion
  <2> QED
    BY <2>1, <2>2, <2>6, <2>7, <2>8, <1>a, <1>b DEF SlotsHold
<1>2. CASE generate_live_intents
  <2>1. PICK free \in 1..Cap[strategy_version] :
           /\ Cardinality(SlotsTaken) + free = Cap[strategy_version]
           /\ job' = [Idle EXCEPT !.step = "selected", !.slots = free, !.excluded = AtHand]
    BY <1>2 DEF generate_live_intents
  <2>2. candidates' = Expired /\ strategy_version' = strategy_version
    BY <1>2 DEF generate_live_intents, worldVars
  <2>3. job'.slots = free /\ job'.step = "selected"
    BY <2>1, <1>a DEF Job
  <2>4. Promotion' = 0
    BY <2>3 DEF Promotion
  <2>5. Active' = SlotsTaken /\ \A d \in SlotsTaken : candidates'[d] = candidates[d]
    <3>1. \A d \in Candidates : /\ d \in Expiring => candidates'[d].state = "expired"
                                /\ d \notin Expiring => candidates'[d] = candidates[d]
      BY <2>2, <1>a, ExpiryFields
    <3> QED
      BY <3>1 DEF Active, SlotsTaken
  <2>6. \A d \in SlotsTaken : candidates[d].version = strategy_version
    BY DEF SlotsTaken, Expiring
  <2>7. Current' = SlotsTaken
    BY <2>2, <2>5, <2>6 DEF Current
  <2>8. SlotsTaken \subseteq Promoted
    BY DEF SlotsTaken, Active, Promoted
  <2>9. Cardinality(SlotsTaken) \in Nat
    BY <2>8, <1>a, FS_Subset, FS_CardinalityType
  <2> QED
    BY <2>1, <2>2, <2>3, <2>4, <2>7, <2>9, <1>a DEF SlotsHold
<1>3. CASE ~save_shadow_tracking_candidate /\ ~generate_live_intents
  <2>1. \A c \in Active' : c \in Active /\ candidates'[c].version = candidates[c].version
    BY <1>3, Moves DEF CandidateMoves, Active
  <2>2. job'.slots + Promotion' <= job.slots + Promotion /\ job'.slots + Promotion' \in Nat
    BY <1>3, SlotMoves
  <2>3. job'.slots \in Nat /\ Promotion' \in {0, 1}
    BY DEF RowsTyped, Job, Promotion
  <2>4. CASE strategy_version' = strategy_version
    <3>1. Current' \subseteq Current
      BY <2>1, <2>4 DEF Current
    <3>2. Cardinality(Current') <= Cardinality(Current) /\ Cardinality(Current') \in Nat
      BY <3>1, <1>b, FS_Subset, FS_CardinalityType
    <3> QED
      BY <3>2, <2>2, <2>3, <2>4, <1>a, <1>b, <1>c DEF SlotsHold
  <2>5. CASE strategy_version_changes
    <3>1. strategy_version' = strategy_version + 1 /\ strategy_version \in Nat
      BY <2>5, <1>a, ShadowFields, ShadowConstants DEF strategy_version_changes
    <3>2. \A c \in Active' : /\ candidates'[c].version \in Nat
                             /\ candidates'[c].version <= strategy_version
      BY <2>1, <1>a, ShadowFields, ShadowConstants DEF CandidatesHold, Active
    <3>3. Current' = {}
      BY <3>1, <3>2 DEF Current
    <3>4. job' = job /\ job.step = "idle" /\ job.slots = 0
      BY <2>5, <1>a DEF strategy_version_changes, JobHolds
    <3>5. Promotion' = 0 /\ Cap[strategy_version'] \in Nat
      BY <3>4, ShadowConstants DEF Promotion, RowsTyped
    <3>6. Cardinality(Current') = 0
      BY <3>3, FS_EmptySet
    <3> QED
      BY <3>4, <3>5, <3>6 DEF SlotsHold
  <2> QED
    BY <2>4, <2>5, Writers
<1> QED
  BY <1>1, <1>2, <1>3

\* Every step keeps the invariant.
LEMMA ShadowStep == ShadowInv /\ [ShadowNext]_shadowVars => ShadowInv'
<1> SUFFICES ASSUME ShadowInv, [ShadowNext]_shadowVars PROVE ShadowInv'
  OBVIOUS
<1>1. CASE ShadowNext
  <2>1. RowsTyped'
    BY <1>1, RowsStep
  <2>2. CandidatesHold'
    BY <1>1, <2>1, CandidatesStep
  <2>3. ShadowTypeOK'
    BY <1>1, <2>1, <2>2, LinksStep
  <2>4. BindingsHold' /\ NoLookAhead'
    BY <1>1, <2>1, BindingsStep
  <2>5. JobHolds'
    BY <1>1, <2>1, <2>3, JobStep
  <2>6. TrackedIsCaptured' /\ CompleteHasEvidence' /\ ExpiredIsClosed'
    BY <1>1, <2>1, TrackedStep, CompleteStep, ExpiredStep
  <2>7. IsFiniteSet(Promoted')
    BY <1>1, PromotedStep
  <2>8. SlotsHold'
    BY <1>1, <2>1, SlotsStep
  <2> QED
    BY <2>2, <2>3, <2>4, <2>5, <2>6, <2>7, <2>8 DEF ShadowInv
<1>2. CASE UNCHANGED shadowVars
  <2> USE <1>2 DEF shadowVars
  <2>1. ShadowTypeOK' /\ IsFiniteSet(Promoted)'
    BY DEF ShadowInv, ShadowTypeOK, Promoted
  <2>2. CandidatesHold' /\ BindingsHold'
    BY DEF ShadowInv, CandidatesHold, BindingsHold
  <2>3. Active' = Active /\ Current' = Current
    BY DEF Active, Current
  <2>4. JobHolds'
    BY <2>3 DEF ShadowInv, JobHolds
  <2>5. NoLookAhead' /\ TrackedIsCaptured' /\ CompleteHasEvidence' /\ ExpiredIsClosed'
    BY DEF ShadowInv, NoLookAhead, TrackedIsCaptured, CompleteHasEvidence, ExpiredIsClosed
  <2>6. SlotsHold'
    BY <2>3 DEF ShadowInv, SlotsHold, Promotion
  <2> QED
    BY <2>1, <2>2, <2>4, <2>5, <2>6 DEF ShadowInv
<1> QED
  BY <1>1, <1>2

-----------------------------------------------------------------------------
(* The theorems.                                                           *)

\* What the evidence reports count is evidence, for any candidates, audits,
\* mints, windows, late events and restarts: no comparison looks ahead, a
\* tracked candidate can be completed and is completed by its own comparison, an
\* expired one collects nothing more, and the candidates of a version, each on a
\* quote of its own, stay within its cap
\* (_refresh_shadow_comparisons, _expire_shadow_tracking_candidates).
THEOREM EvidenceIsSoundAlways == ShadowSpec => []EvidenceIsSound
<1>1. ShadowInv => CandidatesWithinCap
  <2> SUFFICES ASSUME ShadowInv PROVE CandidatesWithinCap
    OBVIOUS
  <2>1. /\ ShadowTypeOK /\ CandidatesHold /\ IsFiniteSet(Promoted) /\ SlotsHold
        /\ job.slots \in Nat /\ Cap[strategy_version] \in Nat /\ Promotion \in {0, 1}
    BY ShadowFields DEF ShadowInv, Promotion
  <2>2. Current \subseteq Promoted
    BY DEF Current, Active, Promoted
  <2>3. Cardinality(Current) \in Nat
    BY <2>1, <2>2, FS_Subset, FS_CardinalityType
  <2>4. Cardinality(Current) <= Cap[strategy_version]
    BY <2>1, <2>3 DEF SlotsHold
  <2> QED
    BY <2>1, <2>4, OneCandidatePerAudit DEF CandidatesWithinCap, Current
<1>2. ShadowInv => EvidenceIsSound
  BY <1>1 DEF ShadowInv, EvidenceIsSound
<1> QED
  BY ShadowInitially, ShadowStep, <1>2, PTL DEF ShadowSpec

\* Every row and the handler under way keep their types, a capture has a quote
\* that was ready, and a tracked candidate a capture (models.py).
THEOREM ShadowTypeCorrect == ShadowSpec => []ShadowTypeOK
<1>1. ShadowInv => ShadowTypeOK
  BY DEF ShadowInv
<1> QED
  BY ShadowInitially, ShadowStep, <1>1, PTL DEF ShadowSpec
=============================================================================
