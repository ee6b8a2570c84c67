------------------------- MODULE LiveExecutionProofs -------------------------
(***************************************************************************)
(* Proofs about LiveExecution, for any intents, audits and keys.           *)
(*                                                                         *)
(* First what the handlers' assignments keep typed, then the two largest   *)
(* steps reduced to what the invariants see of them, then one lemma per    *)
(* part of the inductive invariant, with one step per action, and last the *)
(* theorems.                                                               *)
(***************************************************************************)
EXTENDS LiveExecution, TLAPS

-----------------------------------------------------------------------------
(* Typed updates: what each kind of assignment makes of a variable *)

\* Counting a recovery attempt stays within the saturated counter
\* (recover_live_audit).
LEMMA AttemptedTyped == \A n \in 0..AttemptCap : Attempted(n) \in 0..AttemptCap
  BY ConstantsAssumption DEF Attempted, AttemptCap

\* An intent whose status is set, as most handlers do, is still an intent.
LEMMA IntentStatusTyped ==
  ASSUME intents \in [Intents -> IntentRow], NEW i, NEW st \in IntentStatus
  PROVE  [intents EXCEPT ![i].status = st] \in [Intents -> IntentRow]
  BY DEF IntentRow

\* An intent that takes a new quote's status and audit is still an intent
\* (quote_live_intent).
LEMMA IntentQuotedTyped ==
  ASSUME intents \in [Intents -> IntentRow], NEW i, NEW st \in IntentStatus,
         NEW a \in Audits \cup {None}
  PROVE  [intents EXCEPT ![i].status = st, ![i].audit = a] \in [Intents -> IntentRow]
  BY DEF IntentRow

\* A generated intent, bound to its position or not, is an intent
\* (generate_live_intents).
LEMMA IntentGeneratedTyped ==
  ASSUME intents \in [Intents -> IntentRow], NEW i, NEW st \in IntentStatus,
         NEW b \in BOOLEAN
  PROVE  [intents EXCEPT ![i].status = st, ![i].bound = b] \in [Intents -> IntentRow]
  BY DEF IntentRow

\* A new position version leaves every intent an intent (close_position's
\* binding).
LEMMA UnboundTyped ==
  ASSUME intents \in [Intents -> IntentRow]
  PROVE  Unbound \in [Intents -> IntentRow]
  BY DEF IntentRow, Unbound

\* An audit whose status is set is still an audit.
LEMMA AuditStatusTyped ==
  ASSUME audits \in [Audits -> AuditRow], NEW a, NEW st \in AuditStatus
  PROVE  [audits EXCEPT ![a].status = st] \in [Audits -> AuditRow]
  BY DEF AuditRow

\* An audit that recovery gives a status and an attempt is still an audit
\* (recover_live_audit).
LEMMA AuditRecoveredTyped ==
  ASSUME audits \in [Audits -> AuditRow], NEW a, NEW st \in AuditStatus
  PROVE  [audits EXCEPT ![a].status = st, ![a].attempts = Attempted(@)]
            \in [Audits -> AuditRow]
  BY AttemptedTyped DEF AuditRow

\* An audit that records a signature is still an audit (live_submit).
LEMMA AuditSignedTyped ==
  ASSUME audits \in [Audits -> AuditRow], NEW a, NEW st \in AuditStatus,
         NEW signed \in BOOLEAN
  PROVE  [audits EXCEPT ![a].status = st, ![a].sig = signed] \in [Audits -> AuditRow]
<1>1. \A r \in AuditRow : [r EXCEPT !.status = st, !.sig = signed] \in AuditRow
  BY DEF AuditRow
<1> QED
  BY <1>1

\* An audit that a caller of live_confirm reports on is still an audit.
LEMMA AuditReportedTyped ==
  ASSUME audits \in [Audits -> AuditRow], NEW a \in Audits, NEW st \in AuditStatus,
         NEW b \in BOOLEAN
  PROVE  [audits EXCEPT ![a].status = st, ![a].misled = @ \/ b] \in [Audits -> AuditRow]
<1>1. (audits[a].misled \/ b) \in BOOLEAN
  BY DEF AuditRow
<1>2. \A r \in AuditRow, m \in BOOLEAN : [r EXCEPT !.status = st, !.misled = m] \in AuditRow
  BY DEF AuditRow
<1> QED
  BY <1>1, <1>2

\* An audit that reconciliation writes is still an audit
\* (_reconcile_live_audit).
LEMMA AuditReconTyped ==
  ASSUME audits \in [Audits -> AuditRow], NEW a, NEW st \in AuditStatus,
         NEW rc \in Reconciliation
  PROVE  [audits EXCEPT ![a].recon = rc, ![a].status = st] \in [Audits -> AuditRow]
<1>1. \A r \in AuditRow : [r EXCEPT !.recon = rc, !.status = st] \in AuditRow
  BY DEF AuditRow
<1> QED
  BY <1>1

\* An audit whose dispatch is marked, or whose quote expired, is still an audit
\* (begin_mobile_execution_dispatch).
LEMMA AuditFlagsTyped ==
  ASSUME audits \in [Audits -> AuditRow], NEW a
  PROVE  /\ [audits EXCEPT ![a].fresh = FALSE] \in [Audits -> AuditRow]
         /\ [audits EXCEPT ![a].dispatched = TRUE] \in [Audits -> AuditRow]
<1>1. \A r \in AuditRow : /\ [r EXCEPT !.fresh = FALSE] \in AuditRow
                          /\ [r EXCEPT !.dispatched = TRUE] \in AuditRow
  BY DEF AuditRow
<1> QED
  BY <1>1

\* An audit that a guarded action claims is still an audit
\* (reserve_mobile_execution_action).
LEMMA AuditClaimedTyped ==
  ASSUME audits \in [Audits -> AuditRow], NEW a, NEW st \in AuditStatus, NEW k \in Keys
  PROVE  [audits EXCEPT ![a].status = st, ![a].owner = k, ![a].dispatched = FALSE]
            \in [Audits -> AuditRow]
<1>1. \A r \in AuditRow :
         [r EXCEPT !.status = st, !.owner = k, !.dispatched = FALSE] \in AuditRow
  BY DEF AuditRow
<1> QED
  BY <1>1

\* A quote makes an audit of an unused identity (live_quote).
LEMMA AuditQuotedTyped ==
  ASSUME audits \in [Audits -> AuditRow], NEW a, NEW st \in AuditStatus,
         NEW i \in Intents, NEW b \in BOOLEAN
  PROVE  [audits EXCEPT ![a] = [NoAudit EXCEPT !.status = st, !.intent = i,
                                               !.fresh = TRUE, !.tx = b]]
            \in [Audits -> AuditRow]
<1>1. 0 \in 0..AttemptCap /\ 0 \in 0..MaxSimulations
  BY ConstantsAssumption DEF AttemptCap
<1> QED
  BY <1>1 DEF AuditRow, NoAudit, Reconciliation

\* A simulation within its bound leaves an audit an audit (live_simulate).
LEMMA AuditSimulatedTyped ==
  ASSUME audits \in [Audits -> AuditRow], NEW a \in Audits, NEW st \in AuditStatus,
         audits[a].sims < MaxSimulations, NEW b \in BOOLEAN
  PROVE  [audits EXCEPT ![a].status = st, ![a].sims = @ + 1, ![a].again = @ \/ b]
            \in [Audits -> AuditRow]
<1>1. audits[a].sims + 1 \in 0..MaxSimulations
  BY ConstantsAssumption DEF AuditRow
<1>2. (audits[a].again \/ b) \in BOOLEAN
  BY DEF AuditRow
<1>3. \A r \in AuditRow, n \in 0..MaxSimulations, m \in BOOLEAN :
         [r EXCEPT !.status = st, !.sims = n, !.again = m] \in AuditRow
  BY DEF AuditRow
<1> QED
  BY <1>1, <1>2, <1>3

\* A receipt whose status is set is still a receipt
\* (save_mobile_action_receipt).
LEMMA ReceiptStatusTyped ==
  ASSUME receipts \in [Keys -> ReceiptRow], NEW k, NEW st \in ReceiptStatus
  PROVE  [receipts EXCEPT ![k].status = st] \in [Keys -> ReceiptRow]
  BY DEF ReceiptRow

\* A receipt written for a key is a receipt (apply_mobile_trade_rejection and
\* the claim).
LEMMA ReceiptWrittenTyped ==
  ASSUME receipts \in [Keys -> ReceiptRow], NEW k, NEW st \in ReceiptStatus,
         NEW a \in Audits \cup {None}
  PROVE  [receipts EXCEPT ![k] = [status |-> st, audit |-> a]] \in [Keys -> ReceiptRow]
  BY DEF ReceiptRow

\* A new intent version leaves what the phones reviewed well typed.
LEMMA BumpedTyped ==
  ASSUME phone \in [Keys -> ReviewRow], NEW i
  PROVE  Bumped(i) \in [Keys -> ReviewRow]
  BY DEF ReviewRow, Bumped

\* A review of an existing intent is well typed (_trade_detail).
LEMMA ReviewedTyped ==
  ASSUME phone \in [Keys -> ReviewRow], NEW k, NEW i \in Intents,
         NEW a \in Audits \cup {None}
  PROVE  [phone EXCEPT ![k] = [intent |-> i, audit |-> a, current |-> TRUE]]
            \in [Keys -> ReviewRow]
  BY DEF ReviewRow

\* What a handler in flight may become at its next step is a job.
LEMMA JobTyped ==
  ASSUME job \in Job, NEW st \in Step
  PROVE  /\ Idle \in Job /\ Done \in Job
         /\ [job EXCEPT !.step = st] \in Job
         /\ [job EXCEPT !.step = st, !.op = "recover"] \in Job
<1>1. Idle \in Job
  BY DEF Job, Idle, Step, Op
<1>2. [job EXCEPT !.step = st] \in Job
  BY DEF Job
<1>3. Done \in Job
  BY <1>1 DEF Done, Job, Step
<1>4. [job EXCEPT !.step = st, !.op = "recover"] \in Job
  BY DEF Job, Op
<1> QED
  BY <1>1, <1>2, <1>3, <1>4

\* A handler that carries a verdict to its next commit is a job.
LEMMA VerdictTyped ==
  ASSUME job \in Job, NEW st \in Step, NEW v \in {"needs_review",
         "failed", "matched"}
  PROVE  [job EXCEPT !.step = st, !.verdict = v] \in Job
  BY DEF Job

\* A handler that starts on an audit is a job.
LEMMA NewJobTyped ==
  ASSUME NEW st \in Step, NEW op \in Op, NEW a \in Audits, NEW k \in
         Keys \cup {None}
  PROVE  /\ [Idle EXCEPT !.step = st, !.audit = a] \in Job
         /\ [Idle EXCEPT !.step = st, !.audit = a, !.key = k] \in Job
         /\ [Idle EXCEPT !.step = st, !.op = op, !.audit = a] \in Job
         /\ [Idle EXCEPT !.step = st, !.op = op, !.audit = a, !.key = k] \in Job
  BY DEF Job, Idle, Op

\* What the types say of a row's fields.
LEMMA FieldsTyped ==
  ASSUME TypeOK
  PROVE  /\ job.step \in Step /\ job.audit \in Audits \cup {None}
         /\ job.key \in Keys \cup {None}
         /\ \A a \in Audits : /\ audits[a].status \in AuditStatus
                              /\ audits[a].intent \in Intents \cup {None}
                              /\ audits[a].owner \in Keys \cup {None}
                              /\ audits[a].dispatched \in BOOLEAN
         /\ \A i \in Intents : /\ intents[i].audit \in Audits \cup {None}
                               /\ intents[i].status \in IntentStatus
         /\ \A k \in Keys : /\ receipts[k].audit \in Audits \cup {None}
                            /\ receipts[k].status \in ReceiptStatus
                            /\ phone[k].intent \in Intents \cup {None}
                            /\ phone[k].audit \in Audits \cup {None}
                            /\ phone[k].current \in BOOLEAN
  BY DEF TypeOK, Job, AuditRow, IntentRow, ReceiptRow, ReviewRow

\* A fill leaves the position a position (_record_live_fill).
LEMMA FilledTyped ==
  ASSUME position \in PositionRow, NEW b \in BOOLEAN
  PROVE  [position EXCEPT !.open = b, !.recon = "pending"] \in PositionRow
  BY DEF PositionRow, Reconciliation

-----------------------------------------------------------------------------
(* The two largest steps, by what the invariants see of them *)

\* recover_live_audit, by what the invariants see of it: it changes the status
\* of its audit, the intent and the handler, and calls confirmed only what RPC
\* saw landed.
LEMMA RecoveryFrame ==
  ASSUME TypeOK, recover_live_audit
  PROVE  /\ job'.step \in {"idle", "receipt", "fill", "escalate"}
         /\ \A a \in Audits : /\ audits'[a].owner = audits[a].owner
                              /\ audits'[a].dispatched = audits[a].dispatched
                              /\ audits'[a].misled = audits[a].misled
                              /\ audits'[a].status = "none" => audits[a].status = "none"
         /\ \A i \in Intents : intents'[i].audit = intents[i].audit
         /\ UNCHANGED <<receipts, phone, dispatches, chain, fills>>
<1>1. job'.step \in {"idle", "receipt", "fill", "escalate"}
  <2>1. \/ job' = Idle
        \/ \E st \in {"receipt", "fill"} : job' = [job EXCEPT !.step = st]
        \/ \E v \in {"needs_review", "failed"} :
             job' = [job EXCEPT !.step = "escalate", !.verdict = v]
    BY DEF recover_live_audit, Escalate, Goto, Done
  <2>2. Idle.step = "idle"
    BY DEF Idle
  <2>3. \A st : [job EXCEPT !.step = st].step = st
    BY DEF TypeOK, Job
  <2>4. \A v : [job EXCEPT !.step = "escalate", !.verdict = v].step = "escalate"
    BY DEF TypeOK, Job
  <2> QED
    BY <2>1, <2>2, <2>3, <2>4
<1>2. \/ audits' = audits
      \/ \E st \in {"stale", "needs_review", "submitted", "confirmed"} :
           audits' = [audits EXCEPT ![job.audit].status = st,
                                    ![job.audit].attempts = Attempted(@)]
  BY DEF recover_live_audit, Recovered, Escalate, UnsignedVerdict
<1>3. \A a \in Audits : /\ audits'[a].owner = audits[a].owner
                        /\ audits'[a].dispatched = audits[a].dispatched
                        /\ audits'[a].misled = audits[a].misled
                        /\ audits'[a].status = "none" => audits[a].status = "none"
  <2>1. ASSUME NEW st \in {"stale", "needs_review", "submitted", "confirmed"},
               audits' = [audits EXCEPT ![job.audit].status = st,
                                        ![job.audit].attempts = Attempted(@)]
        PROVE  \A a \in Audits :
                  /\ audits'[a].owner = audits[a].owner
                  /\ audits'[a].dispatched = audits[a].dispatched
                  /\ audits'[a].misled = audits[a].misled
                  /\ audits'[a].status = "none" => audits[a].status = "none"
    BY <2>1 DEF TypeOK, AuditRow
  <2> QED
    BY <1>2, <2>1
<1>4. \/ intents' = intents
      \/ intents' = [intents EXCEPT ![audits[job.audit].intent].status = "needs_review"]
  BY DEF recover_live_audit, Recovered, Escalate
<1>5. \A i \in Intents : intents'[i].audit = intents[i].audit
  BY <1>4 DEF TypeOK, IntentRow
<1> QED
  BY <1>1, <1>3, <1>5 DEF recover_live_audit

\* A report, by what the invariants see of it: the audit is confirmed or failed,
\* and misled if the caller said what the chain had not decided (live_confirm).
LEMMA ReportFrame ==
  ASSUME TypeOK, NEW a \in Audits, live_confirm(a)
  PROVE  /\ \E said \in {"landed", "failed"} :
              /\ audits'[a].status = IF said = "landed" THEN "confirmed" ELSE "failed"
              /\ audits'[a].misled = (audits[a].misled \/ chain[a] # said)
         /\ audits[a].status # "none"
         /\ audits'[a].status \in {"confirmed", "failed"}
         /\ audits'[a].owner = audits[a].owner /\ audits'[a].tx = audits[a].tx
         /\ audits'[a].dispatched = audits[a].dispatched
         /\ audits'[a].intent = audits[a].intent /\ audits'[a].fresh = audits[a].fresh
         /\ audits'[a].again = audits[a].again
         /\ \A b \in Audits \ {a} : audits'[b] = audits[b]
         /\ UNCHANGED <<receipts, phone, dispatches, chain, fills>>
<1>1. PICK said \in {"landed", "failed"} : audits' = [audits EXCEPT
           ![a].status = IF said = "landed" THEN "confirmed" ELSE "failed",
           ![a].misled = @ \/ chain[a] # said]
  BY DEF live_confirm
<1>2. audits[a] \in AuditRow
  BY DEF TypeOK
<1>3. /\ audits'[a].status = IF said = "landed" THEN "confirmed" ELSE "failed"
      /\ audits'[a].misled = (audits[a].misled \/ chain[a] # said)
      /\ audits'[a].owner = audits[a].owner /\ audits'[a].tx = audits[a].tx
      /\ audits'[a].dispatched = audits[a].dispatched
      /\ audits'[a].intent = audits[a].intent /\ audits'[a].fresh = audits[a].fresh
      /\ audits'[a].again = audits[a].again
      /\ \A b \in Audits \ {a} : audits'[b] = audits[b]
  BY <1>1, <1>2 DEF TypeOK, AuditRow
<1>4. audits[a].status # "none" /\ UNCHANGED <<receipts, phone, dispatches, chain, fills>>
  BY DEF live_confirm
<1> QED
  BY <1>3, <1>4

\* The claim, by what the invariants see of it: the audit gets its owner, the
\* key its receipt, and the intent a new version
\* (reserve_mobile_execution_action).
LEMMA ClaimFrame ==
  ASSUME TypeOK, NEW k \in Keys, approve_prepared_intent(k)
  PROVE  \E i \in Intents, a \in Audits :
           /\ phone[k].intent = i /\ phone[k].current /\ intents[i].audit = a
           /\ receipts[k].status = "none" /\ audits[a].status = "simulated"
           /\ Unclaimed(a)
           /\ audits' = [audits EXCEPT ![a].status = "submitting", ![a].owner = k,
                                       ![a].dispatched = FALSE]
           /\ intents' = [intents EXCEPT ![i].status = "submitting"]
           /\ phone' = Bumped(i)
           /\ receipts' = [receipts EXCEPT ![k] = [status |-> "pending", audit |-> a]]
           /\ job' = [Idle EXCEPT !.step = "claimed", !.op = "submit", !.audit = a,
                                  !.key = k]
           /\ UNCHANGED <<dispatches, chain, fills>>
<1> DEFINE i == phone[k].intent
           a == intents[phone[k].intent].audit
<1>1. i \in Intents /\ a \in Audits
  BY FieldsTyped DEF approve_prepared_intent, reserve_mobile_execution_action
<1>2. audits[a].status = "simulated"
  BY DEF approve_prepared_intent, reserve_mobile_execution_action, TradeValid
<1> QED
  BY <1>1, <1>2 DEF approve_prepared_intent, reserve_mobile_execution_action, VersionCurrent

-----------------------------------------------------------------------------
(* Type correctness *)

\* Every step keeps every variable in its type.
LEMMA TypeNext ==
  ASSUME TypeOK, HandlerFits, LocalReceiptIsTerminal, [Next]_vars
  PROVE  TypeOK'
<1>1. CASE bind_quoted_intent
  <2>1. intents' \in [Intents -> IntentRow]
    <3>1. QuotedStatus(job.audit) \in IntentStatus
      BY DEF QuotedStatus, IntentStatus
    <3> QED
      BY <1>1, <3>1, IntentQuotedTyped, FieldsTyped DEF bind_quoted_intent, TypeOK
  <2>2. phone' \in [Keys -> ReviewRow]
    BY <1>1, BumpedTyped DEF bind_quoted_intent, TypeOK
  <2>3. job' \in Job
    BY <1>1, JobTyped DEF bind_quoted_intent, TypeOK, Step
  <2> QED
    BY <1>1, <2>1, <2>2, <2>3 DEF bind_quoted_intent, TypeOK
<1>2. CASE simulated_intent
  <2>1. intents' \in [Intents -> IntentRow]
    BY <1>2, IntentStatusTyped
    DEF simulated_intent, TypeOK, IntentStatus, HandlerFits, At
  <2>2. phone' \in [Keys -> ReviewRow]
    BY <1>2, BumpedTyped DEF simulated_intent, TypeOK
  <2>3. job' \in Job
    BY <1>2, JobTyped DEF simulated_intent, TypeOK, Step
  <2> QED
    BY <1>2, <2>1, <2>2, <2>3 DEF simulated_intent, TypeOK
<1>3. CASE execute_backend_audit
  <2>1. chain' \in [Audits -> ChainState]
    BY <1>3 DEF execute_backend_audit, TypeOK, ChainState
  <2>2. dispatches' \in [Audits -> Nat]
    BY <1>3 DEF execute_backend_audit, TypeOK, HandlerFits, At
  <2>3. job' \in Job
    BY <1>3, JobTyped DEF execute_backend_audit, TypeOK, Step, Goto
  <2> QED
    BY <1>3, <2>1, <2>2, <2>3 DEF execute_backend_audit, TypeOK
<1>4. CASE save_submitted_audit
  <2>1. audits' \in [Audits -> AuditRow]
    <3>1. PICK signed \in BOOLEAN :
             audits' = [audits EXCEPT ![job.audit].status = "submitted",
                                      ![job.audit].sig = signed]
      BY <1>4 DEF save_submitted_audit
    <3> QED
      BY <3>1, AuditSignedTyped DEF TypeOK, AuditStatus
  <2>2. job' \in Job
    BY <1>4, JobTyped DEF save_submitted_audit, TypeOK, Step, Goto
  <2> QED
    BY <1>4, <2>1, <2>2 DEF save_submitted_audit, TypeOK
<1>5. CASE save_submitted_intent
  <2>1. intents' \in [Intents -> IntentRow]
    BY <1>5, IntentStatusTyped DEF save_submitted_intent, TypeOK, IntentStatus
  <2>2. phone' \in [Keys -> ReviewRow]
    BY <1>5, BumpedTyped DEF save_submitted_intent, TypeOK
  <2>3. job' \in Job
    BY <1>5, JobTyped DEF save_submitted_intent, TypeOK, Step
  <2> QED
    BY <1>5, <2>1, <2>2, <2>3 DEF save_submitted_intent, TypeOK
<1>6. CASE recover_live_audit
  <2>1. \/ audits' = audits
        \/ \E st \in {"stale", "needs_review", "submitted", "confirmed"} :
             audits' = [audits EXCEPT ![job.audit].status = st,
                                      ![job.audit].attempts = Attempted(@)]
    BY <1>6 DEF recover_live_audit, Recovered, Escalate, UnsignedVerdict
  <2>2. audits' \in [Audits -> AuditRow]
    <3>1. ASSUME NEW st \in {"stale", "needs_review", "submitted", "confirmed"},
                 audits' = [audits EXCEPT ![job.audit].status = st,
                                          ![job.audit].attempts = Attempted(@)]
          PROVE  audits' \in [Audits -> AuditRow]
      <4>1. st \in AuditStatus
        BY DEF AuditStatus
      <4> QED
        BY <3>1, <4>1, AuditRecoveredTyped DEF TypeOK
    <3> QED
      BY <2>1, <3>1 DEF TypeOK
  <2>3. \/ intents' = intents
        \/ intents' = [intents EXCEPT ![audits[job.audit].intent].status = "needs_review"]
    BY <1>6 DEF recover_live_audit, Recovered, Escalate
  <2>4. intents' \in [Intents -> IntentRow]
    <3>1. "needs_review" \in IntentStatus
      BY DEF IntentStatus
    <3>2. [intents EXCEPT ![audits[job.audit].intent].status = "needs_review"]
             \in [Intents -> IntentRow]
      BY <3>1, IntentStatusTyped DEF TypeOK
    <3> QED
      BY <2>3, <3>2 DEF TypeOK
  <2>5. job' \in Job
    BY <1>6, JobTyped, VerdictTyped
    DEF recover_live_audit, Escalate, TypeOK, Step, Goto
  <2> QED
    BY <1>6, <2>2, <2>4, <2>5 DEF recover_live_audit, TypeOK
<1>7. CASE save_escalation
  <2>1. audits' \in [Audits -> AuditRow]
    BY <1>7, AuditRecoveredTyped
    DEF save_escalation, TypeOK, HandlerFits, At, AuditStatus
  <2>2. job' \in Job
    BY <1>7, JobTyped DEF save_escalation, TypeOK, Step
  <2> QED
    BY <1>7, <2>1, <2>2 DEF save_escalation, TypeOK
<1>8. CASE confirmed_intent
  <2>1. intents' \in [Intents -> IntentRow]
    BY <1>8, IntentStatusTyped DEF confirmed_intent, TypeOK, IntentStatus
  <2>2. phone' \in [Keys -> ReviewRow]
    BY <1>8, BumpedTyped DEF confirmed_intent, TypeOK
  <2>3. job' \in Job
    BY <1>8, JobTyped DEF confirmed_intent, TypeOK, Step
  <2> QED
    BY <1>8, <2>1, <2>2, <2>3 DEF confirmed_intent, TypeOK
<1>9. CASE record_live_fill
  <2>1. fills' \in [Audits -> Nat]
    BY <1>9 DEF record_live_fill, TypeOK
  <2>2. intents' \in [Intents -> IntentRow]
    BY <1>9, UnboundTyped DEF record_live_fill, TypeOK
  <2>3. position' \in PositionRow
    <3> DEFINE bought == audits[job.audit].intent \in Buys
    <3>1. bought \in BOOLEAN
      OBVIOUS
    <3>2. \/ position' = position
          \/ position' = [position EXCEPT !.open = bought, !.recon = "pending"]
      BY <1>9, Zenon DEF record_live_fill
    <3> HIDE DEF bought
    <3> QED
      BY <3>1, <3>2, FilledTyped DEF TypeOK
  <2>4. job' \in Job
    BY <1>9, JobTyped DEF record_live_fill, TypeOK, Step, Goto
  <2> QED
    BY <1>9, <2>1, <2>2, <2>3, <2>4 DEF record_live_fill, TypeOK
<1>10. CASE reconcile_live_position
  <2>1. position' \in PositionRow
    BY <1>10 DEF reconcile_live_position, TypeOK, PositionRow, Reconciliation
  <2>2. intents' \in [Intents -> IntentRow]
    BY <1>10, UnboundTyped DEF reconcile_live_position, TypeOK
  <2>3. job' \in Job
    BY <1>10, VerdictTyped DEF reconcile_live_position, TypeOK, Step
  <2> QED
    BY <1>10, <2>1, <2>2, <2>3 DEF reconcile_live_position, TypeOK
<1>11. CASE reconcile_live_audit
  <2>1. audits' \in [Audits -> AuditRow]
    BY <1>11, AuditReconTyped, FieldsTyped, HandlerFits
    DEF reconcile_live_audit, TypeOK, HandlerFits, At, AuditStatus, Reconciliation
  <2>2. job' \in Job
    BY <1>11, JobTyped DEF reconcile_live_audit, TypeOK, Step, Goto
  <2> QED
    BY <1>11, <2>1, <2>2 DEF reconcile_live_audit, TypeOK
<1>12. CASE settle_recovered_intent
  <2>1. intents' \in [Intents -> IntentRow]
    BY <1>12, IntentStatusTyped DEF settle_recovered_intent, TypeOK, IntentStatus
  <2>2. job' \in Job
    BY <1>12, JobTyped DEF settle_recovered_intent, TypeOK, Step, Goto
  <2> QED
    BY <1>12, <2>1, <2>2 DEF settle_recovered_intent, TypeOK
<1>13. CASE settle_live_audit
  <2>1. audits' \in [Audits -> AuditRow]
    BY <1>13, AuditStatusTyped DEF settle_live_audit, TypeOK, AuditStatus
  <2>2. job' \in Job
    BY <1>13, JobTyped DEF settle_live_audit, TypeOK, Step
  <2> QED
    BY <1>13, <2>1, <2>2 DEF settle_live_audit, TypeOK
<1>14. CASE begin_mobile_execution_dispatch
  <2>1. audits' \in [Audits -> AuditRow]
    BY <1>14, AuditFlagsTyped DEF begin_mobile_execution_dispatch, TypeOK
  <2>2. job' \in Job
    BY <1>14, JobTyped DEF begin_mobile_execution_dispatch, TypeOK, Step, Goto
  <2> QED
    BY <1>14, <2>1, <2>2 DEF begin_mobile_execution_dispatch, TypeOK
<1>15. CASE guarded_live_submit
  <2>1. job' \in Job
    BY <1>15, JobTyped DEF guarded_live_submit, TypeOK, Step, Goto
  <2> QED
    BY <1>15, <2>1 DEF guarded_live_submit, TypeOK
<1>16. CASE save_raised_receipt
  <2>1. receipts' \in [Keys -> ReceiptRow]
    BY <1>16, ReceiptStatusTyped DEF save_raised_receipt, TypeOK, ReceiptStatus
  <2>2. job' \in Job
    BY <1>16, JobTyped DEF save_raised_receipt, TypeOK, Step
  <2> QED
    BY <1>16, <2>1, <2>2 DEF save_raised_receipt, TypeOK
<1>17. CASE save_mobile_action_receipt
  <2>1. receipts' \in [Keys -> ReceiptRow]
    BY <1>17, ReceiptStatusTyped
    DEF save_mobile_action_receipt, TypeOK, ReceiptStatus, ReceiptStatusFromAudit
  <2>2. job' \in Job
    BY <1>17, JobTyped DEF save_mobile_action_receipt, TypeOK, Step
  <2> QED
    BY <1>17, <2>1, <2>2 DEF save_mobile_action_receipt, TypeOK
<1>18. CASE set_live_kill_switch
  BY <1>18 DEF set_live_kill_switch, TypeOK
<1>19. CASE Crash
  <2>1. job' \in Job
    BY <1>19, JobTyped DEF Crash, TypeOK, Step
  <2> QED
    BY <1>19, <2>1, ConstantsAssumption DEF Crash, TypeOK
<1>20. ASSUME NEW i \in Intents, create_live_intent(i) PROVE TypeOK'
  <2>1. intents' \in [Intents -> IntentRow]
    BY <1>20, IntentStatusTyped DEF create_live_intent, TypeOK, IntentStatus
  <2> QED
    BY <1>20, <2>1 DEF create_live_intent, TypeOK
<1>21. ASSUME NEW i \in Intents, generate_live_intents(i) PROVE TypeOK'
  <2>1. intents' \in [Intents -> IntentRow]
    <3> DEFINE sell == i \in Sells
    <3>1. sell \in BOOLEAN
      OBVIOUS
    <3>2. intents' = [intents EXCEPT ![i].status = "open", ![i].bound = sell]
      BY <1>21, Zenon DEF generate_live_intents
    <3> HIDE DEF sell
    <3> QED
      BY <3>1, <3>2, IntentGeneratedTyped DEF TypeOK, IntentStatus
  <2> QED
    BY <1>21, <2>1 DEF generate_live_intents, TypeOK
<1>22. ASSUME NEW i \in Intents, cancel_live_intent(i) PROVE TypeOK'
  <2>1. intents' \in [Intents -> IntentRow]
    BY <1>22, IntentStatusTyped DEF cancel_live_intent, TypeOK, IntentStatus
  <2>2. phone' \in [Keys -> ReviewRow]
    BY <1>22, BumpedTyped DEF cancel_live_intent, TypeOK
  <2> QED
    BY <1>22, <2>1, <2>2 DEF cancel_live_intent, TypeOK
<1>23. ASSUME NEW i \in Intents, reconcile_live_intent(i) PROVE TypeOK'
  <2>1. intents' \in [Intents -> IntentRow]
    <3>1. [intents EXCEPT ![i].status = "needs_review"] \in [Intents -> IntentRow]
      BY IntentStatusTyped DEF TypeOK, IntentStatus
    <3> QED
      BY <1>23, <3>1 DEF reconcile_live_intent, TypeOK
  <2>2. job' \in Job
    <3>1. ASSUME intents[i].audit # None
          PROVE  [Idle EXCEPT !.step = "reconcile", !.op = "reconcile",
                              !.audit = intents[i].audit] \in Job
      <4>1. intents[i].audit \in Audits
        BY <3>1, FieldsTyped
      <4> QED
        BY <4>1, NewJobTyped DEF Step, Op
    <3> QED
      BY <1>23, <3>1 DEF reconcile_live_intent, TypeOK
  <2> QED
    BY <1>23, <2>1, <2>2 DEF reconcile_live_intent, TypeOK
<1>24. ASSUME NEW i \in Intents, mark_stale_live_intents(i) PROVE TypeOK'
  <2>1. intents' \in [Intents -> IntentRow]
    BY <1>24, IntentStatusTyped DEF mark_stale_live_intents, TypeOK, IntentStatus
  <2> QED
    BY <1>24, <2>1 DEF mark_stale_live_intents, TypeOK
<1>25. ASSUME NEW i \in Intents, NEW a \in Audits, quote_live_intent(i, a)
       PROVE  TypeOK'
  <2>1. audits' \in [Audits -> AuditRow]
    <3>1. PICK ready \in BOOLEAN : audits' = [audits EXCEPT ![a] =
                [NoAudit EXCEPT !.status = IF ready THEN "ready" ELSE "blocked",
                                !.intent = i, !.fresh = TRUE, !.tx = ready]]
      BY <1>25 DEF quote_live_intent
    <3>2. (IF ready THEN "ready" ELSE "blocked") \in AuditStatus
      BY DEF AuditStatus
    <3> QED
      BY <3>1, <3>2, AuditQuotedTyped DEF TypeOK
  <2>2. job' \in Job
    BY <1>25, NewJobTyped DEF quote_live_intent, Step, Op
  <2> QED
    BY <1>25, <2>1, <2>2 DEF quote_live_intent, TypeOK
<1>26. ASSUME NEW a \in Audits, live_simulate(a) PROVE TypeOK'
  <2>1. audits' \in [Audits -> AuditRow]
    <3>1. PICK ok \in BOOLEAN : audits' = [audits EXCEPT
                ![a].status = IF ok THEN "simulated" ELSE "simulation_warning",
                ![a].sims = @ + 1,
                ![a].again = @ \/ audits[a].owner # None]
      BY <1>26 DEF live_simulate
    <3>2. (IF ok THEN "simulated" ELSE "simulation_warning") \in AuditStatus
      BY DEF AuditStatus
    <3>3. audits[a].sims < MaxSimulations
      BY <1>26 DEF live_simulate
    <3> QED
      BY <3>1, <3>2, <3>3, AuditSimulatedTyped DEF TypeOK
  <2>2. job' \in Job
    BY <1>26, NewJobTyped DEF live_simulate, Step, Op
  <2> QED
    BY <1>26, <2>1, <2>2 DEF live_simulate, TypeOK
<1>27. ASSUME NEW a \in Audits, live_submit(a) PROVE TypeOK'
  <2>1. audits' \in [Audits -> AuditRow]
    BY <1>27, AuditStatusTyped DEF live_submit, TypeOK, AuditStatus
  <2>2. job' \in Job
    BY <1>27, NewJobTyped DEF live_submit, Step, Op
  <2> QED
    BY <1>27, <2>1, <2>2 DEF live_submit, TypeOK
<1>28. ASSUME NEW a \in Audits, live_submit_signature(a) PROVE TypeOK'
  <2>1. audits' \in [Audits -> AuditRow]
    BY <1>28, AuditSignedTyped DEF live_submit_signature, TypeOK, AuditStatus
  <2>2. job' \in Job
    BY <1>28, NewJobTyped DEF live_submit_signature, Step, Op
  <2> QED
    BY <1>28, <2>1, <2>2 DEF live_submit_signature, TypeOK
<1>29. ASSUME NEW a \in Audits, live_confirm(a) PROVE TypeOK'
  <2>1. audits' \in [Audits -> AuditRow]
    <3>1. PICK said \in {"landed", "failed"} : audits' = [audits EXCEPT
               ![a].status = IF said = "landed" THEN "confirmed" ELSE "failed",
               ![a].misled = @ \/ chain[a] # said]
      BY <1>29 DEF live_confirm
    <3>2. (IF said = "landed" THEN "confirmed" ELSE "failed") \in AuditStatus
      BY DEF AuditStatus
    <3> QED
      BY <3>1, <3>2, AuditReportedTyped DEF TypeOK
  <2>2. job' \in Job
    BY <1>29, NewJobTyped DEF live_confirm, Step, Op
  <2> QED
    BY <1>29, <2>1, <2>2 DEF live_confirm, TypeOK
<1>30. ASSUME NEW a \in Audits, normalize_live_audits(a) PROVE TypeOK'
  <2>1. audits' \in [Audits -> AuditRow]
    BY <1>30, AuditStatusTyped DEF normalize_live_audits, TypeOK, AuditStatus
  <2> QED
    BY <1>30, <2>1 DEF normalize_live_audits, TypeOK
<1>31. ASSUME NEW a \in Audits, poll_live_audits(a) PROVE TypeOK'
  <2>1. job' \in Job
    BY <1>31, NewJobTyped DEF poll_live_audits, Step, Op, StartRecovery
  <2> QED
    BY <1>31, <2>1 DEF poll_live_audits, TypeOK
<1>32. ASSUME NEW a \in Audits, recover_unresolved_live_audits(a) PROVE TypeOK'
  <2>1. job' \in Job
    BY <1>32, NewJobTyped
    DEF recover_unresolved_live_audits, Step, Op, StartRecovery
  <2> QED
    BY <1>32, <2>1 DEF recover_unresolved_live_audits, TypeOK
<1>33. ASSUME NEW a \in Audits, QuoteExpires(a) PROVE TypeOK'
  <2>1. audits' \in [Audits -> AuditRow]
    BY <1>33, AuditFlagsTyped DEF QuoteExpires, TypeOK
  <2> QED
    BY <1>33, <2>1 DEF QuoteExpires, TypeOK
<1>34. ASSUME NEW a \in Audits, WalletSends(a) PROVE TypeOK'
  <2>1. chain' \in [Audits -> ChainState]
    BY <1>34 DEF WalletSends, TypeOK, ChainState
  <2> QED
    BY <1>34, <2>1 DEF WalletSends, TypeOK
<1>35. ASSUME NEW a \in Audits, ChainDecides(a) PROVE TypeOK'
  <2>1. chain' \in [Audits -> ChainState]
    BY <1>35 DEF ChainDecides, TypeOK, ChainState
  <2>2. wallet' \in BOOLEAN
    <3> DEFINE bought == audits[a].intent \in Buys
    <3>1. bought \in BOOLEAN
      OBVIOUS
    <3>2. wallet' = wallet \/ wallet' = bought
      BY <1>35, Zenon DEF ChainDecides
    <3> HIDE DEF bought
    <3> QED
      BY <3>1, <3>2 DEF TypeOK
  <2> QED
    BY <1>35, <2>1, <2>2 DEF ChainDecides, TypeOK
<1>36. ASSUME NEW k \in Keys, NEW i \in Intents, ReviewTrade(k, i)
       PROVE  TypeOK'
  <2>1. phone' \in [Keys -> ReviewRow]
    BY <1>36, ReviewedTyped, FieldsTyped DEF ReviewTrade, TypeOK
  <2> QED
    BY <1>36, <2>1 DEF ReviewTrade, TypeOK
<1>37. ASSUME NEW k \in Keys, approve_prepared_intent(k) PROVE TypeOK'
  <2>1. audits' \in [Audits -> AuditRow]
    BY <1>37, AuditClaimedTyped
    DEF approve_prepared_intent, reserve_mobile_execution_action, TypeOK, AuditStatus
  <2>2. intents' \in [Intents -> IntentRow]
    BY <1>37, IntentStatusTyped
    DEF approve_prepared_intent, reserve_mobile_execution_action, TypeOK, IntentStatus
  <2>3. phone' \in [Keys -> ReviewRow]
    BY <1>37, BumpedTyped
    DEF approve_prepared_intent, reserve_mobile_execution_action, TypeOK
  <2>4. receipts' \in [Keys -> ReceiptRow]
    BY <1>37, ReceiptWrittenTyped, FieldsTyped
    DEF approve_prepared_intent, reserve_mobile_execution_action, TypeOK, ReceiptStatus
  <2>5. job' \in Job
    BY <1>37, NewJobTyped, FieldsTyped
    DEF approve_prepared_intent, reserve_mobile_execution_action, TypeOK, Step, Op
  <2> QED
    BY <1>37, <2>1, <2>2, <2>3, <2>4, <2>5
    DEF approve_prepared_intent, reserve_mobile_execution_action, TypeOK
<1>38. ASSUME NEW k \in Keys, action(k) PROVE TypeOK'
  <2>1. receipts[k].audit \in Audits
    BY <1>38, FieldsTyped DEF action, LocalReceiptIsTerminal, OpenReceipt
  <2>2. [Idle EXCEPT !.step = "recover", !.op = "recover", !.audit = receipts[k].audit,
                     !.key = k] \in Job
    BY <2>1, NewJobTyped DEF Step, Op
  <2>3. [Idle EXCEPT !.step = "receipt", !.audit = receipts[k].audit, !.key = k] \in Job
    BY <2>1, NewJobTyped DEF Step, Op
  <2>4. job' \in Job
    BY <1>38, <2>2, <2>3 DEF action, StartRecovery
  <2> QED
    BY <1>38, <2>4 DEF action, TypeOK
<1>39. ASSUME NEW k \in Keys, reject_trade(k) PROVE TypeOK'
  <2>1. intents' \in [Intents -> IntentRow]
    BY <1>39, IntentStatusTyped
    DEF reject_trade, apply_mobile_trade_rejection, TypeOK, IntentStatus
  <2>2. phone' \in [Keys -> ReviewRow]
    BY <1>39, BumpedTyped DEF reject_trade, apply_mobile_trade_rejection, TypeOK
  <2>3. receipts' \in [Keys -> ReceiptRow]
    BY <1>39, ReceiptWrittenTyped
    DEF reject_trade, apply_mobile_trade_rejection, TypeOK, ReceiptStatus
  <2> QED
    BY <1>39, <2>1, <2>2, <2>3 DEF reject_trade, apply_mobile_trade_rejection, TypeOK
<1>40. ASSUME NEW k \in Keys, adjust_position_exit(k)
       PROVE  TypeOK'
  <2>1. intents' \in [Intents -> IntentRow]
    BY <1>40, UnboundTyped DEF adjust_position_exit, apply_mobile_position_exit_adjustment, TypeOK
  <2>2. receipts' \in [Keys -> ReceiptRow]
    BY <1>40, ReceiptWrittenTyped
    DEF adjust_position_exit, apply_mobile_position_exit_adjustment, TypeOK, ReceiptStatus
  <2> QED
    BY <1>40, <2>1, <2>2 DEF adjust_position_exit, apply_mobile_position_exit_adjustment, TypeOK
<1>41. CASE UNCHANGED vars
  BY <1>41 DEF vars, TypeOK
<1> QED
  BY <1>1, <1>2, <1>3, <1>4, <1>5, <1>6, <1>7, <1>8, <1>9, <1>10, <1>11, <1>12,
     <1>13, <1>14, <1>15, <1>16, <1>17, <1>18, <1>19, <1>20, <1>21, <1>22, <1>23,
     <1>24, <1>25, <1>26, <1>27, <1>28, <1>29, <1>30, <1>31, <1>32, <1>33, <1>34,
     <1>35, <1>36, <1>37, <1>38, <1>39, <1>40, <1>41
  DEF Next, HandlerStep, OperatorStep, PhoneStep, Environment, approve_trade,
      close_position

\* Every step leaves the handler in flight fit for the next one.
LEMMA HandlerFitsNext ==
  ASSUME TypeOK, HandlerFits, LocalReceiptIsTerminal, [Next]_vars
  PROVE  HandlerFits'
<1>1. CASE bind_quoted_intent
  BY <1>1, ConstantsAssumption DEF bind_quoted_intent, HandlerFits, Idle
<1>2. CASE simulated_intent
  BY <1>2, ConstantsAssumption DEF simulated_intent, HandlerFits, Idle
<1>3. CASE execute_backend_audit
  BY <1>3, ConstantsAssumption
  DEF execute_backend_audit, TypeOK, HandlerFits, At, Idle, Job, Goto
<1>4. CASE save_submitted_audit
  BY <1>4 DEF save_submitted_audit, HandlerFits, At, Goto
<1>5. CASE save_submitted_intent
  BY <1>5, ConstantsAssumption DEF save_submitted_intent, HandlerFits, At, Idle
<1>6. CASE recover_live_audit
  <2>1. \/ job' = Idle
        \/ \E st \in {"receipt", "fill"} : job' = [job EXCEPT !.step = st]
        \/ \E v \in {"needs_review", "failed"} :
             job' = [job EXCEPT !.step = "escalate", !.verdict = v]
    BY <1>6 DEF recover_live_audit, Escalate, Goto, Done
  <2>2. job.audit \in Audits /\ receipts' = receipts
    BY <1>6 DEF HandlerFits, recover_live_audit, At
  <2>3. CASE job' = Idle
    BY <2>3, ConstantsAssumption DEF HandlerFits, Idle
  <2>4. ASSUME NEW st \in {"receipt", "fill"}, job' = [job EXCEPT !.step = st]
        PROVE  HandlerFits'
    BY <2>2, <2>4 DEF HandlerFits
  <2>5. ASSUME NEW v \in {"needs_review", "failed"},
               job' = [job EXCEPT !.step = "escalate", !.verdict = v]
        PROVE  HandlerFits'
    BY <2>2, <2>5 DEF HandlerFits
  <2> QED
    BY <2>1, <2>3, <2>4, <2>5
<1>7. CASE save_escalation
  BY <1>7, ConstantsAssumption DEF save_escalation, HandlerFits, Idle, Done
<1>8. CASE confirmed_intent
  BY <1>8, ConstantsAssumption DEF confirmed_intent, HandlerFits, At, Idle
<1>9. CASE record_live_fill
  BY <1>9 DEF record_live_fill, HandlerFits, At, Goto
<1>10. CASE reconcile_live_position
  BY <1>10 DEF reconcile_live_position, HandlerFits, At
<1>11. CASE reconcile_live_audit
  <2>1. \/ job' = Idle
        \/ \E st \in {"settle", "final"} : job' = [job EXCEPT !.step = st]
    BY <1>11 DEF reconcile_live_audit, Goto
  <2>2. job.audit \in Audits /\ receipts' = receipts
    BY <1>11 DEF HandlerFits, reconcile_live_audit, At
  <2>3. CASE job' = Idle
    BY <2>3, ConstantsAssumption DEF HandlerFits, Idle
  <2>4. ASSUME NEW st \in {"settle", "final"}, job' = [job EXCEPT !.step = st]
        PROVE  HandlerFits'
    BY <2>2, <2>4 DEF HandlerFits
  <2> QED
    BY <2>1, <2>3, <2>4
<1>12. CASE settle_recovered_intent
  BY <1>12 DEF settle_recovered_intent, HandlerFits, At, Goto
<1>13. CASE settle_live_audit
  BY <1>13, ConstantsAssumption DEF settle_live_audit, HandlerFits, Idle, Done
<1>14. CASE begin_mobile_execution_dispatch
  BY <1>14 DEF begin_mobile_execution_dispatch, HandlerFits, At, Goto
<1>15. CASE guarded_live_submit
  BY <1>15 DEF guarded_live_submit, HandlerFits, At, Goto
<1>16. CASE save_raised_receipt
  BY <1>16, ConstantsAssumption DEF save_raised_receipt, HandlerFits, Idle
<1>17. CASE save_mobile_action_receipt
  BY <1>17, ConstantsAssumption DEF save_mobile_action_receipt, HandlerFits, Idle
<1>18. CASE set_live_kill_switch
  BY <1>18 DEF set_live_kill_switch, HandlerFits
<1>19. CASE Crash
  BY <1>19, ConstantsAssumption DEF Crash, HandlerFits, Idle
<1>20. ASSUME NEW i \in Intents, create_live_intent(i) PROVE HandlerFits'
  BY <1>20 DEF create_live_intent, HandlerFits
<1>21. ASSUME NEW i \in Intents, generate_live_intents(i) PROVE HandlerFits'
  BY <1>21 DEF generate_live_intents, HandlerFits
<1>22. ASSUME NEW i \in Intents, cancel_live_intent(i) PROVE HandlerFits'
  BY <1>22 DEF cancel_live_intent, HandlerFits
<1>23. ASSUME NEW i \in Intents, reconcile_live_intent(i) PROVE HandlerFits'
  BY <1>23, FieldsTyped, ConstantsAssumption
  DEF reconcile_live_intent, HandlerFits, Idle
<1>24. ASSUME NEW i \in Intents, mark_stale_live_intents(i) PROVE HandlerFits'
  BY <1>24 DEF mark_stale_live_intents, HandlerFits
<1>25. ASSUME NEW i \in Intents, NEW a \in Audits, quote_live_intent(i, a)
       PROVE  HandlerFits'
  BY <1>25, ConstantsAssumption DEF quote_live_intent, HandlerFits, Idle
<1>26. ASSUME NEW a \in Audits, live_simulate(a) PROVE HandlerFits'
  BY <1>26, ConstantsAssumption DEF live_simulate, TypeOK, HandlerFits, Idle
<1>27. ASSUME NEW a \in Audits, live_submit(a) PROVE HandlerFits'
  BY <1>27, ConstantsAssumption DEF live_submit, HandlerFits, Idle
<1>28. ASSUME NEW a \in Audits, live_submit_signature(a) PROVE HandlerFits'
  BY <1>28, ConstantsAssumption DEF live_submit_signature, HandlerFits, Idle
<1>29. ASSUME NEW a \in Audits, live_confirm(a) PROVE HandlerFits'
  BY <1>29, ConstantsAssumption DEF live_confirm, HandlerFits, Idle
<1>30. ASSUME NEW a \in Audits, normalize_live_audits(a) PROVE HandlerFits'
  BY <1>30 DEF normalize_live_audits, HandlerFits, At
<1>31. ASSUME NEW a \in Audits, poll_live_audits(a) PROVE HandlerFits'
  BY <1>31, ConstantsAssumption DEF poll_live_audits, HandlerFits, StartRecovery
<1>32. ASSUME NEW a \in Audits, recover_unresolved_live_audits(a)
       PROVE  HandlerFits'
  BY <1>32, ConstantsAssumption
  DEF recover_unresolved_live_audits, HandlerFits, StartRecovery
<1>33. ASSUME NEW a \in Audits, QuoteExpires(a) PROVE HandlerFits'
  BY <1>33 DEF QuoteExpires, HandlerFits
<1>34. ASSUME NEW a \in Audits, WalletSends(a) PROVE HandlerFits'
  BY <1>34 DEF WalletSends, HandlerFits
<1>35. ASSUME NEW a \in Audits, ChainDecides(a) PROVE HandlerFits'
  BY <1>35 DEF ChainDecides, HandlerFits
<1>36. ASSUME NEW k \in Keys, NEW i \in Intents, ReviewTrade(k, i)
       PROVE  HandlerFits'
  BY <1>36 DEF ReviewTrade, HandlerFits
<1>37. ASSUME NEW k \in Keys, approve_prepared_intent(k)
       PROVE  HandlerFits'
  BY <1>37, FieldsTyped
  DEF approve_prepared_intent, reserve_mobile_execution_action, TypeOK, HandlerFits, Idle
<1>38. ASSUME NEW k \in Keys, action(k) PROVE HandlerFits'
  <2>1. receipts[k].audit \in Audits
    BY <1>38, FieldsTyped DEF action, LocalReceiptIsTerminal, OpenReceipt
  <2> QED
    BY <1>38, <2>1 DEF HandlerFits, action, StartRecovery, Idle
<1>39. ASSUME NEW k \in Keys, reject_trade(k)
       PROVE  HandlerFits'
  BY <1>39 DEF reject_trade, apply_mobile_trade_rejection, HandlerFits, At, Idle
<1>40. ASSUME NEW k \in Keys, adjust_position_exit(k)
       PROVE  HandlerFits'
  BY <1>40 DEF adjust_position_exit, apply_mobile_position_exit_adjustment, HandlerFits, At, Idle
<1>41. CASE UNCHANGED vars
  BY <1>41 DEF vars, HandlerFits
<1> QED
  BY <1>1, <1>2, <1>3, <1>4, <1>5, <1>6, <1>7, <1>8, <1>9, <1>10, <1>11, <1>12,
     <1>13, <1>14, <1>15, <1>16, <1>17, <1>18, <1>19, <1>20, <1>21, <1>22, <1>23,
     <1>24, <1>25, <1>26, <1>27, <1>28, <1>29, <1>30, <1>31, <1>32, <1>33, <1>34,
     <1>35, <1>36, <1>37, <1>38, <1>39, <1>40, <1>41
  DEF Next, HandlerStep, OperatorStep, PhoneStep, Environment, approve_trade,
      close_position

\* No step leaves a receipt without an execution open (reject, adjust exit).
LEMMA LocalReceiptNext ==
  ASSUME TypeOK, HandlerFits, LocalReceiptIsTerminal, [Next]_vars
  PROVE  LocalReceiptIsTerminal'
<1>1. CASE bind_quoted_intent
  BY <1>1 DEF bind_quoted_intent, LocalReceiptIsTerminal
<1>2. CASE simulated_intent
  BY <1>2 DEF simulated_intent, LocalReceiptIsTerminal
<1>3. CASE execute_backend_audit
  BY <1>3 DEF execute_backend_audit, LocalReceiptIsTerminal
<1>4. CASE save_submitted_audit
  BY <1>4 DEF save_submitted_audit, LocalReceiptIsTerminal
<1>5. CASE save_submitted_intent
  BY <1>5 DEF save_submitted_intent, LocalReceiptIsTerminal
<1>6. CASE recover_live_audit
  BY <1>6 DEF recover_live_audit, LocalReceiptIsTerminal
<1>7. CASE save_escalation
  BY <1>7 DEF save_escalation, LocalReceiptIsTerminal
<1>8. CASE confirmed_intent
  BY <1>8 DEF confirmed_intent, LocalReceiptIsTerminal
<1>9. CASE record_live_fill
  BY <1>9 DEF record_live_fill, LocalReceiptIsTerminal
<1>10. CASE reconcile_live_position
  BY <1>10 DEF reconcile_live_position, LocalReceiptIsTerminal
<1>11. CASE reconcile_live_audit
  BY <1>11 DEF reconcile_live_audit, LocalReceiptIsTerminal
<1>12. CASE settle_recovered_intent
  BY <1>12 DEF settle_recovered_intent, LocalReceiptIsTerminal
<1>13. CASE settle_live_audit
  BY <1>13 DEF settle_live_audit, LocalReceiptIsTerminal
<1>14. CASE begin_mobile_execution_dispatch
  BY <1>14 DEF begin_mobile_execution_dispatch, LocalReceiptIsTerminal
<1>15. CASE guarded_live_submit
  BY <1>15 DEF guarded_live_submit, LocalReceiptIsTerminal
<1>16. CASE save_raised_receipt
  BY <1>16, ConstantsAssumption
  DEF save_raised_receipt, HandlerFits, LocalReceiptIsTerminal, At
<1>17. CASE save_mobile_action_receipt
  BY <1>17, ConstantsAssumption
  DEF save_mobile_action_receipt, HandlerFits, LocalReceiptIsTerminal, At
<1>18. CASE set_live_kill_switch
  BY <1>18 DEF set_live_kill_switch, LocalReceiptIsTerminal
<1>19. CASE Crash
  BY <1>19 DEF Crash, LocalReceiptIsTerminal
<1>20. ASSUME NEW i \in Intents, create_live_intent(i)
       PROVE  LocalReceiptIsTerminal'
  BY <1>20 DEF create_live_intent, LocalReceiptIsTerminal
<1>21. ASSUME NEW i \in Intents, generate_live_intents(i)
       PROVE  LocalReceiptIsTerminal'
  BY <1>21 DEF generate_live_intents, LocalReceiptIsTerminal
<1>22. ASSUME NEW i \in Intents, cancel_live_intent(i)
       PROVE  LocalReceiptIsTerminal'
  BY <1>22 DEF cancel_live_intent, LocalReceiptIsTerminal
<1>23. ASSUME NEW i \in Intents, reconcile_live_intent(i)
       PROVE  LocalReceiptIsTerminal'
  BY <1>23 DEF reconcile_live_intent, LocalReceiptIsTerminal
<1>24. ASSUME NEW i \in Intents, mark_stale_live_intents(i)
       PROVE  LocalReceiptIsTerminal'
  BY <1>24 DEF mark_stale_live_intents, LocalReceiptIsTerminal
<1>25. ASSUME NEW i \in Intents, NEW a \in Audits, quote_live_intent(i, a)
       PROVE  LocalReceiptIsTerminal'
  BY <1>25 DEF quote_live_intent, LocalReceiptIsTerminal
<1>26. ASSUME NEW a \in Audits, live_simulate(a) PROVE LocalReceiptIsTerminal'
  BY <1>26 DEF live_simulate, LocalReceiptIsTerminal
<1>27. ASSUME NEW a \in Audits, live_submit(a) PROVE LocalReceiptIsTerminal'
  BY <1>27 DEF live_submit, LocalReceiptIsTerminal
<1>28. ASSUME NEW a \in Audits, live_submit_signature(a)
       PROVE  LocalReceiptIsTerminal'
  BY <1>28 DEF live_submit_signature, LocalReceiptIsTerminal
<1>29. ASSUME NEW a \in Audits, live_confirm(a) PROVE LocalReceiptIsTerminal'
  BY <1>29 DEF live_confirm, LocalReceiptIsTerminal
<1>30. ASSUME NEW a \in Audits, normalize_live_audits(a)
       PROVE  LocalReceiptIsTerminal'
  BY <1>30 DEF normalize_live_audits, LocalReceiptIsTerminal
<1>31. ASSUME NEW a \in Audits, poll_live_audits(a)
       PROVE  LocalReceiptIsTerminal'
  BY <1>31 DEF poll_live_audits, LocalReceiptIsTerminal
<1>32. ASSUME NEW a \in Audits, recover_unresolved_live_audits(a)
       PROVE  LocalReceiptIsTerminal'
  BY <1>32 DEF recover_unresolved_live_audits, LocalReceiptIsTerminal
<1>33. ASSUME NEW a \in Audits, QuoteExpires(a) PROVE LocalReceiptIsTerminal'
  BY <1>33 DEF QuoteExpires, LocalReceiptIsTerminal
<1>34. ASSUME NEW a \in Audits, WalletSends(a) PROVE LocalReceiptIsTerminal'
  BY <1>34 DEF WalletSends, LocalReceiptIsTerminal
<1>35. ASSUME NEW a \in Audits, ChainDecides(a) PROVE LocalReceiptIsTerminal'
  BY <1>35 DEF ChainDecides, LocalReceiptIsTerminal
<1>36. ASSUME NEW k \in Keys, NEW i \in Intents, ReviewTrade(k, i)
       PROVE  LocalReceiptIsTerminal'
  BY <1>36 DEF ReviewTrade, LocalReceiptIsTerminal
<1>37. ASSUME NEW k \in Keys, approve_prepared_intent(k)
       PROVE  LocalReceiptIsTerminal'
  BY <1>37 DEF approve_prepared_intent, reserve_mobile_execution_action, TypeOK, LocalReceiptIsTerminal
<1>38. ASSUME NEW k \in Keys, action(k) PROVE LocalReceiptIsTerminal'
  BY <1>38 DEF action, LocalReceiptIsTerminal
<1>39. ASSUME NEW k \in Keys, reject_trade(k)
       PROVE  LocalReceiptIsTerminal'
  BY <1>39 DEF reject_trade, apply_mobile_trade_rejection, LocalReceiptIsTerminal
<1>40. ASSUME NEW k \in Keys, adjust_position_exit(k)
       PROVE  LocalReceiptIsTerminal'
  BY <1>40 DEF adjust_position_exit, apply_mobile_position_exit_adjustment, LocalReceiptIsTerminal
<1>41. CASE UNCHANGED vars
  BY <1>41 DEF vars, LocalReceiptIsTerminal
<1> QED
  BY <1>1, <1>2, <1>3, <1>4, <1>5, <1>6, <1>7, <1>8, <1>9, <1>10, <1>11, <1>12,
     <1>13, <1>14, <1>15, <1>16, <1>17, <1>18, <1>19, <1>20, <1>21, <1>22, <1>23,
     <1>24, <1>25, <1>26, <1>27, <1>28, <1>29, <1>30, <1>31, <1>32, <1>33, <1>34,
     <1>35, <1>36, <1>37, <1>38, <1>39, <1>40, <1>41
  DEF Next, HandlerStep, OperatorStep, PhoneStep, Environment, approve_trade,
      close_position

\* Every step keeps the handler the owner of the claim it works on.
LEMMA OwnershipNext ==
  ASSUME TypeOK, HandlerFits, HandlerOwnsItsClaim, DispatchFollowsClaim,
         [Next]_vars
  PROVE  HandlerOwnsItsClaim'
<1>1. CASE bind_quoted_intent
  BY <1>1 DEF bind_quoted_intent, HandlerOwnsItsClaim, Idle
<1>2. CASE simulated_intent
  BY <1>2 DEF simulated_intent, HandlerOwnsItsClaim, Idle
<1>3. CASE execute_backend_audit
  BY <1>3 DEF execute_backend_audit, TypeOK, HandlerOwnsItsClaim, Idle, Job, Goto
<1>4. CASE save_submitted_audit
  BY <1>4 DEF save_submitted_audit, HandlerOwnsItsClaim, Goto
<1>5. CASE save_submitted_intent
  BY <1>5 DEF save_submitted_intent, HandlerOwnsItsClaim, Idle
<1>6. CASE recover_live_audit
  BY <1>6, RecoveryFrame DEF HandlerOwnsItsClaim
<1>7. CASE save_escalation
  BY <1>7 DEF save_escalation, HandlerOwnsItsClaim, Idle, Done
<1>8. CASE confirmed_intent
  BY <1>8 DEF confirmed_intent, HandlerOwnsItsClaim, Idle
<1>9. CASE record_live_fill
  BY <1>9 DEF record_live_fill, HandlerOwnsItsClaim, Goto
<1>10. CASE reconcile_live_position
  BY <1>10 DEF reconcile_live_position, HandlerOwnsItsClaim
<1>11. CASE reconcile_live_audit
  BY <1>11 DEF reconcile_live_audit, TypeOK, HandlerOwnsItsClaim, Idle, Job, Goto
<1>12. CASE settle_recovered_intent
  BY <1>12 DEF settle_recovered_intent, HandlerOwnsItsClaim, Goto
<1>13. CASE settle_live_audit
  BY <1>13 DEF settle_live_audit, HandlerOwnsItsClaim, Idle, Done
<1>14. CASE begin_mobile_execution_dispatch
  <2>1. job.key \in Keys /\ job.audit \in Audits /\ audits[job.audit].owner = job.key
    BY <1>14 DEF begin_mobile_execution_dispatch, HandlerOwnsItsClaim, At
  <2>2. dispatches' = dispatches /\ dispatches[job.audit] = 0
    BY <1>14, <2>1 DEF begin_mobile_execution_dispatch, HandlerOwnsItsClaim, At
  <2>3. /\ job'.step = "checks" /\ job'.key = job.key /\ job'.audit = job.audit
    BY <1>14 DEF begin_mobile_execution_dispatch, Goto
  <2>4. /\ audits'[job.audit].owner = job.key
        /\ audits'[job.audit].dispatched = TRUE
    BY <1>14, <2>1 DEF begin_mobile_execution_dispatch, TypeOK, AuditRow
  <2> QED
    BY <2>1, <2>2, <2>3, <2>4 DEF HandlerOwnsItsClaim
<1>15. CASE guarded_live_submit
  BY <1>15 DEF guarded_live_submit, HandlerOwnsItsClaim, At, Goto
<1>16. CASE save_raised_receipt
  BY <1>16 DEF save_raised_receipt, HandlerOwnsItsClaim, Idle
<1>17. CASE save_mobile_action_receipt
  BY <1>17 DEF save_mobile_action_receipt, HandlerOwnsItsClaim, Idle
<1>18. CASE set_live_kill_switch
  BY <1>18 DEF set_live_kill_switch, HandlerOwnsItsClaim
<1>19. CASE Crash
  BY <1>19 DEF Crash, HandlerOwnsItsClaim, Idle
<1>20. ASSUME NEW i \in Intents, create_live_intent(i)
       PROVE  HandlerOwnsItsClaim'
  BY <1>20 DEF create_live_intent, HandlerOwnsItsClaim
<1>21. ASSUME NEW i \in Intents, generate_live_intents(i)
       PROVE  HandlerOwnsItsClaim'
  BY <1>21 DEF generate_live_intents, HandlerOwnsItsClaim
<1>22. ASSUME NEW i \in Intents, cancel_live_intent(i)
       PROVE  HandlerOwnsItsClaim'
  BY <1>22 DEF cancel_live_intent, HandlerOwnsItsClaim
<1>23. ASSUME NEW i \in Intents, reconcile_live_intent(i)
       PROVE  HandlerOwnsItsClaim'
  BY <1>23 DEF reconcile_live_intent, HandlerOwnsItsClaim, Idle
<1>24. ASSUME NEW i \in Intents, mark_stale_live_intents(i)
       PROVE  HandlerOwnsItsClaim'
  BY <1>24 DEF mark_stale_live_intents, HandlerOwnsItsClaim
<1>25. ASSUME NEW i \in Intents, NEW a \in Audits, quote_live_intent(i, a)
       PROVE  HandlerOwnsItsClaim'
  BY <1>25 DEF quote_live_intent, HandlerOwnsItsClaim
<1>26. ASSUME NEW a \in Audits, live_simulate(a) PROVE HandlerOwnsItsClaim'
  BY <1>26 DEF live_simulate, HandlerOwnsItsClaim
<1>27. ASSUME NEW a \in Audits, live_submit(a) PROVE HandlerOwnsItsClaim'
  BY <1>27, ConstantsAssumption DEF live_submit, HandlerOwnsItsClaim, Idle
<1>28. ASSUME NEW a \in Audits, live_submit_signature(a)
       PROVE  HandlerOwnsItsClaim'
  BY <1>28 DEF live_submit_signature, HandlerOwnsItsClaim
<1>29. ASSUME NEW a \in Audits, live_confirm(a) PROVE HandlerOwnsItsClaim'
  BY <1>29 DEF live_confirm, HandlerOwnsItsClaim
<1>30. ASSUME NEW a \in Audits, normalize_live_audits(a)
       PROVE  HandlerOwnsItsClaim'
  BY <1>30 DEF normalize_live_audits, HandlerOwnsItsClaim
<1>31. ASSUME NEW a \in Audits, poll_live_audits(a) PROVE HandlerOwnsItsClaim'
  BY <1>31 DEF poll_live_audits, HandlerOwnsItsClaim, StartRecovery
<1>32. ASSUME NEW a \in Audits, recover_unresolved_live_audits(a)
       PROVE  HandlerOwnsItsClaim'
  BY <1>32 DEF recover_unresolved_live_audits, HandlerOwnsItsClaim, StartRecovery
<1>33. ASSUME NEW a \in Audits, QuoteExpires(a) PROVE HandlerOwnsItsClaim'
  BY <1>33 DEF QuoteExpires, HandlerOwnsItsClaim
<1>34. ASSUME NEW a \in Audits, WalletSends(a) PROVE HandlerOwnsItsClaim'
  BY <1>34 DEF WalletSends, HandlerOwnsItsClaim
<1>35. ASSUME NEW a \in Audits, ChainDecides(a) PROVE HandlerOwnsItsClaim'
  BY <1>35 DEF ChainDecides, HandlerOwnsItsClaim
<1>36. ASSUME NEW k \in Keys, NEW i \in Intents, ReviewTrade(k, i)
       PROVE  HandlerOwnsItsClaim'
  BY <1>36 DEF ReviewTrade, HandlerOwnsItsClaim
<1>37. ASSUME NEW k \in Keys, approve_prepared_intent(k)
       PROVE  HandlerOwnsItsClaim'
  <2>1. PICK i \in Intents, a \in Audits :
           /\ phone[k].intent = i /\ phone[k].current /\ intents[i].audit = a
           /\ receipts[k].status = "none" /\ audits[a].status = "simulated"
           /\ Unclaimed(a)
           /\ audits' = [audits EXCEPT ![a].status = "submitting", ![a].owner = k,
                                       ![a].dispatched = FALSE]
           /\ intents' = [intents EXCEPT ![i].status = "submitting"]
           /\ phone' = Bumped(i)
           /\ receipts' = [receipts EXCEPT ![k] = [status |-> "pending", audit |-> a]]
           /\ job' = [Idle EXCEPT !.step = "claimed", !.op = "submit", !.audit = a,
                                  !.key = k]
           /\ UNCHANGED <<dispatches, chain, fills>>
    BY <1>37, ClaimFrame
  <2>2. job'.step = "claimed" /\ job'.key = k /\ job'.audit = a
    BY <2>1 DEF Idle
  <2>3. audits'[a].owner = k /\ audits'[a].dispatched = FALSE
    BY <2>1 DEF TypeOK, AuditRow
  <2>4. dispatches[a] = 0
    BY <2>1 DEF Unclaimed, DispatchFollowsClaim
  <2> QED
    BY <2>1, <2>2, <2>3, <2>4 DEF HandlerOwnsItsClaim
<1>38. ASSUME NEW k \in Keys, action(k) PROVE HandlerOwnsItsClaim'
  <2>1. job'.step \in {"recover", "receipt"}
    BY <1>38 DEF action, StartRecovery, Idle
  <2> QED
    BY <2>1 DEF HandlerOwnsItsClaim
<1>39. ASSUME NEW k \in Keys, reject_trade(k)
       PROVE  HandlerOwnsItsClaim'
  BY <1>39 DEF reject_trade, apply_mobile_trade_rejection, HandlerOwnsItsClaim
<1>40. ASSUME NEW k \in Keys, adjust_position_exit(k)
       PROVE  HandlerOwnsItsClaim'
  BY <1>40 DEF adjust_position_exit, apply_mobile_position_exit_adjustment, HandlerOwnsItsClaim
<1>41. CASE UNCHANGED vars
  BY <1>41 DEF vars, HandlerOwnsItsClaim
<1> QED
  BY <1>1, <1>2, <1>3, <1>4, <1>5, <1>6, <1>7, <1>8, <1>9, <1>10, <1>11, <1>12,
     <1>13, <1>14, <1>15, <1>16, <1>17, <1>18, <1>19, <1>20, <1>21, <1>22, <1>23,
     <1>24, <1>25, <1>26, <1>27, <1>28, <1>29, <1>30, <1>31, <1>32, <1>33, <1>34,
     <1>35, <1>36, <1>37, <1>38, <1>39, <1>40, <1>41
  DEF Next, HandlerStep, OperatorStep, PhoneStep, Environment, approve_trade,
      close_position

\* Every step marks a dispatch before it calls the signer, and calls at most
\* once (begin_mobile_execution_dispatch, _execute_backend_audit).
LEMMA DispatchNext ==
  ASSUME TypeOK, HandlerFits, HandlerOwnsItsClaim, DispatchFollowsClaim,
         DispatchedAtMostOnce, [Next]_vars
  PROVE  DispatchFollowsClaim' /\ DispatchedAtMostOnce'
<1>1. CASE bind_quoted_intent
  BY <1>1 DEF bind_quoted_intent, DispatchFollowsClaim, DispatchedAtMostOnce
<1>2. CASE simulated_intent
  BY <1>2 DEF simulated_intent, DispatchFollowsClaim, DispatchedAtMostOnce
<1>3. CASE execute_backend_audit
  BY <1>3, FieldsTyped
  DEF execute_backend_audit, HandlerOwnsItsClaim, DispatchFollowsClaim,
      DispatchedAtMostOnce, At
<1>4. CASE save_submitted_audit
  BY <1>4
  DEF save_submitted_audit, TypeOK, DispatchFollowsClaim, DispatchedAtMostOnce
<1>5. CASE save_submitted_intent
  BY <1>5 DEF save_submitted_intent, DispatchFollowsClaim, DispatchedAtMostOnce
<1>6. CASE recover_live_audit
  BY <1>6, RecoveryFrame DEF DispatchFollowsClaim, DispatchedAtMostOnce
<1>7. CASE save_escalation
  BY <1>7
  DEF save_escalation, TypeOK, HandlerFits, DispatchFollowsClaim,
      DispatchedAtMostOnce, At
<1>8. CASE confirmed_intent
  BY <1>8 DEF confirmed_intent, DispatchFollowsClaim, DispatchedAtMostOnce
<1>9. CASE record_live_fill
  BY <1>9 DEF record_live_fill, DispatchFollowsClaim, DispatchedAtMostOnce
<1>10. CASE reconcile_live_position
  BY <1>10 DEF reconcile_live_position, DispatchFollowsClaim, DispatchedAtMostOnce
<1>11. CASE reconcile_live_audit
  BY <1>11
  DEF reconcile_live_audit, TypeOK, HandlerOwnsItsClaim, DispatchFollowsClaim,
      DispatchedAtMostOnce
<1>12. CASE settle_recovered_intent
  BY <1>12 DEF settle_recovered_intent, DispatchFollowsClaim, DispatchedAtMostOnce
<1>13. CASE settle_live_audit
  BY <1>13 DEF settle_live_audit, DispatchFollowsClaim, DispatchedAtMostOnce
<1>14. CASE begin_mobile_execution_dispatch
  BY <1>14, ConstantsAssumption
  DEF begin_mobile_execution_dispatch, HandlerOwnsItsClaim, DispatchFollowsClaim,
      DispatchedAtMostOnce, At
<1>15. CASE guarded_live_submit
  BY <1>15 DEF guarded_live_submit, DispatchFollowsClaim, DispatchedAtMostOnce
<1>16. CASE save_raised_receipt
  BY <1>16 DEF save_raised_receipt, DispatchFollowsClaim, DispatchedAtMostOnce
<1>17. CASE save_mobile_action_receipt
  BY <1>17
  DEF save_mobile_action_receipt, DispatchFollowsClaim, DispatchedAtMostOnce
<1>18. CASE set_live_kill_switch
  BY <1>18 DEF set_live_kill_switch, DispatchFollowsClaim, DispatchedAtMostOnce
<1>19. CASE Crash
  BY <1>19 DEF Crash, DispatchFollowsClaim, DispatchedAtMostOnce
<1>20. ASSUME NEW i \in Intents, create_live_intent(i)
       PROVE  DispatchFollowsClaim' /\ DispatchedAtMostOnce'
  BY <1>20 DEF create_live_intent, DispatchFollowsClaim, DispatchedAtMostOnce
<1>21. ASSUME NEW i \in Intents, generate_live_intents(i)
       PROVE  DispatchFollowsClaim' /\ DispatchedAtMostOnce'
  BY <1>21 DEF generate_live_intents, DispatchFollowsClaim, DispatchedAtMostOnce
<1>22. ASSUME NEW i \in Intents, cancel_live_intent(i)
       PROVE  DispatchFollowsClaim' /\ DispatchedAtMostOnce'
  BY <1>22 DEF cancel_live_intent, DispatchFollowsClaim, DispatchedAtMostOnce
<1>23. ASSUME NEW i \in Intents, reconcile_live_intent(i)
       PROVE  DispatchFollowsClaim' /\ DispatchedAtMostOnce'
  BY <1>23 DEF reconcile_live_intent, DispatchFollowsClaim, DispatchedAtMostOnce
<1>24. ASSUME NEW i \in Intents, mark_stale_live_intents(i)
       PROVE  DispatchFollowsClaim' /\ DispatchedAtMostOnce'
  BY <1>24 DEF mark_stale_live_intents, DispatchFollowsClaim, DispatchedAtMostOnce
<1>25. ASSUME NEW i \in Intents, NEW a \in Audits, quote_live_intent(i, a)
       PROVE  DispatchFollowsClaim' /\ DispatchedAtMostOnce'
  BY <1>25
  DEF quote_live_intent, DispatchFollowsClaim, DispatchedAtMostOnce, NoAudit
<1>26. ASSUME NEW a \in Audits, live_simulate(a)
       PROVE  DispatchFollowsClaim' /\ DispatchedAtMostOnce'
  BY <1>26 DEF live_simulate, TypeOK, AuditRow
<1>27. ASSUME NEW a \in Audits, live_submit(a)
       PROVE  DispatchFollowsClaim' /\ DispatchedAtMostOnce'
  BY <1>27 DEF live_submit, DispatchFollowsClaim, DispatchedAtMostOnce
<1>28. ASSUME NEW a \in Audits, live_submit_signature(a)
       PROVE  DispatchFollowsClaim' /\ DispatchedAtMostOnce'
  BY <1>28
  DEF live_submit_signature, TypeOK, DispatchFollowsClaim, DispatchedAtMostOnce
<1>29. ASSUME NEW a \in Audits, live_confirm(a)
       PROVE  DispatchFollowsClaim' /\ DispatchedAtMostOnce'
  BY <1>29, ReportFrame DEF DispatchFollowsClaim, DispatchedAtMostOnce
<1>30. ASSUME NEW a \in Audits, normalize_live_audits(a)
       PROVE  DispatchFollowsClaim' /\ DispatchedAtMostOnce'
  BY <1>30 DEF normalize_live_audits, DispatchFollowsClaim, DispatchedAtMostOnce
<1>31. ASSUME NEW a \in Audits, poll_live_audits(a)
       PROVE  DispatchFollowsClaim' /\ DispatchedAtMostOnce'
  BY <1>31 DEF poll_live_audits, DispatchFollowsClaim, DispatchedAtMostOnce
<1>32. ASSUME NEW a \in Audits, recover_unresolved_live_audits(a)
       PROVE  DispatchFollowsClaim' /\ DispatchedAtMostOnce'
  BY <1>32
  DEF recover_unresolved_live_audits, DispatchFollowsClaim, DispatchedAtMostOnce
<1>33. ASSUME NEW a \in Audits, QuoteExpires(a)
       PROVE  DispatchFollowsClaim' /\ DispatchedAtMostOnce'
  BY <1>33 DEF QuoteExpires, DispatchFollowsClaim, DispatchedAtMostOnce
<1>34. ASSUME NEW a \in Audits, WalletSends(a)
       PROVE  DispatchFollowsClaim' /\ DispatchedAtMostOnce'
  BY <1>34 DEF WalletSends, DispatchFollowsClaim, DispatchedAtMostOnce
<1>35. ASSUME NEW a \in Audits, ChainDecides(a)
       PROVE  DispatchFollowsClaim' /\ DispatchedAtMostOnce'
  BY <1>35 DEF ChainDecides, DispatchFollowsClaim, DispatchedAtMostOnce
<1>36. ASSUME NEW k \in Keys, NEW i \in Intents, ReviewTrade(k, i)
       PROVE  DispatchFollowsClaim' /\ DispatchedAtMostOnce'
  BY <1>36 DEF ReviewTrade, DispatchFollowsClaim, DispatchedAtMostOnce
<1>37. ASSUME NEW k \in Keys, approve_prepared_intent(k)
       PROVE  DispatchFollowsClaim' /\ DispatchedAtMostOnce'
  <2>1. PICK i \in Intents, a \in Audits :
           /\ phone[k].intent = i /\ phone[k].current /\ intents[i].audit = a
           /\ receipts[k].status = "none" /\ audits[a].status = "simulated"
           /\ Unclaimed(a)
           /\ audits' = [audits EXCEPT ![a].status = "submitting", ![a].owner = k,
                                       ![a].dispatched = FALSE]
           /\ intents' = [intents EXCEPT ![i].status = "submitting"]
           /\ phone' = Bumped(i)
           /\ receipts' = [receipts EXCEPT ![k] = [status |-> "pending", audit |-> a]]
           /\ job' = [Idle EXCEPT !.step = "claimed", !.op = "submit", !.audit = a,
                                  !.key = k]
           /\ UNCHANGED <<dispatches, chain, fills>>
    BY <1>37, ClaimFrame
  <2> QED
    BY <2>1 DEF TypeOK, DispatchFollowsClaim, DispatchedAtMostOnce, AuditRow
<1>38. ASSUME NEW k \in Keys, action(k)
       PROVE  DispatchFollowsClaim' /\ DispatchedAtMostOnce'
  BY <1>38 DEF action, DispatchFollowsClaim, DispatchedAtMostOnce
<1>39. ASSUME NEW k \in Keys, reject_trade(k)
       PROVE  DispatchFollowsClaim' /\ DispatchedAtMostOnce'
  BY <1>39
  DEF reject_trade, apply_mobile_trade_rejection, DispatchFollowsClaim, DispatchedAtMostOnce
<1>40. ASSUME NEW k \in Keys, adjust_position_exit(k)
       PROVE  DispatchFollowsClaim' /\ DispatchedAtMostOnce'
  BY <1>40
  DEF adjust_position_exit, apply_mobile_position_exit_adjustment, DispatchFollowsClaim,
      DispatchedAtMostOnce
<1>41. CASE UNCHANGED vars
  BY <1>41 DEF vars, DispatchFollowsClaim, DispatchedAtMostOnce
<1> QED
  BY <1>1, <1>2, <1>3, <1>4, <1>5, <1>6, <1>7, <1>8, <1>9, <1>10, <1>11, <1>12,
     <1>13, <1>14, <1>15, <1>16, <1>17, <1>18, <1>19, <1>20, <1>21, <1>22, <1>23,
     <1>24, <1>25, <1>26, <1>27, <1>28, <1>29, <1>30, <1>31, <1>32, <1>33, <1>34,
     <1>35, <1>36, <1>37, <1>38, <1>39, <1>40, <1>41
  DEF Next, HandlerStep, OperatorStep, PhoneStep, Environment, approve_trade,
      close_position

\* Every step keeps owners and receipts in agreement
\* (reserve_mobile_execution_action).
LEMMA ClaimNext ==
  ASSUME TypeOK, HandlerFits, DispatchFollowsClaim,
         UnusedKeyClaimsNothing, ClaimsAreExclusive, [Next]_vars
  PROVE  UnusedKeyClaimsNothing' /\ ClaimsAreExclusive'
<1>1. CASE bind_quoted_intent
  BY <1>1
  DEF bind_quoted_intent, DispatchFollowsClaim, UnusedKeyClaimsNothing,
      ClaimsAreExclusive
<1>2. CASE simulated_intent
  BY <1>2 DEF simulated_intent, UnusedKeyClaimsNothing, ClaimsAreExclusive
<1>3. CASE execute_backend_audit
  BY <1>3 DEF execute_backend_audit, UnusedKeyClaimsNothing, ClaimsAreExclusive
<1>4. CASE save_submitted_audit
  BY <1>4
  DEF save_submitted_audit, TypeOK, UnusedKeyClaimsNothing, ClaimsAreExclusive
<1>5. CASE save_submitted_intent
  BY <1>5 DEF save_submitted_intent, UnusedKeyClaimsNothing, ClaimsAreExclusive
<1>6. CASE recover_live_audit
  BY <1>6, RecoveryFrame DEF UnusedKeyClaimsNothing, ClaimsAreExclusive
<1>7. CASE save_escalation
  BY <1>7 DEF save_escalation, TypeOK, UnusedKeyClaimsNothing, ClaimsAreExclusive
<1>8. CASE confirmed_intent
  BY <1>8 DEF confirmed_intent, UnusedKeyClaimsNothing, ClaimsAreExclusive
<1>9. CASE record_live_fill
  BY <1>9 DEF record_live_fill, UnusedKeyClaimsNothing, ClaimsAreExclusive
<1>10. CASE reconcile_live_position
  BY <1>10 DEF reconcile_live_position, UnusedKeyClaimsNothing, ClaimsAreExclusive
<1>11. CASE reconcile_live_audit
  BY <1>11
  DEF reconcile_live_audit, TypeOK, UnusedKeyClaimsNothing, ClaimsAreExclusive
<1>12. CASE settle_recovered_intent
  BY <1>12 DEF settle_recovered_intent, UnusedKeyClaimsNothing, ClaimsAreExclusive
<1>13. CASE settle_live_audit
  BY <1>13 DEF settle_live_audit, UnusedKeyClaimsNothing, ClaimsAreExclusive
<1>14. CASE begin_mobile_execution_dispatch
  BY <1>14
  DEF begin_mobile_execution_dispatch, UnusedKeyClaimsNothing, ClaimsAreExclusive
<1>15. CASE guarded_live_submit
  BY <1>15 DEF guarded_live_submit, UnusedKeyClaimsNothing, ClaimsAreExclusive
<1>16. CASE save_raised_receipt
  BY <1>16 DEF save_raised_receipt, UnusedKeyClaimsNothing, ClaimsAreExclusive
<1>17. CASE save_mobile_action_receipt
  BY <1>17
  DEF save_mobile_action_receipt, UnusedKeyClaimsNothing, ClaimsAreExclusive,
      ReceiptStatusFromAudit
<1>18. CASE set_live_kill_switch
  BY <1>18 DEF set_live_kill_switch, UnusedKeyClaimsNothing, ClaimsAreExclusive
<1>19. CASE Crash
  BY <1>19 DEF Crash, UnusedKeyClaimsNothing, ClaimsAreExclusive
<1>20. ASSUME NEW i \in Intents, create_live_intent(i)
       PROVE  UnusedKeyClaimsNothing' /\ ClaimsAreExclusive'
  BY <1>20 DEF create_live_intent, UnusedKeyClaimsNothing, ClaimsAreExclusive
<1>21. ASSUME NEW i \in Intents, generate_live_intents(i)
       PROVE  UnusedKeyClaimsNothing' /\ ClaimsAreExclusive'
  BY <1>21 DEF generate_live_intents, UnusedKeyClaimsNothing, ClaimsAreExclusive
<1>22. ASSUME NEW i \in Intents, cancel_live_intent(i)
       PROVE  UnusedKeyClaimsNothing' /\ ClaimsAreExclusive'
  BY <1>22 DEF cancel_live_intent, UnusedKeyClaimsNothing, ClaimsAreExclusive
<1>23. ASSUME NEW i \in Intents, reconcile_live_intent(i)
       PROVE  UnusedKeyClaimsNothing' /\ ClaimsAreExclusive'
  BY <1>23 DEF reconcile_live_intent, UnusedKeyClaimsNothing, ClaimsAreExclusive
<1>24. ASSUME NEW i \in Intents, mark_stale_live_intents(i)
       PROVE  UnusedKeyClaimsNothing' /\ ClaimsAreExclusive'
  BY <1>24 DEF mark_stale_live_intents, UnusedKeyClaimsNothing, ClaimsAreExclusive
<1>25. ASSUME NEW i \in Intents, NEW a \in Audits, quote_live_intent(i, a)
       PROVE  UnusedKeyClaimsNothing' /\ ClaimsAreExclusive'
  BY <1>25
  DEF quote_live_intent, DispatchFollowsClaim, UnusedKeyClaimsNothing,
      ClaimsAreExclusive, NoAudit
<1>26. ASSUME NEW a \in Audits, live_simulate(a)
       PROVE  UnusedKeyClaimsNothing' /\ ClaimsAreExclusive'
  BY <1>26 DEF live_simulate, TypeOK, AuditRow
<1>27. ASSUME NEW a \in Audits, live_submit(a)
       PROVE  UnusedKeyClaimsNothing' /\ ClaimsAreExclusive'
  BY <1>27 DEF live_submit, UnusedKeyClaimsNothing, ClaimsAreExclusive
<1>28. ASSUME NEW a \in Audits, live_submit_signature(a)
       PROVE  UnusedKeyClaimsNothing' /\ ClaimsAreExclusive'
  BY <1>28
  DEF live_submit_signature, TypeOK, UnusedKeyClaimsNothing, ClaimsAreExclusive
<1>29. ASSUME NEW a \in Audits, live_confirm(a)
       PROVE  UnusedKeyClaimsNothing' /\ ClaimsAreExclusive'
  BY <1>29, ReportFrame DEF UnusedKeyClaimsNothing, ClaimsAreExclusive
<1>30. ASSUME NEW a \in Audits, normalize_live_audits(a)
       PROVE  UnusedKeyClaimsNothing' /\ ClaimsAreExclusive'
  BY <1>30 DEF normalize_live_audits, UnusedKeyClaimsNothing, ClaimsAreExclusive
<1>31. ASSUME NEW a \in Audits, poll_live_audits(a)
       PROVE  UnusedKeyClaimsNothing' /\ ClaimsAreExclusive'
  BY <1>31 DEF poll_live_audits, UnusedKeyClaimsNothing, ClaimsAreExclusive
<1>32. ASSUME NEW a \in Audits, recover_unresolved_live_audits(a)
       PROVE  UnusedKeyClaimsNothing' /\ ClaimsAreExclusive'
  BY <1>32
  DEF recover_unresolved_live_audits, UnusedKeyClaimsNothing, ClaimsAreExclusive
<1>33. ASSUME NEW a \in Audits, QuoteExpires(a)
       PROVE  UnusedKeyClaimsNothing' /\ ClaimsAreExclusive'
  BY <1>33 DEF QuoteExpires, UnusedKeyClaimsNothing, ClaimsAreExclusive
<1>34. ASSUME NEW a \in Audits, WalletSends(a)
       PROVE  UnusedKeyClaimsNothing' /\ ClaimsAreExclusive'
  BY <1>34 DEF WalletSends, UnusedKeyClaimsNothing, ClaimsAreExclusive
<1>35. ASSUME NEW a \in Audits, ChainDecides(a)
       PROVE  UnusedKeyClaimsNothing' /\ ClaimsAreExclusive'
  BY <1>35 DEF ChainDecides, UnusedKeyClaimsNothing, ClaimsAreExclusive
<1>36. ASSUME NEW k \in Keys, NEW i \in Intents, ReviewTrade(k, i)
       PROVE  UnusedKeyClaimsNothing' /\ ClaimsAreExclusive'
  BY <1>36 DEF ReviewTrade, UnusedKeyClaimsNothing, ClaimsAreExclusive
<1>37. ASSUME NEW k \in Keys, approve_prepared_intent(k)
       PROVE  UnusedKeyClaimsNothing' /\ ClaimsAreExclusive'
  <2>1. PICK i \in Intents, a \in Audits :
           /\ phone[k].intent = i /\ phone[k].current /\ intents[i].audit = a
           /\ receipts[k].status = "none" /\ audits[a].status = "simulated"
           /\ Unclaimed(a)
           /\ audits' = [audits EXCEPT ![a].status = "submitting", ![a].owner = k,
                                       ![a].dispatched = FALSE]
           /\ intents' = [intents EXCEPT ![i].status = "submitting"]
           /\ phone' = Bumped(i)
           /\ receipts' = [receipts EXCEPT ![k] = [status |-> "pending", audit |-> a]]
           /\ job' = [Idle EXCEPT !.step = "claimed", !.op = "submit", !.audit = a,
                                  !.key = k]
           /\ UNCHANGED <<dispatches, chain, fills>>
    BY <1>37, ClaimFrame
  <2> QED
    BY <2>1 DEF TypeOK, UnusedKeyClaimsNothing, ClaimsAreExclusive, AuditRow
<1>38. ASSUME NEW k \in Keys, action(k)
       PROVE  UnusedKeyClaimsNothing' /\ ClaimsAreExclusive'
  BY <1>38 DEF action, UnusedKeyClaimsNothing, ClaimsAreExclusive
<1>39. ASSUME NEW k \in Keys, reject_trade(k)
       PROVE  UnusedKeyClaimsNothing' /\ ClaimsAreExclusive'
  BY <1>39
  DEF reject_trade, apply_mobile_trade_rejection, UnusedKeyClaimsNothing, ClaimsAreExclusive
<1>40. ASSUME NEW k \in Keys, adjust_position_exit(k)
       PROVE  UnusedKeyClaimsNothing' /\ ClaimsAreExclusive'
  BY <1>40
  DEF adjust_position_exit, apply_mobile_position_exit_adjustment, UnusedKeyClaimsNothing,
      ClaimsAreExclusive
<1>41. CASE UNCHANGED vars
  BY <1>41 DEF vars, UnusedKeyClaimsNothing, ClaimsAreExclusive
<1> QED
  BY <1>1, <1>2, <1>3, <1>4, <1>5, <1>6, <1>7, <1>8, <1>9, <1>10, <1>11, <1>12,
     <1>13, <1>14, <1>15, <1>16, <1>17, <1>18, <1>19, <1>20, <1>21, <1>22, <1>23,
     <1>24, <1>25, <1>26, <1>27, <1>28, <1>29, <1>30, <1>31, <1>32, <1>33, <1>34,
     <1>35, <1>36, <1>37, <1>38, <1>39, <1>40, <1>41
  DEF Next, HandlerStep, OperatorStep, PhoneStep, Environment, approve_trade,
      close_position

\* Every step that gives an intent a new quote makes earlier reviews outdated,
\* and a claim takes the reviewed quote.
LEMMA ReviewNext ==
  ASSUME TypeOK, HandlerFits, UnusedKeyClaimsNothing,
         ExecutesReviewedQuote, CurrentReviewIsExact, [Next]_vars
  PROVE  ExecutesReviewedQuote' /\ CurrentReviewIsExact'
<1>1. CASE bind_quoted_intent
  BY <1>1, FieldsTyped, ConstantsAssumption
  DEF bind_quoted_intent, TypeOK, HandlerFits, UnusedKeyClaimsNothing,
      ExecutesReviewedQuote, CurrentReviewIsExact, At, IntentRow, ReceiptRow,
      ReviewRow, Bumped, Unbound, VersionCurrent, QuotedStatus
<1>2. CASE simulated_intent
  BY <1>2 DEF simulated_intent, ExecutesReviewedQuote, CurrentReviewIsExact, Bumped
<1>3. CASE execute_backend_audit
  BY <1>3 DEF execute_backend_audit, ExecutesReviewedQuote, CurrentReviewIsExact
<1>4. CASE save_submitted_audit
  BY <1>4 DEF save_submitted_audit, ExecutesReviewedQuote, CurrentReviewIsExact
<1>5. CASE save_submitted_intent
  BY <1>5
  DEF save_submitted_intent, ExecutesReviewedQuote, CurrentReviewIsExact, Bumped
<1>6. CASE recover_live_audit
  BY <1>6, RecoveryFrame DEF ExecutesReviewedQuote, CurrentReviewIsExact
<1>7. CASE save_escalation
  BY <1>7 DEF save_escalation, ExecutesReviewedQuote, CurrentReviewIsExact
<1>8. CASE confirmed_intent
  BY <1>8 DEF confirmed_intent, ExecutesReviewedQuote, CurrentReviewIsExact, Bumped
<1>9. CASE record_live_fill
  BY <1>9
  DEF record_live_fill, TypeOK, ExecutesReviewedQuote, CurrentReviewIsExact,
      IntentRow, Unbound
<1>10. CASE reconcile_live_position
  BY <1>10
  DEF reconcile_live_position, ExecutesReviewedQuote, CurrentReviewIsExact, Unbound
<1>11. CASE reconcile_live_audit
  BY <1>11 DEF reconcile_live_audit, ExecutesReviewedQuote, CurrentReviewIsExact
<1>12. CASE settle_recovered_intent
  BY <1>12 DEF settle_recovered_intent, ExecutesReviewedQuote, CurrentReviewIsExact
<1>13. CASE settle_live_audit
  BY <1>13 DEF settle_live_audit, ExecutesReviewedQuote, CurrentReviewIsExact
<1>14. CASE begin_mobile_execution_dispatch
  BY <1>14
  DEF begin_mobile_execution_dispatch, ExecutesReviewedQuote, CurrentReviewIsExact
<1>15. CASE guarded_live_submit
  BY <1>15 DEF guarded_live_submit, ExecutesReviewedQuote, CurrentReviewIsExact
<1>16. CASE save_raised_receipt
  BY <1>16 DEF save_raised_receipt, ExecutesReviewedQuote, CurrentReviewIsExact
<1>17. CASE save_mobile_action_receipt
  BY <1>17
  DEF save_mobile_action_receipt, ExecutesReviewedQuote, CurrentReviewIsExact
<1>18. CASE set_live_kill_switch
  BY <1>18 DEF set_live_kill_switch, ExecutesReviewedQuote, CurrentReviewIsExact
<1>19. CASE Crash
  BY <1>19 DEF Crash, ExecutesReviewedQuote, CurrentReviewIsExact
<1>20. ASSUME NEW i \in Intents, create_live_intent(i)
       PROVE  ExecutesReviewedQuote' /\ CurrentReviewIsExact'
  BY <1>20 DEF create_live_intent, ExecutesReviewedQuote, CurrentReviewIsExact
<1>21. ASSUME NEW i \in Intents, generate_live_intents(i)
       PROVE  ExecutesReviewedQuote' /\ CurrentReviewIsExact'
  BY <1>21
  DEF generate_live_intents, TypeOK, ExecutesReviewedQuote, CurrentReviewIsExact
<1>22. ASSUME NEW i \in Intents, cancel_live_intent(i)
       PROVE  ExecutesReviewedQuote' /\ CurrentReviewIsExact'
  BY <1>22
  DEF cancel_live_intent, ExecutesReviewedQuote, CurrentReviewIsExact, Bumped
<1>23. ASSUME NEW i \in Intents, reconcile_live_intent(i)
       PROVE  ExecutesReviewedQuote' /\ CurrentReviewIsExact'
  BY <1>23
  DEF reconcile_live_intent, TypeOK, HandlerFits, UnusedKeyClaimsNothing,
      ExecutesReviewedQuote, CurrentReviewIsExact, IntentRow
<1>24. ASSUME NEW i \in Intents, mark_stale_live_intents(i)
       PROVE  ExecutesReviewedQuote' /\ CurrentReviewIsExact'
  BY <1>24 DEF mark_stale_live_intents, ExecutesReviewedQuote, CurrentReviewIsExact
<1>25. ASSUME NEW i \in Intents, NEW a \in Audits, quote_live_intent(i, a)
       PROVE  ExecutesReviewedQuote' /\ CurrentReviewIsExact'
  BY <1>25 DEF quote_live_intent, ExecutesReviewedQuote, CurrentReviewIsExact
<1>26. ASSUME NEW a \in Audits, live_simulate(a)
       PROVE  ExecutesReviewedQuote' /\ CurrentReviewIsExact'
  BY <1>26 DEF live_simulate, ExecutesReviewedQuote, CurrentReviewIsExact
<1>27. ASSUME NEW a \in Audits, live_submit(a)
       PROVE  ExecutesReviewedQuote' /\ CurrentReviewIsExact'
  BY <1>27 DEF live_submit, ExecutesReviewedQuote, CurrentReviewIsExact
<1>28. ASSUME NEW a \in Audits, live_submit_signature(a)
       PROVE  ExecutesReviewedQuote' /\ CurrentReviewIsExact'
  BY <1>28 DEF live_submit_signature, ExecutesReviewedQuote, CurrentReviewIsExact
<1>29. ASSUME NEW a \in Audits, live_confirm(a)
       PROVE  ExecutesReviewedQuote' /\ CurrentReviewIsExact'
  BY <1>29 DEF live_confirm, ExecutesReviewedQuote, CurrentReviewIsExact
<1>30. ASSUME NEW a \in Audits, normalize_live_audits(a)
       PROVE  ExecutesReviewedQuote' /\ CurrentReviewIsExact'
  BY <1>30 DEF normalize_live_audits, ExecutesReviewedQuote, CurrentReviewIsExact
<1>31. ASSUME NEW a \in Audits, poll_live_audits(a)
       PROVE  ExecutesReviewedQuote' /\ CurrentReviewIsExact'
  BY <1>31 DEF poll_live_audits, ExecutesReviewedQuote, CurrentReviewIsExact
<1>32. ASSUME NEW a \in Audits, recover_unresolved_live_audits(a)
       PROVE  ExecutesReviewedQuote' /\ CurrentReviewIsExact'
  BY <1>32
  DEF recover_unresolved_live_audits, ExecutesReviewedQuote, CurrentReviewIsExact
<1>33. ASSUME NEW a \in Audits, QuoteExpires(a)
       PROVE  ExecutesReviewedQuote' /\ CurrentReviewIsExact'
  BY <1>33 DEF QuoteExpires, ExecutesReviewedQuote, CurrentReviewIsExact
<1>34. ASSUME NEW a \in Audits, WalletSends(a)
       PROVE  ExecutesReviewedQuote' /\ CurrentReviewIsExact'
  BY <1>34 DEF WalletSends, ExecutesReviewedQuote, CurrentReviewIsExact
<1>35. ASSUME NEW a \in Audits, ChainDecides(a)
       PROVE  ExecutesReviewedQuote' /\ CurrentReviewIsExact'
  BY <1>35 DEF ChainDecides, ExecutesReviewedQuote, CurrentReviewIsExact
<1>36. ASSUME NEW k \in Keys, NEW i \in Intents, ReviewTrade(k, i)
       PROVE  ExecutesReviewedQuote' /\ CurrentReviewIsExact'
  BY <1>36
  DEF ReviewTrade, UnusedKeyClaimsNothing, ExecutesReviewedQuote,
      CurrentReviewIsExact
<1>37. ASSUME NEW k \in Keys, approve_prepared_intent(k)
       PROVE  ExecutesReviewedQuote' /\ CurrentReviewIsExact'
  <2>1. PICK i \in Intents, a \in Audits :
           /\ phone[k].intent = i /\ phone[k].current /\ intents[i].audit = a
           /\ receipts[k].status = "none" /\ audits[a].status = "simulated"
           /\ Unclaimed(a)
           /\ audits' = [audits EXCEPT ![a].status = "submitting", ![a].owner = k,
                                       ![a].dispatched = FALSE]
           /\ intents' = [intents EXCEPT ![i].status = "submitting"]
           /\ phone' = Bumped(i)
           /\ receipts' = [receipts EXCEPT ![k] = [status |-> "pending", audit |-> a]]
           /\ job' = [Idle EXCEPT !.step = "claimed", !.op = "submit", !.audit = a,
                                  !.key = k]
           /\ UNCHANGED <<dispatches, chain, fills>>
    BY <1>37, ClaimFrame
  <2> QED
    BY <2>1 DEF ExecutesReviewedQuote, CurrentReviewIsExact, Bumped
<1>38. ASSUME NEW k \in Keys, action(k)
       PROVE  ExecutesReviewedQuote' /\ CurrentReviewIsExact'
  BY <1>38 DEF action, ExecutesReviewedQuote, CurrentReviewIsExact
<1>39. ASSUME NEW k \in Keys, reject_trade(k)
       PROVE  ExecutesReviewedQuote' /\ CurrentReviewIsExact'
  BY <1>39
  DEF reject_trade, apply_mobile_trade_rejection, ExecutesReviewedQuote, CurrentReviewIsExact,
      Bumped
<1>40. ASSUME NEW k \in Keys, adjust_position_exit(k)
       PROVE  ExecutesReviewedQuote' /\ CurrentReviewIsExact'
  BY <1>40
  DEF adjust_position_exit, apply_mobile_position_exit_adjustment, ExecutesReviewedQuote,
      CurrentReviewIsExact, Unbound
<1>41. CASE UNCHANGED vars
  BY <1>41 DEF vars, ExecutesReviewedQuote, CurrentReviewIsExact
<1> QED
  BY <1>1, <1>2, <1>3, <1>4, <1>5, <1>6, <1>7, <1>8, <1>9, <1>10, <1>11, <1>12,
     <1>13, <1>14, <1>15, <1>16, <1>17, <1>18, <1>19, <1>20, <1>21, <1>22, <1>23,
     <1>24, <1>25, <1>26, <1>27, <1>28, <1>29, <1>30, <1>31, <1>32, <1>33, <1>34,
     <1>35, <1>36, <1>37, <1>38, <1>39, <1>40, <1>41
  DEF Next, HandlerStep, OperatorStep, PhoneStep, Environment, approve_trade,
      close_position

\* A step that books nothing and answers no phone keeps the ledger and the
\* receipts true, if it calls only what has landed confirmed.
LEMMA LedgerKept ==
  ASSUME TypeOK, ConfirmedHasLanded, FilledOnceAndOnlyIfLanded, NoFalseSuccess,
         UNCHANGED <<chain, fills, receipts>>,
         \A a \in Audits :
            /\ audits'[a].misled = audits[a].misled
            /\ audits'[a].status = "none" => audits[a].status = "none"
            /\ audits'[a].status \in {"confirmed", "reconciled"} => Landed(a),
         \/ job'.step \in {"fill", "settle", "final"}
         \/ job'.step \in {"reconcile", "recon_audit"} /\ job'.op # "reconcile"
         => job'.audit \in Audits /\ Landed(job'.audit)
  PROVE  ConfirmedHasLanded' /\ FilledOnceAndOnlyIfLanded' /\ NoFalseSuccess'
<1>1. \A a \in Audits : Landed(a)' <=> Landed(a)
  BY DEF Landed
<1>2. job'.audit \in Audits => (Landed(job'.audit) <=> \/ chain'[job'.audit] = "landed"
                                                     \/ audits'[job'.audit].misled)
  BY DEF Landed
<1>3. ConfirmedHasLanded'
  BY <1>1, <1>2 DEF ConfirmedHasLanded, Landed
<1>4. FilledOnceAndOnlyIfLanded'
  BY <1>1 DEF FilledOnceAndOnlyIfLanded
<1>5. NoFalseSuccess'
  BY <1>1, FieldsTyped DEF NoFalseSuccess
<1> QED
  BY <1>3, <1>4, <1>5

\* Every step keeps fills to landed transactions, once each, and receipts true
\* (_record_live_fill, _receipt_status_from_audit).
LEMMA LedgerNext ==
  ASSUME TypeOK, HandlerFits, UnusedKeyClaimsNothing, ConfirmedHasLanded,
         FilledOnceAndOnlyIfLanded, NoFalseSuccess, [Next]_vars
  PROVE  ConfirmedHasLanded' /\ FilledOnceAndOnlyIfLanded' /\ NoFalseSuccess'
<1>1. CASE bind_quoted_intent
  BY <1>1
  DEF bind_quoted_intent, Idle, ConfirmedHasLanded, FilledOnceAndOnlyIfLanded,
      NoFalseSuccess, Landed
<1>2. CASE simulated_intent
  BY <1>2
  DEF simulated_intent, Idle, ConfirmedHasLanded, FilledOnceAndOnlyIfLanded,
      NoFalseSuccess, Landed
<1>3. CASE execute_backend_audit
  BY <1>3
  DEF execute_backend_audit, TypeOK, Idle, Job, ReceiptRow, ConfirmedHasLanded,
      FilledOnceAndOnlyIfLanded, NoFalseSuccess, Landed, Goto
<1>4. CASE save_submitted_audit
  <2>1. \A a \in Audits : /\ audits'[a].misled = audits[a].misled
                           /\ audits'[a].status \in {audits[a].status, "submitted"}
    BY <1>4 DEF save_submitted_audit, TypeOK, AuditRow
  <2>2. job'.step \in {"intent_submitted"}
    BY <1>4 DEF save_submitted_audit, Goto, TypeOK, Job
  <2> QED
    BY <1>4, <2>1, <2>2, LedgerKept DEF save_submitted_audit, ConfirmedHasLanded
<1>5. CASE save_submitted_intent
  BY <1>5
  DEF save_submitted_intent, Idle, ConfirmedHasLanded, FilledOnceAndOnlyIfLanded,
      NoFalseSuccess, Landed
<1>6. CASE recover_live_audit
  <2>1. job.audit \in Audits
    BY <1>6 DEF recover_live_audit, HandlerFits, At
  <2>2. "confirmed" \in RpcAnswer(job.audit) => chain[job.audit] = "landed"
    BY DEF RpcAnswer
  <2>3. \/ audits' = audits
        \/ \E st \in {"stale", "needs_review", "submitted"} :
             audits' = [audits EXCEPT ![job.audit].status = st,
                                      ![job.audit].attempts = Attempted(@)]
        \/ /\ chain[job.audit] = "landed"
           /\ audits' = [audits EXCEPT ![job.audit].status = "confirmed",
                                       ![job.audit].attempts = Attempted(@)]
    BY <1>6, <2>2 DEF recover_live_audit, Recovered, Escalate, UnsignedVerdict
  <2>4. \A a \in Audits : audits'[a].status \in {"confirmed", "reconciled"}
                           => Landed(a)
    <3>1. ASSUME NEW st \in {"stale", "needs_review", "submitted"},
                 audits' = [audits EXCEPT ![job.audit].status = st,
                                          ![job.audit].attempts = Attempted(@)]
          PROVE  \A a \in Audits : audits'[a].status \in {"confirmed", "reconciled"}
                                    => Landed(a)
      BY <3>1 DEF ConfirmedHasLanded, Landed, TypeOK, AuditRow
    <3> QED
      BY <2>3, <3>1 DEF ConfirmedHasLanded, Landed, TypeOK, AuditRow
  <2>5. \/ job'.step \in {"idle", "receipt", "escalate"}
        \/ /\ job' = [job EXCEPT !.step = "fill"]
           /\ chain[job.audit] = "landed"
    <3>1. Idle.step = "idle" /\ [job EXCEPT !.step = "receipt"].step = "receipt"
      BY DEF Idle, TypeOK, Job
    <3>2. \A v : [job EXCEPT !.step = "escalate", !.verdict = v].step = "escalate"
      BY DEF TypeOK, Job
    <3>3. \/ job' = Idle
          \/ job' = [job EXCEPT !.step = "receipt"]
          \/ \E v \in {"needs_review", "failed"} :
               job' = [job EXCEPT !.step = "escalate", !.verdict = v]
          \/ /\ job' = [job EXCEPT !.step = "fill"]
             /\ "confirmed" \in RpcAnswer(job.audit)
      BY <1>6 DEF recover_live_audit, Escalate, Goto, Done
    <3> QED
      BY <2>2, <3>1, <3>2, <3>3
  <2>6. \/ job'.step \in {"fill", "settle", "final"}
        \/ job'.step \in {"reconcile", "recon_audit"} /\ job'.op # "reconcile"
        => job'.audit \in Audits /\ Landed(job'.audit)
    BY <2>1, <2>5 DEF TypeOK, Job, Landed
  <2> QED
    BY <2>4, <2>6, <1>6, RecoveryFrame, LedgerKept
<1>7. CASE save_escalation
  <2>1. \A a \in Audits : /\ audits'[a].misled = audits[a].misled
                           /\ audits'[a].status \in {audits[a].status, "needs_review", "failed"}
    BY <1>7 DEF save_escalation, TypeOK, AuditRow, HandlerFits, At
  <2>2. job'.step \in {"idle", "receipt"}
    BY <1>7 DEF save_escalation, Done, Idle, TypeOK, Job
  <2> QED
    BY <1>7, <2>1, <2>2, LedgerKept DEF save_escalation, ConfirmedHasLanded
<1>8. CASE confirmed_intent
  BY <1>8
  DEF confirmed_intent, HandlerFits, At, Idle, ConfirmedHasLanded,
      FilledOnceAndOnlyIfLanded, NoFalseSuccess, Landed
<1>9. CASE record_live_fill
  BY <1>9
  DEF record_live_fill, TypeOK, At, AlreadyFilled, ConfirmedHasLanded,
      FilledOnceAndOnlyIfLanded, NoFalseSuccess, Landed, Goto
<1>10. CASE reconcile_live_position
  BY <1>10
  DEF reconcile_live_position, At, ConfirmedHasLanded, FilledOnceAndOnlyIfLanded,
      NoFalseSuccess, Landed
<1>11. CASE reconcile_live_audit
  <2>1. job.audit \in Audits
    BY <1>11 DEF reconcile_live_audit, HandlerFits, At
  <2>2. \A a \in Audits : /\ \/ audits'[a].status = audits[a].status
                              \/ audits'[a].status = "needs_review"
                           /\ audits'[a].misled = audits[a].misled
    BY <1>11 DEF reconcile_live_audit, TypeOK, AuditRow
  <2>3. \/ job' = Idle
        \/ /\ job.op # "reconcile"
           /\ job' = [job EXCEPT !.step = "settle"] \/ job' = [job EXCEPT !.step = "final"]
    BY <1>11 DEF reconcile_live_audit, Goto
  <2>4. job.op # "reconcile" => Landed(job.audit)
    BY <1>11 DEF reconcile_live_audit, ConfirmedHasLanded, At
  <2>5. \/ job'.step \in {"fill", "settle", "final"}
        \/ job'.step \in {"reconcile", "recon_audit"} /\ job'.op # "reconcile"
        => job'.audit \in Audits /\ Landed(job'.audit)
    BY <2>1, <2>3, <2>4 DEF TypeOK, Job, Idle
  <2> QED
    BY <1>11, <2>2, <2>5, LedgerKept DEF reconcile_live_audit, ConfirmedHasLanded
<1>12. CASE settle_recovered_intent
  BY <1>12
  DEF settle_recovered_intent, At, ConfirmedHasLanded, FilledOnceAndOnlyIfLanded,
      NoFalseSuccess, Landed, Goto
<1>13. CASE settle_live_audit
  BY <1>13
  DEF settle_live_audit, At, Idle, ConfirmedHasLanded, FilledOnceAndOnlyIfLanded,
      NoFalseSuccess, Landed, Done
<1>14. CASE begin_mobile_execution_dispatch
  BY <1>14
  DEF begin_mobile_execution_dispatch, ConfirmedHasLanded,
      FilledOnceAndOnlyIfLanded, NoFalseSuccess, Landed, Goto
<1>15. CASE guarded_live_submit
  BY <1>15
  DEF guarded_live_submit, ConfirmedHasLanded, FilledOnceAndOnlyIfLanded,
      NoFalseSuccess, Landed, Goto
<1>16. CASE save_raised_receipt
  BY <1>16
  DEF save_raised_receipt, Idle, ConfirmedHasLanded, FilledOnceAndOnlyIfLanded,
      NoFalseSuccess, Landed
<1>17. CASE save_mobile_action_receipt
  BY <1>17
  DEF save_mobile_action_receipt, HandlerFits, Idle, ConfirmedHasLanded,
      FilledOnceAndOnlyIfLanded, NoFalseSuccess, Landed, ReceiptStatusFromAudit
<1>18. CASE set_live_kill_switch
  BY <1>18
  DEF set_live_kill_switch, ConfirmedHasLanded, FilledOnceAndOnlyIfLanded,
      NoFalseSuccess, Landed
<1>19. CASE Crash
  BY <1>19
  DEF Crash, Idle, ConfirmedHasLanded, FilledOnceAndOnlyIfLanded, NoFalseSuccess, Landed
<1>20. ASSUME NEW i \in Intents, create_live_intent(i)
       PROVE  ConfirmedHasLanded' /\ FilledOnceAndOnlyIfLanded' /\ NoFalseSuccess'
  BY <1>20
  DEF create_live_intent, ConfirmedHasLanded, FilledOnceAndOnlyIfLanded,
      NoFalseSuccess, Landed
<1>21. ASSUME NEW i \in Intents, generate_live_intents(i)
       PROVE  ConfirmedHasLanded' /\ FilledOnceAndOnlyIfLanded' /\ NoFalseSuccess'
  BY <1>21
  DEF generate_live_intents, ConfirmedHasLanded, FilledOnceAndOnlyIfLanded,
      NoFalseSuccess, Landed
<1>22. ASSUME NEW i \in Intents, cancel_live_intent(i)
       PROVE  ConfirmedHasLanded' /\ FilledOnceAndOnlyIfLanded' /\ NoFalseSuccess'
  BY <1>22
  DEF cancel_live_intent, ConfirmedHasLanded, FilledOnceAndOnlyIfLanded,
      NoFalseSuccess, Landed
<1>23. ASSUME NEW i \in Intents, reconcile_live_intent(i)
       PROVE  ConfirmedHasLanded' /\ FilledOnceAndOnlyIfLanded' /\ NoFalseSuccess'
  BY <1>23
  DEF reconcile_live_intent, Idle, ConfirmedHasLanded, FilledOnceAndOnlyIfLanded,
      NoFalseSuccess, Landed
<1>24. ASSUME NEW i \in Intents, mark_stale_live_intents(i)
       PROVE  ConfirmedHasLanded' /\ FilledOnceAndOnlyIfLanded' /\ NoFalseSuccess'
  BY <1>24
  DEF mark_stale_live_intents, ConfirmedHasLanded, FilledOnceAndOnlyIfLanded,
      NoFalseSuccess, Landed
<1>25. ASSUME NEW i \in Intents, NEW a \in Audits, quote_live_intent(i, a)
       PROVE  ConfirmedHasLanded' /\ FilledOnceAndOnlyIfLanded' /\ NoFalseSuccess'
  BY <1>25
  DEF quote_live_intent, ConfirmedHasLanded, FilledOnceAndOnlyIfLanded,
      NoFalseSuccess, Landed
<1>26. ASSUME NEW a \in Audits, live_simulate(a)
       PROVE  ConfirmedHasLanded' /\ FilledOnceAndOnlyIfLanded' /\ NoFalseSuccess'
  <2>1. \A b \in Audits : /\ audits'[b].misled = audits[b].misled
                           /\ audits'[b].status \in
                                {audits[b].status, "simulated", "simulation_warning"}
    BY <1>26 DEF live_simulate, TypeOK, AuditRow
  <2>2. job'.step \in {"simulated"}
    BY <1>26 DEF live_simulate, Idle, TypeOK, Job
  <2> QED
    BY <1>26, <2>1, <2>2, LedgerKept DEF live_simulate, ConfirmedHasLanded
<1>27. ASSUME NEW a \in Audits, live_submit(a)
       PROVE  ConfirmedHasLanded' /\ FilledOnceAndOnlyIfLanded' /\ NoFalseSuccess'
  BY <1>27
  DEF live_submit, ConfirmedHasLanded, FilledOnceAndOnlyIfLanded, NoFalseSuccess, Landed
<1>28. ASSUME NEW a \in Audits, live_submit_signature(a)
       PROVE  ConfirmedHasLanded' /\ FilledOnceAndOnlyIfLanded' /\ NoFalseSuccess'
  <2>1. \A b \in Audits : /\ audits'[b].misled = audits[b].misled
                           /\ audits'[b].status \in {audits[b].status, "submitted"}
    BY <1>28 DEF live_submit_signature, TypeOK, AuditRow
  <2>2. job'.step \in {"intent_submitted"}
    BY <1>28 DEF live_submit_signature, Idle, TypeOK, Job
  <2> QED
    BY <1>28, <2>1, <2>2, LedgerKept DEF live_submit_signature, ConfirmedHasLanded
<1>29. ASSUME NEW a \in Audits, live_confirm(a)
       PROVE  ConfirmedHasLanded' /\ FilledOnceAndOnlyIfLanded' /\ NoFalseSuccess'
  <2>2. PICK said \in {"landed", "failed"} :
           /\ audits'[a].status = IF said = "landed" THEN "confirmed" ELSE "failed"
           /\ audits'[a].misled = (audits[a].misled \/ chain[a] # said)
           /\ \A b \in Audits \ {a} : audits'[b] = audits[b]
    BY <1>29, ReportFrame
  <2>3. chain' = chain /\ \A b \in Audits : Landed(b) => Landed(b)'
    BY <1>29, <2>2 DEF live_confirm, Landed
  <2>4. audits'[a].status = "confirmed" => Landed(a)'
    BY <2>2, <2>3 DEF Landed
  <2>8. \A b \in Audits : audits'[b].misled => audits'[b].status # "none"
    BY <2>2 DEF ConfirmedHasLanded
  <2>9. job'.step = "confirm_intent" /\ \A b \in Audits :
           audits'[b].status \in {"confirmed", "reconciled"} => Landed(b)'
    BY <1>29, <2>2, <2>3, <2>4 DEF live_confirm, Idle, ConfirmedHasLanded
  <2>5. ConfirmedHasLanded'
    BY <2>8, <2>9 DEF ConfirmedHasLanded
  <2>6. FilledOnceAndOnlyIfLanded'
    BY <1>29, <2>3 DEF live_confirm, FilledOnceAndOnlyIfLanded
  <2>7. NoFalseSuccess'
    BY <1>29, <2>3, FieldsTyped DEF live_confirm, NoFalseSuccess
  <2> QED
    BY <2>5, <2>6, <2>7
<1>30. ASSUME NEW a \in Audits, normalize_live_audits(a)
       PROVE  ConfirmedHasLanded' /\ FilledOnceAndOnlyIfLanded' /\ NoFalseSuccess'
  BY <1>30
  DEF normalize_live_audits, ConfirmedHasLanded, FilledOnceAndOnlyIfLanded,
      NoFalseSuccess, Landed
<1>31. ASSUME NEW a \in Audits, poll_live_audits(a)
       PROVE  ConfirmedHasLanded' /\ FilledOnceAndOnlyIfLanded' /\ NoFalseSuccess'
  BY <1>31
  DEF poll_live_audits, ConfirmedHasLanded, FilledOnceAndOnlyIfLanded,
      NoFalseSuccess, Landed, StartRecovery
<1>32. ASSUME NEW a \in Audits, recover_unresolved_live_audits(a)
       PROVE  ConfirmedHasLanded' /\ FilledOnceAndOnlyIfLanded' /\ NoFalseSuccess'
  BY <1>32
  DEF recover_unresolved_live_audits, ConfirmedHasLanded, FilledOnceAndOnlyIfLanded,
      NoFalseSuccess, Landed, StartRecovery
<1>33. ASSUME NEW a \in Audits, QuoteExpires(a)
       PROVE  ConfirmedHasLanded' /\ FilledOnceAndOnlyIfLanded' /\ NoFalseSuccess'
  BY <1>33
  DEF QuoteExpires, ConfirmedHasLanded, FilledOnceAndOnlyIfLanded, NoFalseSuccess, Landed
<1>34. ASSUME NEW a \in Audits, WalletSends(a)
       PROVE  ConfirmedHasLanded' /\ FilledOnceAndOnlyIfLanded' /\ NoFalseSuccess'
  BY <1>34
  DEF WalletSends, ConfirmedHasLanded, FilledOnceAndOnlyIfLanded, NoFalseSuccess, Landed
<1>35. ASSUME NEW a \in Audits, ChainDecides(a)
       PROVE  ConfirmedHasLanded' /\ FilledOnceAndOnlyIfLanded' /\ NoFalseSuccess'
  BY <1>35
  DEF ChainDecides, TypeOK, ReceiptRow, ConfirmedHasLanded,
      FilledOnceAndOnlyIfLanded, NoFalseSuccess, Landed
<1>36. ASSUME NEW k \in Keys, NEW i \in Intents, ReviewTrade(k, i)
       PROVE  ConfirmedHasLanded' /\ FilledOnceAndOnlyIfLanded' /\ NoFalseSuccess'
  BY <1>36
  DEF ReviewTrade, ConfirmedHasLanded, FilledOnceAndOnlyIfLanded, NoFalseSuccess, Landed
<1>37. ASSUME NEW k \in Keys, approve_prepared_intent(k)
       PROVE  ConfirmedHasLanded' /\ FilledOnceAndOnlyIfLanded' /\ NoFalseSuccess'
  <2>1. PICK i \in Intents, a \in Audits :
           /\ phone[k].intent = i /\ phone[k].current /\ intents[i].audit = a
           /\ receipts[k].status = "none" /\ audits[a].status = "simulated"
           /\ Unclaimed(a)
           /\ audits' = [audits EXCEPT ![a].status = "submitting", ![a].owner = k,
                                       ![a].dispatched = FALSE]
           /\ intents' = [intents EXCEPT ![i].status = "submitting"]
           /\ phone' = Bumped(i)
           /\ receipts' = [receipts EXCEPT ![k] = [status |-> "pending", audit |-> a]]
           /\ job' = [Idle EXCEPT !.step = "claimed", !.op = "submit", !.audit = a,
                                  !.key = k]
           /\ UNCHANGED <<dispatches, chain, fills>>
    BY <1>37, ClaimFrame
  <2>2. \A b \in Audits : /\ audits'[b].misled = audits[b].misled
                          /\ audits'[b].status \in {audits[b].status, "submitting"}
    BY <2>1 DEF TypeOK, AuditRow
  <2>3. job'.step = "claimed"
    BY <2>1 DEF Idle
  <2>4. \A b \in Audits : Landed(b)' <=> Landed(b)
    BY <2>1, <2>2 DEF Landed
  <2>5. ConfirmedHasLanded'
    <3>1. \A b \in Audits :
             /\ audits'[b].misled => audits'[b].status # "none"
             /\ audits'[b].status \in {"confirmed", "reconciled"} => Landed(b)'
      BY <2>2, <2>4 DEF ConfirmedHasLanded
    <3>2. ~(job'.step \in {"fill", "settle", "final"} \/ job'.step \in {"reconcile", "recon_audit"})
      BY <2>3
    <3> QED
      BY <3>1, <3>2 DEF ConfirmedHasLanded
  <2>7. FilledOnceAndOnlyIfLanded'
    BY <2>1, <2>4 DEF FilledOnceAndOnlyIfLanded
  <2>6. NoFalseSuccess'
    BY <2>1, <2>4, FieldsTyped DEF NoFalseSuccess, TypeOK
  <2> QED
    BY <2>5, <2>6, <2>7
<1>38. ASSUME NEW k \in Keys, action(k)
       PROVE  ConfirmedHasLanded' /\ FilledOnceAndOnlyIfLanded' /\ NoFalseSuccess'
  <2>1. job'.step \in {"recover", "receipt"}
    BY <1>38 DEF action, StartRecovery, Idle
  <2> QED
    BY <1>38, <2>1
    DEF action, ConfirmedHasLanded, FilledOnceAndOnlyIfLanded, NoFalseSuccess, Landed
<1>39. ASSUME NEW k \in Keys, reject_trade(k)
       PROVE  ConfirmedHasLanded' /\ FilledOnceAndOnlyIfLanded' /\ NoFalseSuccess'
  BY <1>39
  DEF reject_trade, apply_mobile_trade_rejection, ConfirmedHasLanded, FilledOnceAndOnlyIfLanded,
      NoFalseSuccess, Landed
<1>40. ASSUME NEW k \in Keys, adjust_position_exit(k)
       PROVE  ConfirmedHasLanded' /\ FilledOnceAndOnlyIfLanded' /\ NoFalseSuccess'
  BY <1>40
  DEF adjust_position_exit, apply_mobile_position_exit_adjustment, ConfirmedHasLanded,
      FilledOnceAndOnlyIfLanded, NoFalseSuccess, Landed
<1>41. CASE UNCHANGED vars
  BY <1>41 DEF vars, ConfirmedHasLanded, FilledOnceAndOnlyIfLanded, NoFalseSuccess, Landed
<1> QED
  BY <1>1, <1>2, <1>3, <1>4, <1>5, <1>6, <1>7, <1>8, <1>9, <1>10, <1>11, <1>12,
     <1>13, <1>14, <1>15, <1>16, <1>17, <1>18, <1>19, <1>20, <1>21, <1>22, <1>23,
     <1>24, <1>25, <1>26, <1>27, <1>28, <1>29, <1>30, <1>31, <1>32, <1>33, <1>34,
     <1>35, <1>36, <1>37, <1>38, <1>39, <1>40, <1>41
  DEF Next, HandlerStep, OperatorStep, PhoneStep, Environment, approve_trade,
      close_position

-----------------------------------------------------------------------------
(* Failures, and sells that reach the signer *)

\* What a phone may be told of failures and what becomes of a dispatched sell.
ClaimsAreAnswered ==
  FailedHasFailed /\ ClaimedStaysInFlight /\ FailureIsTrue /\ SellIsOnItsWay

\* Every audit keeps its claim, and a status written to it is one its claim allows.
AuditsMove ==
  \A b \in Audits :
    /\ audits'[b].owner = audits[b].owner /\ audits'[b].tx = audits[b].tx
    /\ audits'[b].dispatched = audits[b].dispatched
    /\ audits'[b].intent = audits[b].intent
    /\ audits'[b].fresh => audits[b].fresh
    /\ audits[b].again => audits'[b].again
    /\ audits[b].misled => audits'[b].misled
    /\ \/ audits'[b].status = audits[b].status
       \/ /\ audits'[b].status = "failed" => chain[b] = "failed" \/ audits'[b].misled
          /\ audits[b].owner \in Keys /\ ~audits'[b].again =>
                audits'[b].status \in InFlight

\* The next step of the handler is not one of a claimed submission.
HandlerElsewhere ==
  /\ job.step # "raised"
  /\ job.step \in {"claimed", "checks", "signing"} => job.key \notin Keys

\* An escalation to failed is under way only for a transaction that has failed.
EscalationIsTrue ==
  job.step = "escalate" /\ job.verdict = "failed" => chain[job.audit] = "failed"

\* A step that moves audits only, and no handler on its way to the signer, keeps
\* what phones are told true (normalize_live_audits, recover_live_audit and most
\* of the handlers).
LEMMA MovesKeepAnswers ==
  ASSUME TypeOK, TypeOK', HandlerFits, ClaimsAreAnswered, AuditsMove,
         UNCHANGED <<receipts, chain, dispatches>>,
         crashes' = 0 => crashes = 0,
         EscalationIsTrue',
         \/ HandlerElsewhere'
         \/ UNCHANGED job /\ \A b \in Audits : audits'[b].status = audits[b].status,
         \/ HandlerElsewhere \/ UNCHANGED job \/ crashes' # 0
         \/ job.step \notin {"checks", "signing"}
  PROVE  ClaimsAreAnswered'
<1>1. FailedHasFailed'
  BY FieldsTyped DEF ClaimsAreAnswered, FailedHasFailed, Failed, AuditsMove, EscalationIsTrue
<1>2. ClaimedStaysInFlight'
  <2>2. \A b \in Audits : audits'[b].owner \in Keys /\ ~audits'[b].again =>
          audits'[b].status \in InFlight
    BY DEF ClaimsAreAnswered, ClaimedStaysInFlight, AuditsMove
  <2>3. /\ job'.step = "raised" => job'.key \in Keys
        /\ job'.step \in {"claimed", "checks", "signing", "raised"} /\ job'.key \in Keys =>
             audits'[job'.audit].status = "submitting"
    <3>1. CASE HandlerElsewhere'
      BY <3>1 DEF HandlerElsewhere
    <3>2. CASE UNCHANGED job /\ \A b \in Audits : audits'[b].status = audits[b].status
      <4>1. job.step = "raised" => job.key \in Keys
        BY DEF ClaimsAreAnswered, ClaimedStaysInFlight
      <4>2. job.step \in {"claimed", "checks", "signing", "raised"} /\ job.key \in Keys =>
              job.audit \in Audits
        BY DEF HandlerFits
      <4> QED
        BY <3>2, <4>1, <4>2 DEF ClaimsAreAnswered, ClaimedStaysInFlight
    <3> QED
      BY <3>1, <3>2
  <2> QED
    BY <2>2, <2>3 DEF ClaimedStaysInFlight
<1>3. FailureIsTrue'
  <2>1. \A b \in Audits : /\ ~audits'[b].again => ~audits[b].again
                          /\ Failed(b) => Failed(b)'
    BY DEF AuditsMove, Failed
  <2> QED
    BY <2>1, FieldsTyped DEF ClaimsAreAnswered, FailureIsTrue
<1>4. SellIsOnItsWay'
  BY DEF ClaimsAreAnswered, SellIsOnItsWay, AuditsMove, HandlerElsewhere
<1> QED
  BY <1>1, <1>2, <1>3, <1>4 DEF ClaimsAreAnswered


\* A step that leaves every audit as it is, and no handler on its way to the
\* signer, keeps what phones are told true (the bookkeeping of intents, positions
\* and reviews).
LEMMA QuietKeepsAnswers ==
  ASSUME TypeOK, TypeOK', HandlerFits, ClaimsAreAnswered,
         UNCHANGED <<audits, receipts, chain, dispatches>>,
         crashes' = 0 => crashes = 0,
         HandlerElsewhere', job'.step # "escalate",
         HandlerElsewhere \/ crashes' # 0
  PROVE  ClaimsAreAnswered'
<1>1. AuditsMove
  BY DEF AuditsMove
<1> QED
  BY <1>1, MovesKeepAnswers DEF EscalationIsTrue

\* A status written to one audit that keeps everything else but its counters
\* (recover_live_audit, the reconciliation of an audit).
LEMMA StatusMoves ==
  ASSUME TypeOK, TypeOK', NEW a \in Audits,
         \A b \in Audits \ {a} : audits'[b] = audits[b],
         audits'[a].owner = audits[a].owner, audits'[a].tx = audits[a].tx,
         audits'[a].dispatched = audits[a].dispatched,
         audits'[a].intent = audits[a].intent, audits'[a].fresh = audits[a].fresh,
         audits'[a].again = audits[a].again, audits'[a].misled = audits[a].misled,
         \/ audits'[a].status = audits[a].status
         \/ audits'[a].status \in InFlight /\ audits'[a].status # "failed"
         \/ audits'[a].status = "failed" /\ chain[a] = "failed"
         \/ audits'[a].status = "stale" /\ (audits[a].owner \in Keys => audits[a].again)
  PROVE  AuditsMove
<1>1. "failed" \in InFlight
  BY DEF InFlight
<1> QED
  BY <1>1 DEF AuditsMove

\* Every step keeps it true that a phone is told of failures that happened, and
\* that a dispatched sell reaches the signer (live_submit, recover_live_audit,
\* _receipt_status_from_audit).
LEMMA AnswersNext ==
  ASSUME TypeOK, TypeOK', HandlerFits, ClaimsAreExclusive, HandlerOwnsItsClaim,
         DispatchFollowsClaim, ClaimsAreAnswered, [Next]_vars
  PROVE  ClaimsAreAnswered'

<1>1. CASE bind_quoted_intent
  BY <1>1, QuietKeepsAnswers DEF bind_quoted_intent, HandlerElsewhere, At, Idle
<1>2. CASE simulated_intent
  BY <1>2, QuietKeepsAnswers DEF simulated_intent, HandlerElsewhere, At, Idle
<1>3. CASE execute_backend_audit
  <2> DEFINE a == job.audit
  <2>1. a \in Audits
    BY <1>3 DEF execute_backend_audit, HandlerFits, At
  <2>2. \A b \in Audits : chain[b] = "failed" => chain'[b] = "failed"
    BY <1>3, <2>1 DEF execute_backend_audit, TypeOK
  <2>3. job'.step \in {"sent", "idle", "raised"} /\ (job'.step = "raised" => job.key # None /\ job'.key = job.key /\ job'.audit = a)
    BY <1>3 DEF execute_backend_audit, Goto, Idle, TypeOK, Job
  <2>4. FailedHasFailed' /\ FailureIsTrue'
    BY <1>3, <2>2, <2>3, FieldsTyped
    DEF execute_backend_audit, ClaimsAreAnswered, FailedHasFailed, FailureIsTrue, Failed
  <2>5. ClaimedStaysInFlight'
    BY <1>3, <2>3, FieldsTyped
    DEF execute_backend_audit, ClaimsAreAnswered, ClaimedStaysInFlight, At
  <2>6. SellIsOnItsWay'
    <3>1. CASE job.key = None
      BY <1>3, <3>1, ConstantsAssumption
      DEF execute_backend_audit, ClaimsAreAnswered, SellIsOnItsWay, At
    <3>2. CASE job.key # None
      <4>1. dispatches'[a] = 1 /\ \A b \in Audits \ {a} : dispatches'[b] = dispatches[b]
        BY <1>3, <2>1, <3>2, FieldsTyped
        DEF execute_backend_audit, HandlerOwnsItsClaim, At, TypeOK
      <4> QED
        BY <1>3, <4>1 DEF execute_backend_audit, ClaimsAreAnswered, SellIsOnItsWay
    <3> QED
      BY <3>1, <3>2
  <2> QED
    BY <2>4, <2>5, <2>6 DEF ClaimsAreAnswered
<1>4. CASE save_submitted_audit
  <2>1. job.audit \in Audits
    BY <1>4 DEF save_submitted_audit, HandlerFits, At
  <2>2. AuditsMove
    <3>1. /\ audits'[job.audit].status = "submitted"
          /\ audits'[job.audit].owner = audits[job.audit].owner
          /\ audits'[job.audit].tx = audits[job.audit].tx
          /\ audits'[job.audit].dispatched = audits[job.audit].dispatched
          /\ audits'[job.audit].intent = audits[job.audit].intent
          /\ audits'[job.audit].fresh = audits[job.audit].fresh
          /\ audits'[job.audit].again = audits[job.audit].again
          /\ audits'[job.audit].misled = audits[job.audit].misled
          /\ \A b \in Audits \ {job.audit} : audits'[b] = audits[b]
      BY <1>4, <2>1 DEF save_submitted_audit, TypeOK, AuditRow
    <3> QED
      BY <2>1, <3>1, StatusMoves DEF InFlight
  <2>3. job'.step = "intent_submitted"
    BY <1>4 DEF save_submitted_audit, Goto, TypeOK, Job
  <2> QED
    BY <1>4, <2>2, <2>3, MovesKeepAnswers
    DEF save_submitted_audit, HandlerElsewhere, EscalationIsTrue, At
<1>5. CASE save_submitted_intent
  BY <1>5, QuietKeepsAnswers DEF save_submitted_intent, HandlerElsewhere, At, Idle, TypeOK, Job
<1>6. CASE recover_live_audit
  <2> DEFINE a == job.audit
  <2>1. a \in Audits
    BY <1>6 DEF recover_live_audit, HandlerFits, At
  <2>2. "error" \in RpcAnswer(a) => chain[a] = "failed"
    BY DEF RpcAnswer
  <2>3. UnsignedVerdict(audits[a].status) \in {"stale", "needs_review"}
        /\ (UnsignedVerdict(audits[a].status) = "stale" => audits[a].status \notin InFlight)
    BY DEF UnsignedVerdict, InFlight
  <2>4. \/ audits' = audits
        \/ \E st \in {"needs_review", "submitted", "confirmed", "stale"} :
             /\ audits' = [audits EXCEPT ![a].status = st, ![a].attempts = Attempted(@)]
             /\ st = "stale" => audits[a].status \notin InFlight
    BY <1>6, <2>3 DEF recover_live_audit, Recovered, Escalate
  <2>5. audits[a].status \notin InFlight => (audits[a].owner \in Keys => audits[a].again)
    BY <2>1 DEF ClaimsAreAnswered, ClaimedStaysInFlight
  <2>6. AuditsMove
    <3>1. CASE audits' = audits
      BY <3>1 DEF AuditsMove
    <3>2. ASSUME NEW st \in {"needs_review", "submitted", "confirmed", "stale"},
                 audits' = [audits EXCEPT ![a].status = st, ![a].attempts = Attempted(@)],
                 st = "stale" => audits[a].status \notin InFlight
          PROVE  AuditsMove
      <4>1. /\ audits'[a].status = st
            /\ audits'[a].owner = audits[a].owner /\ audits'[a].tx = audits[a].tx
            /\ audits'[a].dispatched = audits[a].dispatched
            /\ audits'[a].intent = audits[a].intent /\ audits'[a].fresh = audits[a].fresh
            /\ audits'[a].again = audits[a].again /\ audits'[a].misled = audits[a].misled
            /\ \A b \in Audits \ {a} : audits'[b] = audits[b]
        BY <2>1, <3>2 DEF TypeOK, AuditRow
      <4>2. st = "stale" \/ (st \in InFlight /\ st # "failed")
        BY DEF InFlight
      <4> QED
        BY <2>1, <2>5, <3>2, <4>1, <4>2, StatusMoves
    <3> QED
      BY <2>4, <3>1, <3>2
  <2>7. \/ job' = Idle
        \/ \E st \in {"receipt", "fill"} : job' = [job EXCEPT !.step = st]
        \/ job' = [job EXCEPT !.step = "escalate", !.verdict = "needs_review"]
        \/ job' = [job EXCEPT !.step = "escalate", !.verdict = "failed"] /\ chain[a] = "failed"
    BY <1>6, <2>2 DEF recover_live_audit, Escalate, Goto, Done
  <2>8. HandlerElsewhere' /\ EscalationIsTrue'
    <3>1. /\ Idle.step = "idle" /\ a = job.audit
          /\ \A st : [job EXCEPT !.step = st].step = st
          /\ \A v : /\ [job EXCEPT !.step = "escalate", !.verdict = v].step = "escalate"
                    /\ [job EXCEPT !.step = "escalate", !.verdict = v].verdict = v
                    /\ [job EXCEPT !.step = "escalate", !.verdict = v].audit = a
      BY DEF Idle, TypeOK, Job
    <3>2. \/ job'.step \in {"idle", "receipt", "fill"}
          \/ job'.step = "escalate" /\ job'.verdict = "needs_review"
          \/ job'.step = "escalate" /\ job'.audit = a /\ chain[a] = "failed"
      <4>1. ASSUME NEW st \in {"receipt", "fill"}, job' = [job EXCEPT !.step = st]
            PROVE  job'.step \in {"idle", "receipt", "fill"}
        BY <3>1, <4>1
      <4>2. ASSUME NEW v \in {"needs_review", "failed"},
                   job' = [job EXCEPT !.step = "escalate", !.verdict = v]
            PROVE  job'.step = "escalate" /\ job'.verdict = v /\ job'.audit = a
        BY <3>1, <4>2
      <4> QED
        BY <2>7, <3>1, <4>1, <4>2
    <3>3. chain' = chain
      BY <1>6 DEF recover_live_audit
    <3> QED
      BY <3>2, <3>3 DEF HandlerElsewhere, EscalationIsTrue
  <2> QED
    BY <1>6, <2>6, <2>8, MovesKeepAnswers DEF recover_live_audit, At
<1>7. CASE save_escalation
  <2>1. job.audit \in Audits /\ job.verdict \in {"needs_review", "failed"}
    BY <1>7 DEF save_escalation, HandlerFits, At
  <2>2. job.verdict = "failed" => chain[job.audit] = "failed"
    BY <1>7 DEF save_escalation, ClaimsAreAnswered, FailedHasFailed, Failed, At
  <2>3. AuditsMove
    <3>1. /\ audits'[job.audit].status = job.verdict
          /\ audits'[job.audit].owner = audits[job.audit].owner
          /\ audits'[job.audit].tx = audits[job.audit].tx
          /\ audits'[job.audit].dispatched = audits[job.audit].dispatched
          /\ audits'[job.audit].intent = audits[job.audit].intent
          /\ audits'[job.audit].fresh = audits[job.audit].fresh
          /\ audits'[job.audit].again = audits[job.audit].again
          /\ audits'[job.audit].misled = audits[job.audit].misled
          /\ \A b \in Audits \ {job.audit} : audits'[b] = audits[b]
      BY <1>7, <2>1 DEF save_escalation, TypeOK, AuditRow
    <3> QED
      BY <2>1, <2>2, <3>1, StatusMoves DEF InFlight
  <2>4. job'.step \in {"idle", "receipt"}
    BY <1>7 DEF save_escalation, Done, Idle, TypeOK, Job
  <2> QED
    BY <1>7, <2>3, <2>4, MovesKeepAnswers
    DEF save_escalation, HandlerElsewhere, EscalationIsTrue, At
<1>8. CASE confirmed_intent
  BY <1>8, QuietKeepsAnswers DEF confirmed_intent, HandlerElsewhere, At, Idle, TypeOK, Job
<1>9. CASE record_live_fill
  BY <1>9, QuietKeepsAnswers DEF record_live_fill, HandlerElsewhere, At, Goto, TypeOK, Job
<1>10. CASE reconcile_live_position
  BY <1>10, QuietKeepsAnswers DEF reconcile_live_position, HandlerElsewhere, At, TypeOK, Job
<1>11. CASE reconcile_live_audit
  <2>1. job.audit \in Audits
    BY <1>11 DEF reconcile_live_audit, HandlerFits, At
  <2>2. AuditsMove
    <3>1. /\ audits'[job.audit].status \in {audits[job.audit].status, "needs_review"}
          /\ audits'[job.audit].owner = audits[job.audit].owner
          /\ audits'[job.audit].tx = audits[job.audit].tx
          /\ audits'[job.audit].dispatched = audits[job.audit].dispatched
          /\ audits'[job.audit].intent = audits[job.audit].intent
          /\ audits'[job.audit].fresh = audits[job.audit].fresh
          /\ audits'[job.audit].again = audits[job.audit].again
          /\ audits'[job.audit].misled = audits[job.audit].misled
          /\ \A b \in Audits \ {job.audit} : audits'[b] = audits[b]
      BY <1>11, <2>1 DEF reconcile_live_audit, TypeOK, AuditRow
    <3> QED
      BY <2>1, <3>1, StatusMoves DEF InFlight
  <2>3. job'.step \in {"idle", "settle", "final"}
    BY <1>11 DEF reconcile_live_audit, Goto, Idle, TypeOK, Job
  <2> QED
    BY <1>11, <2>2, <2>3, MovesKeepAnswers
    DEF reconcile_live_audit, HandlerElsewhere, EscalationIsTrue, At
<1>12. CASE settle_recovered_intent
  BY <1>12, QuietKeepsAnswers DEF settle_recovered_intent, HandlerElsewhere, At, Goto, TypeOK, Job
<1>13. CASE settle_live_audit
  <2>1. job.audit \in Audits
    BY <1>13 DEF settle_live_audit, HandlerFits, At
  <2>2. AuditsMove
    <3>1. /\ audits'[job.audit].status \in {"reconciled", "needs_review"}
          /\ audits'[job.audit].owner = audits[job.audit].owner
          /\ audits'[job.audit].tx = audits[job.audit].tx
          /\ audits'[job.audit].dispatched = audits[job.audit].dispatched
          /\ audits'[job.audit].intent = audits[job.audit].intent
          /\ audits'[job.audit].fresh = audits[job.audit].fresh
          /\ audits'[job.audit].again = audits[job.audit].again
          /\ audits'[job.audit].misled = audits[job.audit].misled
          /\ \A b \in Audits \ {job.audit} : audits'[b] = audits[b]
      BY <1>13, <2>1 DEF settle_live_audit, TypeOK, AuditRow
    <3> QED
      BY <2>1, <3>1, StatusMoves DEF InFlight
  <2>3. job'.step \in {"idle", "receipt"}
    BY <1>13 DEF settle_live_audit, Done, Idle, TypeOK, Job
  <2> QED
    BY <1>13, <2>2, <2>3, MovesKeepAnswers
    DEF settle_live_audit, HandlerElsewhere, EscalationIsTrue, At
<1>14. CASE begin_mobile_execution_dispatch
  <2>1. job.audit \in Audits /\ job.key \in Keys
    BY <1>14 DEF begin_mobile_execution_dispatch, HandlerFits, HandlerOwnsItsClaim, At
  <2>2. /\ audits'[job.audit].status = audits[job.audit].status
        /\ audits'[job.audit].owner = audits[job.audit].owner
        /\ audits'[job.audit].tx = audits[job.audit].tx
        /\ audits'[job.audit].again = audits[job.audit].again
        /\ audits'[job.audit].misled = audits[job.audit].misled
        /\ \A b \in Audits \ {job.audit} : audits'[b] = audits[b]
    BY <1>14, <2>1 DEF begin_mobile_execution_dispatch, TypeOK, AuditRow
  <2>3. job'.step = "checks" /\ job'.audit = job.audit /\ job'.key = job.key
    BY <1>14 DEF begin_mobile_execution_dispatch, Goto, TypeOK, Job
  <2>4. FailedHasFailed' /\ ClaimedStaysInFlight'
    BY <1>14, <2>1, <2>2, <2>3
    DEF begin_mobile_execution_dispatch, ClaimsAreAnswered, FailedHasFailed, Failed,
        ClaimedStaysInFlight
  <2>5. FailureIsTrue'
    BY <1>14, <2>2, FieldsTyped
    DEF begin_mobile_execution_dispatch, ClaimsAreAnswered, FailureIsTrue, Failed
  <2>6. SellIsOnItsWay'
    BY <1>14, <2>1, <2>2, <2>3
    DEF begin_mobile_execution_dispatch, ClaimsAreAnswered, SellIsOnItsWay, At
  <2> QED
    BY <2>4, <2>5, <2>6 DEF ClaimsAreAnswered
<1>15. CASE guarded_live_submit
  <2>1. job.audit \in Audits /\ job.key \in Keys /\ audits[job.audit].owner = job.key
    BY <1>15 DEF guarded_live_submit, HandlerFits, HandlerOwnsItsClaim, At
  <2>2. job'.step \in {"signing", "raised"} /\ job'.audit = job.audit /\ job'.key = job.key
    BY <1>15 DEF guarded_live_submit, Goto, TypeOK, Job
  <2>3. FailedHasFailed' /\ ClaimedStaysInFlight' /\ FailureIsTrue'
    BY <1>15, <2>1, <2>2
    DEF guarded_live_submit, ClaimsAreAnswered, FailedHasFailed, Failed, ClaimedStaysInFlight,
        FailureIsTrue, At
  <2>4. audits[job.audit].fresh /\ audits[job.audit].intent \notin Buys => job'.step = "signing"
    <3>1. audits[job.audit].tx
      BY <2>1 DEF ClaimsAreAnswered, SellIsOnItsWay
    <3> QED
      BY <1>15, <3>1 DEF guarded_live_submit, Goto, SubmitAllowed, TypeOK, Job
  <2>5. SellIsOnItsWay'
    BY <1>15, <2>1, <2>2, <2>4 DEF guarded_live_submit, ClaimsAreAnswered, SellIsOnItsWay
  <2> QED
    BY <2>3, <2>5 DEF ClaimsAreAnswered
<1>16. CASE save_raised_receipt
  <2>1. job.key \in Keys /\ audits[job.audit].status = "submitting"
    BY <1>16 DEF save_raised_receipt, ClaimsAreAnswered, ClaimedStaysInFlight, At
  <2>2. \A k \in Keys : receipts'[k].audit = receipts[k].audit
                        /\ (receipts'[k].status = "failed" => receipts[k].status = "failed")
    BY <1>16, <2>1 DEF save_raised_receipt, TypeOK, ReceiptRow
  <2>3. FailedHasFailed' /\ ClaimedStaysInFlight' /\ SellIsOnItsWay'
    BY <1>16
    DEF save_raised_receipt, ClaimsAreAnswered, FailedHasFailed, Failed, ClaimedStaysInFlight,
        SellIsOnItsWay, Idle, At
  <2>4. FailureIsTrue'
    BY <1>16, <2>2 DEF save_raised_receipt, ClaimsAreAnswered, FailureIsTrue, Failed
  <2> QED
    BY <2>3, <2>4 DEF ClaimsAreAnswered
<1>17. CASE save_mobile_action_receipt
  <2> DEFINE a == job.audit
  <2>1. a \in Audits
    BY <1>17 DEF save_mobile_action_receipt, HandlerFits, At
  <2>2. ReceiptStatusFromAudit(audits[a].status) = "failed" => audits[a].status \in {"failed", "stale"}
    BY DEF ReceiptStatusFromAudit
  <2>3. FailedHasFailed' /\ ClaimedStaysInFlight' /\ SellIsOnItsWay'
    BY <1>17
    DEF save_mobile_action_receipt, ClaimsAreAnswered, FailedHasFailed, Failed,
        ClaimedStaysInFlight, SellIsOnItsWay, Idle, At
  <2>4. ASSUME NEW k \in Keys, receipts'[k].audit # None, receipts'[k].status = "failed",
               ~audits[receipts'[k].audit].again
        PROVE  Failed(receipts'[k].audit)
    <3>1. CASE k = job.key
      <4>1. receipts'[k].audit = receipts[k].audit
            /\ receipts'[k].status = ReceiptStatusFromAudit(audits[a].status)
        BY <1>17, <3>1 DEF save_mobile_action_receipt, TypeOK, ReceiptRow
      <4>2. receipts[k].audit = a /\ audits[a].owner = k
        BY <2>1, <3>1 DEF HandlerFits, ClaimsAreExclusive
      <4>3. audits[a].status \in InFlight
        BY <2>1, <2>4, <4>1, <4>2 DEF ClaimsAreAnswered, ClaimedStaysInFlight
      <4>4. audits[a].status = "failed"
        BY <2>2, <2>4, <4>1, <4>3 DEF InFlight
      <4> QED
        BY <2>1, <4>1, <4>2, <4>4 DEF ClaimsAreAnswered, FailedHasFailed, Failed
    <3>2. CASE k # job.key
      BY <1>17, <2>4, <3>2
      DEF save_mobile_action_receipt, ClaimsAreAnswered, FailureIsTrue, Failed, TypeOK
    <3> QED
      BY <3>1, <3>2
  <2>5. FailureIsTrue'
    BY <1>17, <2>4 DEF save_mobile_action_receipt, FailureIsTrue, Failed
  <2> QED
    BY <2>3, <2>5 DEF ClaimsAreAnswered
<1>18. CASE set_live_kill_switch
  BY <1>18, QuietKeepsAnswers DEF set_live_kill_switch, HandlerElsewhere, At
<1>19. CASE Crash
  <2>1. crashes' # 0
    BY <1>19, ConstantsAssumption DEF Crash, TypeOK
  <2> QED
    BY <1>19, <2>1, QuietKeepsAnswers DEF Crash, HandlerElsewhere, Idle
<1>20. ASSUME NEW i \in Intents, create_live_intent(i)
       PROVE  ClaimsAreAnswered'
  BY <1>20, QuietKeepsAnswers DEF create_live_intent, HandlerElsewhere, At
<1>21. ASSUME NEW i \in Intents, generate_live_intents(i)
       PROVE  ClaimsAreAnswered'
  BY <1>21, QuietKeepsAnswers DEF generate_live_intents, HandlerElsewhere, At
<1>22. ASSUME NEW i \in Intents, cancel_live_intent(i)
       PROVE  ClaimsAreAnswered'
  BY <1>22, QuietKeepsAnswers DEF cancel_live_intent, HandlerElsewhere, At
<1>23. ASSUME NEW i \in Intents, reconcile_live_intent(i)
       PROVE  ClaimsAreAnswered'
  BY <1>23, QuietKeepsAnswers DEF reconcile_live_intent, HandlerElsewhere, At, Idle
<1>24. ASSUME NEW i \in Intents, mark_stale_live_intents(i)
       PROVE  ClaimsAreAnswered'
  BY <1>24, QuietKeepsAnswers DEF mark_stale_live_intents, HandlerElsewhere, At
<1>25. ASSUME NEW i \in Intents, NEW a \in Audits, quote_live_intent(i, a)
       PROVE  ClaimsAreAnswered'
  <2>1. /\ audits'[a].owner = None /\ ~audits'[a].dispatched
        /\ audits'[a].status \in {"ready", "blocked"}
        /\ \A b \in Audits \ {a} : audits'[b] = audits[b]
    BY <1>25 DEF quote_live_intent, NoAudit, TypeOK
  <2>2. audits[a].owner = None
    BY <1>25 DEF quote_live_intent, DispatchFollowsClaim
  <2>3. \A k \in Keys : receipts[k].audit # a
    BY <2>2, ConstantsAssumption DEF ClaimsAreExclusive
  <2>4. job'.step = "bind"
    BY <1>25 DEF quote_live_intent, Idle
  <2>5. FailedHasFailed' /\ ClaimedStaysInFlight'
    BY <1>25, <2>1, <2>4, ConstantsAssumption
    DEF quote_live_intent, ClaimsAreAnswered, FailedHasFailed, Failed, ClaimedStaysInFlight
  <2>6. FailureIsTrue'
    BY <1>25, <2>1, <2>3, FieldsTyped
    DEF quote_live_intent, ClaimsAreAnswered, FailureIsTrue, Failed
  <2>7. SellIsOnItsWay'
    BY <1>25, <2>1, <2>4, ConstantsAssumption
    DEF quote_live_intent, ClaimsAreAnswered, SellIsOnItsWay, At
  <2> QED
    BY <2>5, <2>6, <2>7 DEF ClaimsAreAnswered
<1>26. ASSUME NEW a \in Audits, live_simulate(a)
       PROVE  ClaimsAreAnswered'
  <2>1. /\ audits'[a].status \in {"simulated", "simulation_warning"}
        /\ audits'[a].owner = audits[a].owner /\ audits'[a].tx = audits[a].tx
        /\ audits'[a].dispatched = audits[a].dispatched
        /\ audits'[a].intent = audits[a].intent /\ audits'[a].fresh = audits[a].fresh
        /\ audits'[a].again = (audits[a].again \/ audits[a].owner # None)
        /\ audits'[a].misled = audits[a].misled
        /\ \A b \in Audits \ {a} : audits'[b] = audits[b]
    BY <1>26 DEF live_simulate, TypeOK, AuditRow
  <2>2. audits[a].owner \in Keys => audits'[a].again
    BY <2>1, ConstantsAssumption
  <2>3. AuditsMove
    BY <2>1, <2>2 DEF AuditsMove
  <2>4. job'.step = "simulated"
    BY <1>26 DEF live_simulate, Idle
  <2> QED
    BY <1>26, <2>3, <2>4, MovesKeepAnswers
    DEF live_simulate, HandlerElsewhere, EscalationIsTrue, At
<1>27. ASSUME NEW a \in Audits, live_submit(a)
       PROVE  ClaimsAreAnswered'
  <2>1. /\ audits'[a].status = "submitting"
        /\ audits'[a].owner = audits[a].owner /\ audits'[a].tx = audits[a].tx
        /\ audits'[a].dispatched = audits[a].dispatched
        /\ audits'[a].intent = audits[a].intent /\ audits'[a].fresh = audits[a].fresh
        /\ audits'[a].again = audits[a].again /\ audits'[a].misled = audits[a].misled
        /\ \A b \in Audits \ {a} : audits'[b] = audits[b]
    BY <1>27 DEF live_submit, TypeOK, AuditRow
  <2>2. AuditsMove
    BY <2>1, StatusMoves DEF InFlight
  <2>3. job'.step = "signing" /\ job'.key = None
    BY <1>27 DEF live_submit, Idle
  <2> QED
    BY <1>27, <2>2, <2>3, ConstantsAssumption, MovesKeepAnswers
    DEF live_submit, HandlerElsewhere, EscalationIsTrue, At
<1>28. ASSUME NEW a \in Audits, live_submit_signature(a)
       PROVE  ClaimsAreAnswered'
  <2>1. /\ audits'[a].status = "submitted"
        /\ audits'[a].owner = audits[a].owner /\ audits'[a].tx = audits[a].tx
        /\ audits'[a].dispatched = audits[a].dispatched
        /\ audits'[a].intent = audits[a].intent /\ audits'[a].fresh = audits[a].fresh
        /\ audits'[a].again = audits[a].again /\ audits'[a].misled = audits[a].misled
        /\ \A b \in Audits \ {a} : audits'[b] = audits[b]
    BY <1>28 DEF live_submit_signature, TypeOK, AuditRow
  <2>2. AuditsMove
    BY <2>1, StatusMoves DEF InFlight
  <2>3. job'.step = "intent_submitted"
    BY <1>28 DEF live_submit_signature, Idle
  <2> QED
    BY <1>28, <2>2, <2>3, MovesKeepAnswers
    DEF live_submit_signature, HandlerElsewhere, EscalationIsTrue, At
<1>29. ASSUME NEW a \in Audits, live_confirm(a)
       PROVE  ClaimsAreAnswered'
  <2>2. AuditsMove
    BY <1>29, ReportFrame DEF AuditsMove, InFlight
  <2>3. job'.step = "confirm_intent"
    BY <1>29 DEF live_confirm, Idle
  <2> QED
    BY <1>29, <2>2, <2>3, MovesKeepAnswers
    DEF live_confirm, HandlerElsewhere, EscalationIsTrue, At
<1>30. ASSUME NEW a \in Audits, normalize_live_audits(a)
       PROVE  ClaimsAreAnswered'
  <2>1. /\ audits'[a].status = "stale"
        /\ audits'[a].owner = audits[a].owner /\ audits'[a].tx = audits[a].tx
        /\ audits'[a].dispatched = audits[a].dispatched
        /\ audits'[a].intent = audits[a].intent /\ audits'[a].fresh = audits[a].fresh
        /\ audits'[a].again = audits[a].again /\ audits'[a].misled = audits[a].misled
        /\ \A b \in Audits \ {a} : audits'[b] = audits[b]
    BY <1>30 DEF normalize_live_audits, TypeOK, AuditRow
  <2>2. audits[a].owner \in Keys => audits[a].again
    BY <1>30 DEF normalize_live_audits, InFlight, ClaimsAreAnswered, ClaimedStaysInFlight
  <2>3. AuditsMove
    BY <2>1, <2>2, StatusMoves
  <2> QED
    BY <1>30, <2>3, MovesKeepAnswers
    DEF normalize_live_audits, HandlerElsewhere, EscalationIsTrue, At
<1>31. ASSUME NEW a \in Audits, poll_live_audits(a)
       PROVE  ClaimsAreAnswered'
  BY <1>31, QuietKeepsAnswers DEF poll_live_audits, HandlerElsewhere, At, StartRecovery, Idle
<1>32. ASSUME NEW a \in Audits, recover_unresolved_live_audits(a)
       PROVE  ClaimsAreAnswered'
  BY <1>32, QuietKeepsAnswers DEF recover_unresolved_live_audits, HandlerElsewhere, At, StartRecovery, Idle
<1>33. ASSUME NEW a \in Audits, QuoteExpires(a)
       PROVE  ClaimsAreAnswered'
  <2>1. /\ ~audits'[a].fresh /\ audits'[a].status = audits[a].status
        /\ audits'[a].owner = audits[a].owner /\ audits'[a].tx = audits[a].tx
        /\ audits'[a].dispatched = audits[a].dispatched
        /\ audits'[a].intent = audits[a].intent
        /\ audits'[a].again = audits[a].again /\ audits'[a].misled = audits[a].misled
        /\ \A b \in Audits \ {a} : audits'[b] = audits[b]
    BY <1>33 DEF QuoteExpires, TypeOK, AuditRow
  <2>3. AuditsMove /\ \A b \in Audits : audits'[b].status = audits[b].status
    BY <2>1 DEF AuditsMove
  <2>4. EscalationIsTrue'
    BY <1>33 DEF QuoteExpires, EscalationIsTrue, ClaimsAreAnswered, FailedHasFailed, Failed
  <2> QED
    BY <1>33, <2>3, <2>4, MovesKeepAnswers DEF QuoteExpires
<1>34. ASSUME NEW a \in Audits, WalletSends(a)
       PROVE  ClaimsAreAnswered'
  <2>1. \A b \in Audits : chain[b] = "failed" => chain'[b] = "failed"
    BY <1>34 DEF WalletSends, TypeOK
  <2>2. FailedHasFailed' /\ FailureIsTrue'
    BY <1>34, <2>1, FieldsTyped 
       DEF WalletSends, ClaimsAreAnswered, FailedHasFailed, FailureIsTrue, Failed, HandlerFits
  <2> QED
    BY <1>34, <2>2
    DEF WalletSends, ClaimsAreAnswered, ClaimedStaysInFlight, SellIsOnItsWay
<1>35. ASSUME NEW a \in Audits, ChainDecides(a)
       PROVE  ClaimsAreAnswered'
  <2>1. \A b \in Audits : chain[b] = "failed" => chain'[b] = "failed"
    BY <1>35 DEF ChainDecides, TypeOK
  <2>2. FailedHasFailed' /\ FailureIsTrue'
    BY <1>35, <2>1, FieldsTyped 
       DEF ChainDecides, ClaimsAreAnswered, FailedHasFailed, FailureIsTrue, Failed, HandlerFits
  <2> QED
    BY <1>35, <2>2
    DEF ChainDecides, ClaimsAreAnswered, ClaimedStaysInFlight, SellIsOnItsWay
<1>36. ASSUME NEW k \in Keys, NEW i \in Intents, ReviewTrade(k, i)
       PROVE  ClaimsAreAnswered'
  BY <1>36, QuietKeepsAnswers DEF ReviewTrade, HandlerElsewhere, At
<1>37. ASSUME NEW k \in Keys, approve_prepared_intent(k)
       PROVE  ClaimsAreAnswered'
  <2>1. PICK i \in Intents, a \in Audits :
           /\ phone[k].intent = i /\ phone[k].current /\ intents[i].audit = a
           /\ receipts[k].status = "none" /\ audits[a].status = "simulated"
           /\ Unclaimed(a)
           /\ audits' = [audits EXCEPT ![a].status = "submitting", ![a].owner = k,
                                       ![a].dispatched = FALSE]
           /\ intents' = [intents EXCEPT ![i].status = "submitting"]
           /\ phone' = Bumped(i)
           /\ receipts' = [receipts EXCEPT ![k] = [status |-> "pending", audit |-> a]]
           /\ job' = [Idle EXCEPT !.step = "claimed", !.op = "submit", !.audit = a,
                                  !.key = k]
           /\ UNCHANGED <<dispatches, chain, fills>>
    BY <1>37, ClaimFrame
  <2>2. audits[a].tx /\ crashes' = crashes /\ job.step = "idle"
    BY <1>37, <2>1 DEF approve_prepared_intent, TradeValid, At
  <2>3. /\ audits'[a].status = "submitting" /\ ~audits'[a].dispatched
        /\ audits'[a].tx = audits[a].tx /\ audits'[a].again = audits[a].again
        /\ audits'[a].misled = audits[a].misled
        /\ \A b \in Audits \ {a} : audits'[b] = audits[b]
    BY <2>1 DEF TypeOK, AuditRow
  <2>5. job'.step = "claimed" /\ job'.audit = a /\ chain' = chain
    BY <2>1 DEF Idle
  <2>4. \A b \in Audits : audits'[b].again = audits[b].again /\ (Failed(b)' <=> Failed(b))
    BY <2>3, <2>5 DEF Failed
  <2>6. FailedHasFailed'
    <3>1. \A b \in Audits : audits'[b].status = "failed" => audits[b].status = "failed"
      BY <2>3
    <3> QED
      BY <2>4, <2>5, <3>1 DEF ClaimsAreAnswered, FailedHasFailed
  <2>9. ClaimedStaysInFlight'
    <3>1. \A b \in Audits : audits'[b].owner \in Keys /\ ~audits'[b].again =>
                             audits'[b].status \in InFlight
      BY <2>3 DEF ClaimsAreAnswered, ClaimedStaysInFlight, InFlight
    <3> QED
      BY <2>3, <2>5, <3>1 DEF ClaimedStaysInFlight
  <2>7. FailureIsTrue'
    <3>1. receipts'[k].status = "pending" /\ \A l \in Keys \ {k} : receipts'[l] = receipts[l]
      BY <2>1 DEF TypeOK
    <3>2. \A l \in Keys : receipts[l].audit # a
      BY <2>1 DEF Unclaimed
    <3> QED
      BY <2>1, <2>4, <3>1, <3>2, FieldsTyped DEF ClaimsAreAnswered, FailureIsTrue
  <2>8. SellIsOnItsWay'
    BY <2>1, <2>2, <2>3 DEF ClaimsAreAnswered, SellIsOnItsWay
  <2> QED
    BY <2>6, <2>7, <2>8, <2>9 DEF ClaimsAreAnswered
<1>38. ASSUME NEW k \in Keys, action(k)
       PROVE  ClaimsAreAnswered'
  <2>1. job'.step \in {"recover", "receipt"}
    BY <1>38 DEF action, StartRecovery, Idle
  <2> QED
    BY <1>38, <2>1, QuietKeepsAnswers DEF action, HandlerElsewhere, At
<1>39. ASSUME NEW k \in Keys, reject_trade(k)
       PROVE  ClaimsAreAnswered'
  <2>1. receipts'[k].audit = None /\ \A l \in Keys \ {k} : receipts'[l] = receipts[l]
    BY <1>39 DEF reject_trade, apply_mobile_trade_rejection, TypeOK
  <2>2. FailureIsTrue'
    BY <1>39, <2>1 DEF reject_trade, ClaimsAreAnswered, FailureIsTrue, Failed
  <2> QED
    BY <1>39, <2>2
    DEF reject_trade, ClaimsAreAnswered, FailedHasFailed, Failed, ClaimedStaysInFlight,
        SellIsOnItsWay
<1>40. ASSUME NEW k \in Keys, adjust_position_exit(k)
       PROVE  ClaimsAreAnswered'
  <2>1. receipts'[k].audit = None /\ \A l \in Keys \ {k} : receipts'[l] = receipts[l]
    BY <1>40 DEF adjust_position_exit, apply_mobile_position_exit_adjustment, TypeOK
  <2>2. FailureIsTrue'
    BY <1>40, <2>1 DEF adjust_position_exit, ClaimsAreAnswered, FailureIsTrue, Failed
  <2> QED
    BY <1>40, <2>2
    DEF adjust_position_exit, ClaimsAreAnswered, FailedHasFailed, Failed, ClaimedStaysInFlight,
        SellIsOnItsWay
<1>41. CASE UNCHANGED vars
  BY <1>41
  DEF vars, ClaimsAreAnswered, FailedHasFailed, Failed, ClaimedStaysInFlight, FailureIsTrue,
      SellIsOnItsWay
<1> QED
  BY <1>1, <1>2, <1>3, <1>4, <1>5, <1>6, <1>7, <1>8, <1>9, <1>10, <1>11, <1>12,
     <1>13, <1>14, <1>15, <1>16, <1>17, <1>18, <1>19, <1>20, <1>21, <1>22, <1>23,
     <1>24, <1>25, <1>26, <1>27, <1>28, <1>29, <1>30, <1>31, <1>32, <1>33, <1>34,
     <1>35, <1>36, <1>37, <1>38, <1>39, <1>40, <1>41
  DEF Next, HandlerStep, OperatorStep, PhoneStep, Environment, approve_trade,
      close_position

-----------------------------------------------------------------------------
(* Refinement of GuardedDispatch *)

\* A step that leaves every claim, dispatch marker and signer call as it was.
ClaimsKept ==
  /\ \A a \in Audits : /\ audits'[a].owner = audits[a].owner
                       /\ audits'[a].dispatched = audits[a].dispatched
  /\ UNCHANGED dispatches

\* The steps that may change them: the claim, the marker, the guarded call.
ClaimStep ==
  \/ begin_mobile_execution_dispatch
  \/ execute_backend_audit /\ job.key \in Keys
  \/ \E k \in Keys : approve_prepared_intent(k)

\* Only the claim, the dispatch marker and the signer call change what
\* GuardedDispatch sees.
LEMMA OnlyClaimStepsTouchClaims ==
  ASSUME TypeOK, HandlerFits, DispatchFollowsClaim, [Next]_vars
  PROVE  ClaimsKept \/ ClaimStep
<1>1. CASE bind_quoted_intent
  BY <1>1 DEF bind_quoted_intent, ClaimsKept
<1>2. CASE simulated_intent
  BY <1>2 DEF simulated_intent, ClaimsKept
<1>3. CASE execute_backend_audit
  BY <1>3, FieldsTyped DEF execute_backend_audit, ClaimsKept, ClaimStep
<1>4. CASE save_submitted_audit
  BY <1>4 DEF save_submitted_audit, TypeOK, ClaimsKept
<1>5. CASE save_submitted_intent
  BY <1>5 DEF save_submitted_intent, ClaimsKept
<1>6. CASE recover_live_audit
  BY <1>6, RecoveryFrame DEF ClaimsKept
<1>7. CASE save_escalation
  BY <1>7 DEF save_escalation, TypeOK, ClaimsKept
<1>8. CASE confirmed_intent
  BY <1>8 DEF confirmed_intent, ClaimsKept
<1>9. CASE record_live_fill
  BY <1>9 DEF record_live_fill, ClaimsKept
<1>10. CASE reconcile_live_position
  BY <1>10 DEF reconcile_live_position, ClaimsKept
<1>11. CASE reconcile_live_audit
  BY <1>11 DEF reconcile_live_audit, TypeOK, ClaimsKept
<1>12. CASE settle_recovered_intent
  BY <1>12 DEF settle_recovered_intent, ClaimsKept
<1>13. CASE settle_live_audit
  BY <1>13 DEF settle_live_audit, ClaimsKept
<1>14. CASE begin_mobile_execution_dispatch
  BY <1>14 DEF ClaimStep
<1>15. CASE guarded_live_submit
  BY <1>15 DEF guarded_live_submit, ClaimsKept
<1>16. CASE save_raised_receipt
  BY <1>16 DEF save_raised_receipt, ClaimsKept
<1>17. CASE save_mobile_action_receipt
  BY <1>17 DEF save_mobile_action_receipt, ClaimsKept
<1>18. CASE set_live_kill_switch
  BY <1>18 DEF set_live_kill_switch, ClaimsKept
<1>19. CASE Crash
  BY <1>19 DEF Crash, ClaimsKept
<1>20. ASSUME NEW i \in Intents, create_live_intent(i)
       PROVE  ClaimsKept \/ ClaimStep
  BY <1>20 DEF create_live_intent, ClaimsKept
<1>21. ASSUME NEW i \in Intents, generate_live_intents(i)
       PROVE  ClaimsKept \/ ClaimStep
  BY <1>21 DEF generate_live_intents, ClaimsKept
<1>22. ASSUME NEW i \in Intents, cancel_live_intent(i)
       PROVE  ClaimsKept \/ ClaimStep
  BY <1>22 DEF cancel_live_intent, ClaimsKept
<1>23. ASSUME NEW i \in Intents, reconcile_live_intent(i)
       PROVE  ClaimsKept \/ ClaimStep
  BY <1>23 DEF reconcile_live_intent, ClaimsKept
<1>24. ASSUME NEW i \in Intents, mark_stale_live_intents(i)
       PROVE  ClaimsKept \/ ClaimStep
  BY <1>24 DEF mark_stale_live_intents, ClaimsKept
<1>25. ASSUME NEW i \in Intents, NEW a \in Audits, quote_live_intent(i, a)
       PROVE  ClaimsKept \/ ClaimStep
  <2>1. PICK row : /\ row.owner = None /\ row.dispatched = FALSE
                   /\ audits' = [audits EXCEPT ![a] = row]
    <3>1. PICK ready \in BOOLEAN : audits' = [audits EXCEPT ![a] =
                        [NoAudit EXCEPT !.status = IF ready THEN "ready" ELSE "blocked",
  !.intent = i, !.fresh = TRUE, !.tx = ready]]
      BY <1>25 DEF quote_live_intent
    <3> QED
      BY <3>1 DEF NoAudit
  <2>2. audits[a].owner = None /\ audits[a].dispatched = FALSE
    BY <1>25, FieldsTyped DEF quote_live_intent, DispatchFollowsClaim
  <2>3. ASSUME NEW b \in Audits
        PROVE  audits'[b].owner = audits[b].owner /\ audits'[b].dispatched = audits[b].dispatched
    <3>1. CASE b = a
      BY <3>1, <2>1, <2>2 DEF TypeOK
    <3>2. CASE b # a
      BY <3>2, <2>1 DEF TypeOK
    <3> QED
      BY <3>1, <3>2
  <2> QED
    BY <1>25, <2>3 DEF ClaimsKept, quote_live_intent
<1>26. ASSUME NEW a \in Audits, live_simulate(a) PROVE ClaimsKept \/ ClaimStep
  BY <1>26 DEF live_simulate, TypeOK, ClaimsKept
<1>27. ASSUME NEW a \in Audits, live_submit(a) PROVE ClaimsKept \/ ClaimStep
  BY <1>27 DEF live_submit, ClaimsKept
<1>28. ASSUME NEW a \in Audits, live_submit_signature(a)
       PROVE  ClaimsKept \/ ClaimStep
  BY <1>28 DEF live_submit_signature, TypeOK, ClaimsKept
<1>29. ASSUME NEW a \in Audits, live_confirm(a) PROVE ClaimsKept \/ ClaimStep
  BY <1>29, ReportFrame DEF ClaimsKept
<1>30. ASSUME NEW a \in Audits, normalize_live_audits(a)
       PROVE  ClaimsKept \/ ClaimStep
  BY <1>30 DEF normalize_live_audits, ClaimsKept
<1>31. ASSUME NEW a \in Audits, poll_live_audits(a)
       PROVE  ClaimsKept \/ ClaimStep
  BY <1>31 DEF poll_live_audits, ClaimsKept
<1>32. ASSUME NEW a \in Audits, recover_unresolved_live_audits(a)
       PROVE  ClaimsKept \/ ClaimStep
  BY <1>32 DEF recover_unresolved_live_audits, ClaimsKept
<1>33. ASSUME NEW a \in Audits, QuoteExpires(a) PROVE ClaimsKept \/ ClaimStep
  BY <1>33 DEF QuoteExpires, ClaimsKept
<1>34. ASSUME NEW a \in Audits, WalletSends(a) PROVE ClaimsKept \/ ClaimStep
  BY <1>34 DEF WalletSends, ClaimsKept
<1>35. ASSUME NEW a \in Audits, ChainDecides(a) PROVE ClaimsKept \/ ClaimStep
  BY <1>35 DEF ChainDecides, ClaimsKept
<1>36. ASSUME NEW k \in Keys, NEW i \in Intents, ReviewTrade(k, i)
       PROVE  ClaimsKept \/ ClaimStep
  BY <1>36 DEF ReviewTrade, ClaimsKept
<1>37. ASSUME NEW k \in Keys, approve_prepared_intent(k)
       PROVE  ClaimsKept \/ ClaimStep
  BY <1>37 DEF ClaimStep
<1>38. ASSUME NEW k \in Keys, action(k) PROVE ClaimsKept \/ ClaimStep
  BY <1>38 DEF action, ClaimsKept
<1>39. ASSUME NEW k \in Keys, reject_trade(k)
       PROVE  ClaimsKept \/ ClaimStep
  BY <1>39 DEF reject_trade, apply_mobile_trade_rejection, ClaimsKept
<1>40. ASSUME NEW k \in Keys, adjust_position_exit(k)
       PROVE  ClaimsKept \/ ClaimStep
  BY <1>40 DEF adjust_position_exit, apply_mobile_position_exit_adjustment, ClaimsKept
<1>41. CASE UNCHANGED vars
  BY <1>41 DEF vars, ClaimsKept
<1> QED
  BY <1>1, <1>2, <1>3, <1>4, <1>5, <1>6, <1>7, <1>8, <1>9, <1>10, <1>11, <1>12,
     <1>13, <1>14, <1>15, <1>16, <1>17, <1>18, <1>19, <1>20, <1>21, <1>22, <1>23,
     <1>24, <1>25, <1>26, <1>27, <1>28, <1>29, <1>30, <1>31, <1>32, <1>33, <1>34,
     <1>35, <1>36, <1>37, <1>38, <1>39, <1>40, <1>41
  DEF Next, HandlerStep, OperatorStep, PhoneStep, Environment, approve_trade,
      close_position

\* Every step of the control plane is a step of GuardedDispatch or a stutter.
LEMMA RefinementNext ==
  ASSUME IndInv, [Next]_vars
  PROVE  [Dispatch!Next]_(Dispatch!vars)
<1>1. CASE ClaimsKept
  BY <1>1 DEF ClaimsKept, Dispatch!vars
<1>2. CASE begin_mobile_execution_dispatch
  <2>1. /\ job.audit \in Audits /\ audits[job.audit].owner # None
        /\ audits[job.audit].dispatched = FALSE /\ dispatches' = dispatches
    BY <1>2, ConstantsAssumption
    DEF begin_mobile_execution_dispatch, IndInv, HandlerOwnsItsClaim, At
  <2>2. \A b \in Audits : /\ audits'[b].owner = audits[b].owner
                           /\ audits'[b].dispatched =
                                IF b = job.audit THEN TRUE ELSE audits[b].dispatched
    BY <1>2 DEF begin_mobile_execution_dispatch, IndInv, TypeOK
  <2>3. PICK a \in Audits : a = job.audit
    BY <2>1
  <2>4. Dispatch!Start(a)
    BY <2>1, <2>2, <2>3 DEF Dispatch!Start
  <2> QED
    BY <2>4 DEF Dispatch!Next
<1>3. CASE execute_backend_audit /\ job.key \in Keys
  <2>1. /\ job.audit \in Audits /\ audits[job.audit].dispatched = TRUE
        /\ dispatches[job.audit] = 0
    BY <1>3 DEF execute_backend_audit, IndInv, HandlerOwnsItsClaim, At
  <2>2. audits' = audits /\ dispatches' = [dispatches EXCEPT ![job.audit] = 1]
    BY <1>3, <2>1, ConstantsAssumption DEF execute_backend_audit
  <2>3. Dispatch!Call(job.audit)
    BY <2>1, <2>2 DEF Dispatch!Call
  <2> QED
    BY <2>1, <2>3 DEF Dispatch!Next
<1>4. ASSUME NEW k \in Keys, approve_prepared_intent(k)
      PROVE  Dispatch!Next
  <2>1. PICK a \in Audits :
           /\ receipts[k].status = "none" /\ Unclaimed(a)
           /\ audits' = [audits EXCEPT ![a].status = "submitting", ![a].owner = k,
                                       ![a].dispatched = FALSE]
           /\ UNCHANGED dispatches
    BY <1>4, ClaimFrame DEF IndInv
  <2>2. audits[a].owner = None /\ audits[a].dispatched = FALSE
    BY <2>1 DEF IndInv, Unclaimed, DispatchFollowsClaim
  <2>3. \A b \in Audits : audits[b].owner # k
    BY <2>1, ConstantsAssumption
    DEF IndInv, UnusedKeyClaimsNothing, ClaimsAreExclusive
  <2>4. audits' = [b \in Audits |-> IF b = a THEN audits'[a] ELSE audits[b]]
    BY <2>1 DEF IndInv, TypeOK
  <2>5. audits'[a].owner = k /\ audits'[a].dispatched = FALSE
    BY <2>1 DEF IndInv, TypeOK, AuditRow
  <2>6. [b \in Audits |-> audits'[b].dispatched] = [b \in Audits |-> audits[b].dispatched]
    <3>1. ASSUME NEW b \in Audits PROVE audits'[b].dispatched = audits[b].dispatched
      <4>1. CASE b = a
        BY <4>1, <2>2, <2>5
      <4>2. CASE b # a
        BY <4>2, <2>4
      <4> QED
        BY <4>1, <4>2
    <3> QED
      BY <3>1
  <2>7. [b \in Audits |-> audits'[b].owner]
           = [[b \in Audits |-> audits[b].owner] EXCEPT ![a] = k]
    BY <2>4, <2>5
  <2>8. Dispatch!Claim(k, a)
    BY <2>1, <2>2, <2>3, <2>6, <2>7 DEF Dispatch!Claim
  <2> QED
    BY <2>8, Zenon DEF Dispatch!Next
<1> QED
  BY <1>1, <1>2, <1>3, <1>4, OnlyClaimStepsTouchClaims DEF IndInv, ClaimStep

-----------------------------------------------------------------------------
(* Theorems *)

\* The inductive invariant holds at the start.
LEMMA InitIndInv == Init => IndInv
<1> SUFFICES ASSUME Init PROVE IndInv
  OBVIOUS
<1>1. TypeOK
  <2>1. 0 \in 0..AttemptCap /\ 0 \in 0..MaxSimulations /\ 0 \in 0..MaxCrashes
    BY ConstantsAssumption DEF AttemptCap
  <2>2. intents \in [Intents -> IntentRow]
    BY DEF Init, IntentRow, IntentStatus
  <2>3. NoAudit \in AuditRow
    BY <2>1 DEF NoAudit, AuditRow, AuditStatus, Reconciliation
  <2>4. receipts \in [Keys -> ReceiptRow] /\ phone \in [Keys -> ReviewRow]
    BY DEF Init, ReceiptRow, ReceiptStatus, ReviewRow
  <2>5. position \in PositionRow
    BY DEF Init, PositionRow, Reconciliation
  <2>6. chain \in [Audits -> ChainState]
    BY DEF Init, ChainState
  <2>7. job \in Job
    BY DEF Init, Idle, Job, Step, Op
  <2> QED
    BY <2>1, <2>2, <2>3, <2>4, <2>5, <2>6, <2>7 DEF Init, TypeOK
<1>2. HandlerFits /\ HandlerOwnsItsClaim
  BY DEF Init, HandlerFits, HandlerOwnsItsClaim, Idle
<1>3. /\ LocalReceiptIsTerminal /\ UnusedKeyClaimsNothing
      /\ ExecutesReviewedQuote /\ CurrentReviewIsExact
  BY
  DEF Init, LocalReceiptIsTerminal, UnusedKeyClaimsNothing, ExecutesReviewedQuote,
      CurrentReviewIsExact
<1>4. DispatchedAtMostOnce /\ ClaimsAreExclusive /\ DispatchFollowsClaim
  BY ConstantsAssumption
  DEF Init, NoAudit, DispatchedAtMostOnce, ClaimsAreExclusive, DispatchFollowsClaim
<1>5. ConfirmedHasLanded /\ FilledOnceAndOnlyIfLanded /\ NoFalseSuccess
  BY
  DEF Init, NoAudit, Idle, ConfirmedHasLanded, FilledOnceAndOnlyIfLanded,
      NoFalseSuccess
<1>6. ClaimsAreAnswered
  BY ConstantsAssumption
  DEF Init, NoAudit, Idle, ClaimsAreAnswered, FailedHasFailed, Failed, ClaimedStaysInFlight,
      FailureIsTrue, SellIsOnItsWay
<1> QED
  BY <1>1, <1>2, <1>3, <1>4, <1>5, <1>6 DEF IndInv, ClaimsAreAnswered

\* The inductive invariant is preserved by every step.
LEMMA IndInvNext == IndInv /\ [Next]_vars => IndInv'
<1> SUFFICES ASSUME IndInv, [Next]_vars PROVE IndInv'
  OBVIOUS
<1>1. TypeOK' /\ HandlerFits' /\ LocalReceiptIsTerminal'
  BY TypeNext, HandlerFitsNext, LocalReceiptNext DEF IndInv
<1>2. HandlerOwnsItsClaim' /\ DispatchFollowsClaim' /\ DispatchedAtMostOnce'
  BY OwnershipNext, DispatchNext DEF IndInv
<1>3. UnusedKeyClaimsNothing' /\ ClaimsAreExclusive'
  BY ClaimNext DEF IndInv
<1>4. ExecutesReviewedQuote' /\ CurrentReviewIsExact'
  BY ReviewNext DEF IndInv
<1>5. ConfirmedHasLanded' /\ FilledOnceAndOnlyIfLanded' /\ NoFalseSuccess'
  BY LedgerNext DEF IndInv
<1>6. ClaimsAreAnswered'
  BY <1>1, AnswersNext DEF IndInv, ClaimsAreAnswered
<1> QED
  BY <1>1, <1>2, <1>3, <1>4, <1>5, <1>6 DEF IndInv, ClaimsAreAnswered

\* The inductive invariant holds in every reachable state of the control plane.
THEOREM Invariance == Spec => []IndInv
  BY InitIndInv, IndInvNext, PTL DEF Spec

\* Every row, receipt and handler keeps its type
\* (models.py and the tables of storage.py).
THEOREM TypeCorrect == Spec => []TypeOK
<1>1. IndInv => TypeOK
  BY DEF IndInv
<1> QED
  BY <1>1, Invariance, PTL

\* However many phones, audits, retries and restarts there are, the signer is
\* called at most once for a claimed execution
\* (begin_mobile_execution_dispatch, live_submit).
THEOREM AtMostOneDispatch == Spec => []DispatchedAtMostOnce
<1>1. IndInv => DispatchedAtMostOnce
  BY DEF IndInv
<1> QED
  BY <1>1, Invariance, PTL

\* An execution has one owner, and its owner one execution
\* (reserve_mobile_execution_action).
THEOREM ExclusiveClaims == Spec => []ClaimsAreExclusive
<1>1. IndInv => ClaimsAreExclusive
  BY DEF IndInv
<1> QED
  BY <1>1, Invariance, PTL

\* What is executed is the quote that was reviewed
\* (the version check of reserve_mobile_execution_action).
THEOREM ReviewedQuoteExecuted == Spec => []ExecutesReviewedQuote
<1>1. IndInv => ExecutesReviewedQuote
  BY DEF IndInv
<1> QED
  BY <1>1, Invariance, PTL

\* The ledger never books a transaction twice, nor one that did not land, unless a
\* caller of live_confirm reported that it had (_record_live_fill).
THEOREM LedgerIsSound == Spec => []FilledOnceAndOnlyIfLanded
<1>1. IndInv => FilledOnceAndOnlyIfLanded
  BY DEF IndInv
<1> QED
  BY <1>1, Invariance, PTL

\* A phone is never told of a success that did not happen, unless a caller of
\* live_confirm reported one (_receipt_status_from_audit, recover_live_audit).
THEOREM SuccessIsTrue == Spec => []NoFalseSuccess
<1>1. IndInv => NoFalseSuccess
  BY DEF IndInv
<1> QED
  BY <1>1, Invariance, PTL

\* A phone that is told of a failure is told the truth, whatever RPC, signer and
\* restarts do, unless its audit was simulated again after the claim
\* (recover_live_audit, _approve_prepared_intent after live_submit raised).
THEOREM FailureToldIsTrue == Spec => []FailureIsTrue
<1>1. IndInv => FailureIsTrue
  BY DEF IndInv
<1> QED
  BY <1>1, Invariance, PTL

\* A dispatched sell has reached the signer once its handler is done, as long as
\* its quote is fresh and the backend was not restarted; a buy need not
\* (guarded_live_submit repeats the entry gate with the claimed audit in flight).
THEOREM SellsReachSigner == Spec => []SellReachesSigner
<1>1. IndInv => SellReachesSigner
  BY DEF IndInv, SellIsOnItsWay, SellReachesSigner, Unsubmitted, Idle
<1> QED
  BY <1>1, Invariance, PTL

\* The control plane implements GuardedDispatch: claims and signer calls of the
\* detailed model are those of the abstract one.
THEOREM Refinement == Spec => ImplementsGuardedDispatch
<1>1. Init => Dispatch!Init
  BY DEF Init, Dispatch!Init, NoAudit
<1> QED
  BY <1>1, RefinementNext, Invariance, PTL
  DEF Spec, ImplementsGuardedDispatch, Dispatch!Spec

-----------------------------------------------------------------------------
(* Two action properties: what was told for good, and the entry gate.      *)

\* A handler that will answer a phone answers a receipt that is open: nothing else
\* closes it while the handler is at work (action, reserve_mobile_execution_action).
AnswersOpenReceipt == job.key \in Keys => receipts[job.key].status \in OpenReceipt

\* A receipt is written by the handler that answers it, or by the first use of its
\* key (save_mobile_action_receipt, _approve_prepared_intent).
LEMMA ReceiptMoves ==
  ASSUME TypeOK, HandlerFits, AnswersOpenReceipt, [Next]_vars
  PROVE  /\ AnswersOpenReceipt'
         /\ \A k \in Keys : receipts[k].status \in {"confirmed", "failed", "cancelled"}
                               => receipts'[k] = receipts[k]
<1> DEFINE Final == \A k \in Keys : receipts[k].status \in {"confirmed", "failed", "cancelled"}
                                       => receipts'[k] = receipts[k]
<1>a. receipts \in [Keys -> ReceiptRow] /\ job \in Job /\ None \notin Keys
  BY ConstantsAssumption DEF TypeOK
<1>b. Idle.key = None /\ \A s : [Idle EXCEPT !.step = s].key = None
  BY DEF Idle
<1>1. ASSUME receipts' = receipts, job'.key \in {job.key, None}
      PROVE  AnswersOpenReceipt' /\ Final
  BY <1>1, <1>a DEF AnswersOpenReceipt
<1>6. CASE \/ execute_backend_audit \/ save_submitted_audit \/ save_submitted_intent
           \/ recover_live_audit \/ save_escalation \/ confirmed_intent
           \/ record_live_fill \/ reconcile_live_position \/ reconcile_live_audit
           \/ settle_recovered_intent \/ settle_live_audit
           \/ begin_mobile_execution_dispatch \/ guarded_live_submit
  <2>1. receipts' = receipts
    BY <1>6 DEF execute_backend_audit, save_submitted_audit, save_submitted_intent,
       recover_live_audit, save_escalation, confirmed_intent, record_live_fill,
       reconcile_live_position, reconcile_live_audit, settle_recovered_intent,
       settle_live_audit, begin_mobile_execution_dispatch, guarded_live_submit
  <2>2. job'.key \in {job.key, None}
    <3>1. CASE execute_backend_audit
      BY <3>1, <1>a DEF execute_backend_audit, Goto, Done, Idle, Job
    <3>2. CASE save_submitted_audit
      BY <3>2, <1>a DEF save_submitted_audit, Goto, Done, Idle, Job
    <3>3. CASE save_submitted_intent
      BY <3>3, <1>a DEF save_submitted_intent, Goto, Done, Idle, Job
    <3>4. CASE recover_live_audit
      <4>1. \/ job' = Done
            \/ \E v : job' = [job EXCEPT !.step = "escalate", !.verdict = v]
            \/ job' = [job EXCEPT !.step = "fill"]
        BY <3>4 DEF recover_live_audit, Escalate, Goto
      <4>2. CASE job' = Done
        BY <4>2, <1>a DEF Done, Idle, Job
      <4>3. CASE \E v : job' = [job EXCEPT !.step = "escalate", !.verdict = v]
        <5>1. PICK v : job' = [job EXCEPT !.step = "escalate", !.verdict = v]
          BY <4>3
        <5> QED
          BY <5>1, <1>a DEF Job
      <4>4. CASE job' = [job EXCEPT !.step = "fill"]
        BY <4>4, <1>a DEF Job
      <4> QED
        BY <4>1, <4>2, <4>3, <4>4
    <3>5. CASE save_escalation
      BY <3>5, <1>a DEF save_escalation, Goto, Done, Idle, Job
    <3>6. CASE confirmed_intent
      BY <3>6, <1>a DEF confirmed_intent, Goto, Done, Idle, Job
    <3>7. CASE record_live_fill
      BY <3>7, <1>a DEF record_live_fill, Goto, Done, Idle, Job
    <3>8. CASE reconcile_live_position
      BY <3>8, <1>a DEF reconcile_live_position, Goto, Done, Idle, Job
    <3>9. CASE reconcile_live_audit
      BY <3>9, <1>a DEF reconcile_live_audit, Goto, Done, Idle, Job
    <3>10. CASE settle_recovered_intent
      BY <3>10, <1>a DEF settle_recovered_intent, Goto, Done, Idle, Job
    <3>11. CASE settle_live_audit
      BY <3>11, <1>a DEF settle_live_audit, Goto, Done, Idle, Job
    <3>12. CASE begin_mobile_execution_dispatch
      BY <3>12, <1>a DEF begin_mobile_execution_dispatch, Goto, Done, Idle, Job
    <3>13. CASE guarded_live_submit
      BY <3>13, <1>a DEF guarded_live_submit, Goto, Done, Idle, Job
    <3> QED
      BY <1>6, <3>1, <3>2, <3>3, <3>4, <3>5, <3>6, <3>7, <3>8, <3>9, <3>10, <3>11, <3>12, <3>13
  <2> QED
    BY <2>1, <2>2, <1>1
<1>7. CASE bind_quoted_intent \/ simulated_intent \/ set_live_kill_switch \/ Crash
  <2>1. receipts' = receipts /\ job'.key \in {job.key, None}
    BY <1>7, <1>b DEF bind_quoted_intent, simulated_intent, set_live_kill_switch, Crash
  <2> QED
    BY <2>1, <1>1
<1>8. ASSUME NEW i \in Intents, \/ create_live_intent(i) \/ generate_live_intents(i)
                                \/ cancel_live_intent(i) \/ reconcile_live_intent(i)
                                \/ mark_stale_live_intents(i)
                                \/ \E a \in Audits : quote_live_intent(i, a)
                                \/ \E k \in Keys : ReviewTrade(k, i)
      PROVE  AnswersOpenReceipt' /\ Final
  <2>1. receipts' = receipts
    BY <1>8 DEF create_live_intent, generate_live_intents, cancel_live_intent,
       reconcile_live_intent, mark_stale_live_intents, quote_live_intent, ReviewTrade
  <2>2. CASE job' = job
    BY <2>1, <2>2, <1>1
  <2>3. CASE job' # job
    <3>1. job'.key = None
      BY <1>8, <2>3 DEF create_live_intent, generate_live_intents, cancel_live_intent,
         reconcile_live_intent, mark_stale_live_intents, quote_live_intent, ReviewTrade, Idle
    <3> QED
      BY <3>1, <2>1, <1>1
  <2> QED
    BY <2>2, <2>3
<1>9. ASSUME NEW a \in Audits, \/ live_simulate(a) \/ live_submit(a) \/ live_submit_signature(a)
                               \/ live_confirm(a) \/ normalize_live_audits(a)
                               \/ poll_live_audits(a) \/ recover_unresolved_live_audits(a)
                               \/ QuoteExpires(a) \/ WalletSends(a) \/ ChainDecides(a)
      PROVE  AnswersOpenReceipt' /\ Final
  <2>1. receipts' = receipts
    BY <1>9 DEF live_simulate, live_submit, live_submit_signature, live_confirm,
       normalize_live_audits, poll_live_audits, recover_unresolved_live_audits,
       QuoteExpires, WalletSends, ChainDecides
  <2>2. job' = job \/ job'.key = None
    BY <1>9 DEF live_simulate, live_submit, live_submit_signature, live_confirm,
       normalize_live_audits, poll_live_audits, recover_unresolved_live_audits,
       QuoteExpires, WalletSends, ChainDecides, StartRecovery, Idle
  <2> QED
    BY <2>1, <2>2, <1>1
<1>10. CASE save_raised_receipt \/ save_mobile_action_receipt
  <2>1. PICK s : receipts' = [receipts EXCEPT ![job.key].status = s]
    BY <1>10 DEF save_raised_receipt, save_mobile_action_receipt
  <2>2. job' = Idle
    BY <1>10 DEF save_raised_receipt, save_mobile_action_receipt
  <2>3. \A k \in Keys \ {job.key} : receipts'[k] = receipts[k]
    BY <2>1, <1>a
  <2> QED
    BY <2>2, <2>3, <1>a, <1>b DEF AnswersOpenReceipt, OpenReceipt
<1>11. ASSUME NEW k \in Keys, approve_prepared_intent(k)
       PROVE  AnswersOpenReceipt' /\ Final
  <2>1. /\ receipts[k].status = "none" /\ job'.key = k
        /\ \E a : receipts' = [receipts EXCEPT ![k] = [status |-> "pending", audit |-> a]]
    BY <1>11 DEF approve_prepared_intent, reserve_mobile_execution_action, Idle
  <2>2. receipts'[k].status = "pending" /\ \A l \in Keys \ {k} : receipts'[l] = receipts[l]
    BY <2>1, <1>a
  <2> QED
    BY <2>1, <2>2 DEF AnswersOpenReceipt, OpenReceipt
<1>12. ASSUME NEW k \in Keys, action(k)
       PROVE  AnswersOpenReceipt' /\ Final
  <2>1. /\ receipts' = receipts /\ job'.key = k /\ receipts[k].status \in OpenReceipt
    BY <1>12 DEF action, StartRecovery, Idle
  <2> QED
    BY <2>1 DEF AnswersOpenReceipt
<1>13. ASSUME NEW k \in Keys, reject_trade(k) \/ adjust_position_exit(k)
       PROVE  AnswersOpenReceipt' /\ Final
  <2>1. /\ receipts[k].status = "none" /\ job' = job /\ At("idle")
        /\ \E r : receipts' = [receipts EXCEPT ![k] = r]
    BY <1>13 DEF reject_trade, apply_mobile_trade_rejection, adjust_position_exit,
       apply_mobile_position_exit_adjustment
  <2>2. \A l \in Keys \ {k} : receipts'[l] = receipts[l]
    BY <2>1, <1>a
  <2>3. job'.key = None
    BY <2>1, <1>b DEF HandlerFits, At
  <2> QED
    BY <2>1, <2>2, <2>3, <1>a DEF AnswersOpenReceipt
<1>14. CASE UNCHANGED vars
  BY <1>14, <1>1 DEF vars
<1> QED
  BY <1>6, <1>7, <1>8, <1>9, <1>10, <1>11, <1>12, <1>13, <1>14
  DEF Next, HandlerStep, OperatorStep, PhoneStep, Environment, approve_trade,
      close_position

\* When the signer is about to be called for a buy, the gate that was asked is
\* still open: the switch and the other audits are changed by handlers that run to
\* their end, and none runs between the question and the call (live_submit).
GateIsOpenWhileSigning ==
    At("signing") /\ audits[job.audit].intent \in Buys =>
        ~killSwitch /\ \A b \in Audits \ {job.audit} : ~Unresolved(b)

\* A handler reaches the signer from live_submit or from the checks of a guarded
\* action, and while it is there only quotes run out and transactions are decided.
LEMMA SigningBegins ==
  ASSUME TypeOK, [Next]_vars, job'.step = "signing"
  PROVE  \/ \E a \in Audits : live_submit(a)
         \/ guarded_live_submit
         \/ /\ job' = job /\ killSwitch' = killSwitch
            /\ \/ audits' = audits
               \/ \E a \in Audits : QuoteExpires(a)
<1>a. job \in Job
  BY DEF TypeOK
<1>1. CASE \/ execute_backend_audit \/ save_submitted_audit \/ save_submitted_intent
           \/ save_escalation \/ confirmed_intent \/ bind_quoted_intent \/ simulated_intent
  <2>1. CASE execute_backend_audit
    BY <2>1, <1>a DEF execute_backend_audit, Goto, Done, Idle, Job
  <2>2. CASE save_submitted_audit
    BY <2>2, <1>a DEF save_submitted_audit, Goto, Done, Idle, Job
  <2>3. CASE save_submitted_intent
    BY <2>3, <1>a DEF save_submitted_intent, Goto, Done, Idle, Job
  <2>4. CASE save_escalation
    BY <2>4, <1>a DEF save_escalation, Goto, Done, Idle, Job
  <2>5. CASE confirmed_intent
    BY <2>5, <1>a DEF confirmed_intent, Goto, Done, Idle, Job
  <2>6. CASE bind_quoted_intent
    BY <2>6, <1>a DEF bind_quoted_intent, Goto, Done, Idle, Job
  <2>7. CASE simulated_intent
    BY <2>7, <1>a DEF simulated_intent, Goto, Done, Idle, Job
  <2> QED
    BY <1>1, <2>1, <2>2, <2>3, <2>4, <2>5, <2>6, <2>7
<1>2. CASE recover_live_audit
  <2>1. \/ job' = Done
        \/ \E v : job' = [job EXCEPT !.step = "escalate", !.verdict = v]
        \/ job' = [job EXCEPT !.step = "fill"]
    BY <1>2 DEF recover_live_audit, Escalate, Goto
  <2>2. job' # Done
    BY <1>a DEF Done, Idle, Job
  <2>3. \A v : [job EXCEPT !.step = "escalate", !.verdict = v].step = "escalate"
    BY <1>a DEF Job
  <2>4. [job EXCEPT !.step = "fill"].step = "fill"
    BY <1>a DEF Job
  <2> QED
    BY <2>1, <2>2, <2>3, <2>4
<1>3. CASE \/ record_live_fill \/ reconcile_live_position \/ settle_recovered_intent
           \/ settle_live_audit \/ begin_mobile_execution_dispatch
  <2>1. CASE record_live_fill
    BY <2>1, <1>a DEF record_live_fill, Goto, Done, Idle, Job
  <2>2. CASE reconcile_live_position
    BY <2>2, <1>a DEF reconcile_live_position, Goto, Done, Idle, Job
  <2>3. CASE settle_recovered_intent
    BY <2>3, <1>a DEF settle_recovered_intent, Goto, Done, Idle, Job
  <2>4. CASE settle_live_audit
    BY <2>4, <1>a DEF settle_live_audit, Goto, Done, Idle, Job
  <2>5. CASE begin_mobile_execution_dispatch
    BY <2>5, <1>a DEF begin_mobile_execution_dispatch, Goto, Done, Idle, Job
  <2> QED
    BY <1>3, <2>1, <2>2, <2>3, <2>4, <2>5
<1>4. CASE reconcile_live_audit
  BY <1>4, <1>a DEF reconcile_live_audit, Goto, Idle, Job
<1>5. CASE save_raised_receipt \/ save_mobile_action_receipt \/ Crash
  BY <1>5 DEF save_raised_receipt, save_mobile_action_receipt, Crash, Idle
<1>6. CASE set_live_kill_switch
  BY <1>6 DEF set_live_kill_switch, At
<1>7. ASSUME NEW i \in Intents, \/ create_live_intent(i) \/ generate_live_intents(i)
                                \/ cancel_live_intent(i) \/ reconcile_live_intent(i)
                                \/ mark_stale_live_intents(i)
                                \/ \E a \in Audits : quote_live_intent(i, a)
      PROVE  FALSE
  BY <1>7 DEF create_live_intent, generate_live_intents, cancel_live_intent,
     reconcile_live_intent, mark_stale_live_intents, quote_live_intent, At, Idle
<1>8. ASSUME NEW a \in Audits, \/ live_simulate(a) \/ live_submit_signature(a)
                               \/ live_confirm(a) \/ normalize_live_audits(a)
                               \/ poll_live_audits(a) \/ recover_unresolved_live_audits(a)
      PROVE  FALSE
  <2>1. CASE live_simulate(a)
    BY <2>1, <1>8 DEF live_simulate, StartRecovery, At, Idle
  <2>2. CASE live_submit_signature(a)
    BY <2>2, <1>8 DEF live_submit_signature, StartRecovery, At, Idle
  <2>3. CASE live_confirm(a)
    BY <2>3, <1>8 DEF live_confirm, StartRecovery, At, Idle
  <2>4. CASE normalize_live_audits(a)
    BY <2>4, <1>8 DEF normalize_live_audits, StartRecovery, At, Idle
  <2>5. CASE poll_live_audits(a)
    BY <2>5, <1>8 DEF poll_live_audits, StartRecovery, At, Idle
  <2>6. CASE recover_unresolved_live_audits(a)
    BY <2>6, <1>8 DEF recover_unresolved_live_audits, StartRecovery, At, Idle
  <2> QED
    BY <1>8, <2>1, <2>2, <2>3, <2>4, <2>5, <2>6
<1>9. ASSUME NEW a \in Audits, QuoteExpires(a) \/ WalletSends(a) \/ ChainDecides(a)
      PROVE  /\ job' = job /\ killSwitch' = killSwitch
             /\ audits' = audits \/ QuoteExpires(a)
  BY <1>9 DEF QuoteExpires, WalletSends, ChainDecides
<1>10. ASSUME NEW k \in Keys, \/ approve_prepared_intent(k) \/ action(k) \/ reject_trade(k)
                              \/ adjust_position_exit(k) \/ \E i \in Intents : ReviewTrade(k, i)
       PROVE  FALSE
  BY <1>10 DEF approve_prepared_intent, action, reject_trade, adjust_position_exit, ReviewTrade,
     StartRecovery, At, Idle
<1>11. CASE UNCHANGED vars
  BY <1>11 DEF vars
<1> QED
  BY <1>1, <1>2, <1>3, <1>4, <1>5, <1>6, <1>7, <1>8, <1>9, <1>10, <1>11
  DEF Next, HandlerStep, OperatorStep, PhoneStep, Environment, approve_trade,
      close_position

\* The gate that was open when the handler asked is open when it signs.
LEMMA GateStep ==
  ASSUME TypeOK, TypeOK', HandlerOwnsItsClaim, ClaimedStaysInFlight,
         GateIsOpenWhileSigning, [Next]_vars
  PROVE  GateIsOpenWhileSigning'
<1>a. audits \in [Audits -> AuditRow] /\ job \in Job
  BY DEF TypeOK
<1> SUFFICES ASSUME job'.step = "signing", audits'[job'.audit].intent \in Buys
             PROVE  ~killSwitch' /\ \A b \in Audits \ {job'.audit} : ~Unresolved(b)'
  BY DEF GateIsOpenWhileSigning, At
<1>1. ASSUME NEW a \in Audits, live_submit(a)
      PROVE  ~killSwitch' /\ \A b \in Audits \ {job'.audit} : ~Unresolved(b)'
  <2>1. /\ SubmitAllowed(a) /\ killSwitch' = killSwitch /\ job'.audit = a
        /\ audits' = [audits EXCEPT ![a] = [audits[a] EXCEPT !.status = "submitting"]]
    BY <1>1 DEF live_submit, Idle
  <2>2. [audits[a] EXCEPT !.status = "submitting"].intent = audits[a].intent
    BY <1>a DEF AuditRow
  <2>3. audits[a].intent \in Buys /\ \A b \in Audits \ {a} : audits'[b] = audits[b]
    BY <2>1, <2>2, <1>a
  <2>4. EntryAllowed
    BY <2>1, <2>3 DEF SubmitAllowed
  <2> QED
    BY <2>1, <2>3, <2>4 DEF EntryAllowed, RecoveryDebt, Unresolved
<1>2. CASE guarded_live_submit
  <2>1. /\ At("checks") /\ audits' = audits /\ killSwitch' = killSwitch
        /\ job' = [job EXCEPT !.step = IF SubmitAllowed(job.audit) THEN "signing" ELSE "raised"]
    BY <1>2 DEF guarded_live_submit, Goto
  <2>2. job'.audit = job.audit /\ SubmitAllowed(job.audit)
    BY <2>1, <1>a DEF Job
  <2>3. EntryAllowed
    BY <2>1, <2>2 DEF SubmitAllowed
  <2>4. job.audit \in Audits /\ audits[job.audit].status = "submitting"
    BY <2>1 DEF At, HandlerOwnsItsClaim, ClaimedStaysInFlight
  <2> QED
    BY <2>3, <2>4 DEF EntryAllowed, RecoveryDebt, Unresolved
<1>3. CASE /\ job' = job /\ killSwitch' = killSwitch
           /\ audits' = audits \/ \E a \in Audits : QuoteExpires(a)
  <2>1. CASE audits' = audits
    BY <2>1, <1>3 DEF GateIsOpenWhileSigning, At, Unresolved
  <2>2. ASSUME NEW a \in Audits, QuoteExpires(a)
        PROVE  ~killSwitch' /\ \A b \in Audits \ {job'.audit} : ~Unresolved(b)'
    <3>1. audits' = [audits EXCEPT ![a] = [audits[a] EXCEPT !.fresh = FALSE]]
      BY <2>2 DEF QuoteExpires
    <3>2. \A b \in Audits : /\ audits'[b].intent = audits[b].intent
                            /\ audits'[b].status = audits[b].status
                            /\ audits'[b].sig = audits[b].sig
                            /\ audits'[b].recon = audits[b].recon
      BY <3>1, <1>a DEF AuditRow
    <3>3. audits[job.audit].intent \in Buys
      BY <3>1, <3>2, <1>3, <1>a
    <3> QED
      BY <3>2, <3>3, <1>3 DEF GateIsOpenWhileSigning, At, Unresolved
  <2> QED
    BY <2>1, <2>2, <1>3
<1> QED
  BY <1>1, <1>2, <1>3, SigningBegins

\* A transaction is sent by the signer for the handler that signs, or by the
\* browser wallet for an intent of its own.
LEMMA SentBySigner ==
  ASSUME TypeOK, [Next]_vars, NEW a \in Audits, audits[a].intent \notin BrowserIntents,
         chain[a] = "none", chain'[a] = "sent"
  PROVE  At("signing") /\ job.audit = a
<1>a. chain \in [Audits -> ChainState]
  BY DEF TypeOK
<1>1. chain' # chain
  OBVIOUS
<1>2. CASE execute_backend_audit
  <2>1. /\ At("signing")
        /\ chain' \in {chain, [chain EXCEPT ![job.audit] =
                                  IF chain[job.audit] = "none" THEN "sent" ELSE chain[job.audit]]}
    BY <1>2 DEF execute_backend_audit
  <2> QED
    BY <2>1, <1>1, <1>a
<1>3. CASE ~execute_backend_audit
  <2>1. ASSUME NEW b \in Audits, WalletSends(b)
        PROVE  FALSE
    BY <2>1, <1>1, <1>a DEF WalletSends
  <2>2. ASSUME NEW b \in Audits, ChainDecides(b)
        PROVE  FALSE
    BY <2>2, <1>1, <1>a DEF ChainDecides
  <2>3. ASSUME ~\E b \in Audits : WalletSends(b) \/ ChainDecides(b)
        PROVE  chain' = chain
    <3>1. CASE HandlerStep
      BY <3>1, <1>3 DEF HandlerStep, bind_quoted_intent, simulated_intent, save_submitted_audit,
         save_submitted_intent, recover_live_audit, save_escalation, confirmed_intent,
         record_live_fill, reconcile_live_position, reconcile_live_audit,
         settle_recovered_intent, settle_live_audit, begin_mobile_execution_dispatch,
         guarded_live_submit, save_raised_receipt, save_mobile_action_receipt
    <3>2. CASE OperatorStep
      BY <3>2 DEF OperatorStep, set_live_kill_switch, create_live_intent, generate_live_intents,
         cancel_live_intent, reconcile_live_intent, mark_stale_live_intents, quote_live_intent,
         live_simulate, live_submit, live_submit_signature, live_confirm, normalize_live_audits,
         poll_live_audits, recover_unresolved_live_audits
    <3>3. CASE PhoneStep
      BY <3>3 DEF PhoneStep, ReviewTrade, approve_trade, close_position,
         approve_prepared_intent, action, reject_trade, adjust_position_exit
    <3>4. CASE Environment
      BY <3>4, <2>3 DEF Environment, Crash, QuoteExpires
    <3>5. CASE UNCHANGED vars
      BY <3>5 DEF vars
    <3> QED
      BY <3>1, <3>2, <3>3, <3>4, <3>5 DEF Next
  <2> QED
    BY <1>1, <2>1, <2>2, <2>3
<1> QED
  BY <1>2, <1>3

\* What a receipt told the operator for good is never taken back, whatever is
\* polled, retried, simulated again or restarted (save_mobile_action_receipt).
THEOREM ToldForGood == Spec => TerminalReceiptIsFinal
<1>1. Init => AnswersOpenReceipt
  BY ConstantsAssumption DEF Init, Idle, AnswersOpenReceipt
<1>2. IndInv /\ AnswersOpenReceipt /\ [Next]_vars => AnswersOpenReceipt'
  BY ReceiptMoves DEF IndInv
<1>3. IndInv /\ AnswersOpenReceipt /\ [Next]_vars =>
        [\A k \in Keys : receipts[k].status \in {"confirmed", "failed", "cancelled"}
                            => receipts'[k] = receipts[k]]_vars
  BY ReceiptMoves DEF IndInv
<1> QED
  BY <1>1, <1>2, <1>3, Invariance, PTL DEF Spec, TerminalReceiptIsFinal

\* The backend signer sends no buy while the kill switch is on or another live
\* audit is unresolved, whatever changed since the quote
\* (_live_execution_blockers, asked again by live_submit).
THEOREM EntryGateHoldsAlways == Spec => EntryGateHolds
<1>1. Init => GateIsOpenWhileSigning
  BY DEF Init, Idle, At, GateIsOpenWhileSigning
<1>2. IndInv /\ IndInv' /\ GateIsOpenWhileSigning /\ [Next]_vars => GateIsOpenWhileSigning'
  BY GateStep DEF IndInv
<1>3. IndInv /\ GateIsOpenWhileSigning /\ [Next]_vars =>
        [\A a \in Audits :
          /\ audits[a].intent \in Buys \ BrowserIntents
          /\ chain[a] = "none" /\ chain'[a] = "sent"
          => ~killSwitch /\ \A b \in Audits \ {a} : ~Unresolved(b)]_vars
  BY SentBySigner DEF IndInv, GateIsOpenWhileSigning
<1> QED
  BY <1>1, <1>2, <1>3, Invariance, PTL DEF Spec, EntryGateHolds
=============================================================================
