---------------------------- MODULE LiveExecution ----------------------------
(***************************************************************************)
(* The live execution control plane: intents, execution audits, guarded    *)
(* mobile action receipts, the signer, the chain and the live ledger       *)
(* (backend/app/core/state.py, core/storage.py, mobile/service.py).        *)
(*                                                                         *)
(* Every HTTP handler and the audit poller run to completion on one event  *)
(* loop, so handlers never interleave; but a handler commits to SQLite     *)
(* several times, and the process may stop between two commits.  The       *)
(* variable job is the handler in flight: one action per commit, and       *)
(* Crash forgets the job.  Everything else survives a restart.             *)
(*                                                                         *)
(* Optimistic versions.  intent.version and position.version only ever     *)
(* grow and are only compared for equality with a version somebody read    *)
(* before, so a reader's copy is kept as one bit, "still current", which   *)
(* every version + 1 of the code clears.                                   *)
(***************************************************************************)
EXTENDS Naturals

CONSTANTS
    Buys, Sells,        \* intents, by what they would do
    BrowserIntents,     \* intents signed by the browser wallet, not the backend
    Audits,             \* identities that quotes may allocate
    Keys,               \* idempotency keys of the paired phones
    None,
    MaxAttempts,        \* live_recovery_max_attempts (3 in the code)
    MaxSimulations,     \* bound: simulations recorded per audit
    MaxCrashes          \* bound: restarts per behaviour

Intents == Buys \cup Sells

ASSUME ConstantsAssumption ==
    /\ None \notin Audits \cup Keys \cup Intents
    /\ BrowserIntents \subseteq Intents
    /\ MaxAttempts \in Nat \ {0}
    /\ MaxSimulations \in Nat
    /\ MaxCrashes \in Nat

VARIABLES
    intents,      \* live_intents rows
    audits,       \* live_execution_audits rows
    receipts,     \* mobile_action_receipts rows, by idempotency key
    position,     \* the live_ledger_positions row of the traded mint
    fills,        \* how many fills of each audit the position holds
    killSwitch,   \* settings.kill_switch_enabled
    phone,        \* what the operator reviewed before using each key
    chain,        \* external: what became of each audit's transaction
    wallet,       \* external: the wallet holds the traded token
    job,          \* the handler in flight
    dispatches,   \* history: signer calls made on behalf of guarded actions
    crashes

vars == <<intents, audits, receipts, position, fills, killSwitch, phone,
          chain, wallet, job, dispatches, crashes>>

-----------------------------------------------------------------------------
(* Rows *)

IntentStatus == {"none", "open", "quoted", "blocked", "simulated",
                 "simulation_warning", "submitting", "submitted", "executed",
                 "needs_review", "cancelled", "expired"}
AuditStatus == {"none", "ready", "blocked", "simulated", "simulation_warning",
                "submitting", "submitted", "confirmed", "reconciled",
                "needs_review", "failed", "stale"}
ReceiptStatus == {"none", "pending", "verifying", "confirmed",
                  "review_required", "failed", "cancelled"}
Reconciliation == {"pending", "matched", "needs_review"}
Preparing == {"open", "quoted", "simulation_warning", "simulated"}

\* recovery_attempts is only compared with the limit: it saturates just above.
AttemptCap == MaxAttempts + 1
Attempted(n) == IF n < AttemptCap THEN n + 1 ELSE n

\* bound: the position the intent was generated from is still at its version.
IntentRow == [status: IntentStatus, audit: Audits \cup {None}, bound: BOOLEAN]
\* sig: a transaction signature is recorded.  tx: the quote carries an unsigned
\* transaction.  fresh: its 30 seconds are not over.  owner: guarded_action_id.
\* History: again, it was simulated after its claim; misled, a caller of
\* live_confirm reported what the chain had not decided.
AuditRow == [status: AuditStatus, intent: Intents \cup {None},
             owner: Keys \cup {None}, dispatched: BOOLEAN, sig: BOOLEAN,
             attempts: 0..AttemptCap, recon: Reconciliation, fresh: BOOLEAN,
             tx: BOOLEAN, sims: 0..MaxSimulations, again: BOOLEAN, misled: BOOLEAN]
\* audit: the execution the action claimed, None for a rejection or adjustment.
ReceiptRow == [status: ReceiptStatus, audit: Audits \cup {None}]
PositionRow == [open: BOOLEAN, held: BOOLEAN, recon: Reconciliation]
ReviewRow == [intent: Intents \cup {None}, audit: Audits \cup {None},
              current: BOOLEAN]
ChainState == {"none", "sent", "landed", "failed", "dropped"}
Step == {"idle", "bind", "simulated", "claimed", "checks", "signing", "sent",
         "intent_submitted", "recover", "escalate", "confirm_intent", "fill",
         "reconcile", "recon_audit", "settle", "final", "receipt", "raised"}
Op == {"none", "submit", "recover", "confirm", "reconcile"}
Job == [step: Step, op: Op, audit: Audits \cup {None}, key: Keys \cup {None},
        verdict: {"none", "needs_review", "failed", "matched"}]

Idle == [step |-> "idle", op |-> "none", audit |-> None, key |-> None,
         verdict |-> "none"]
NoAudit == [status |-> "none", intent |-> None, owner |-> None,
            dispatched |-> FALSE, sig |-> FALSE, attempts |-> 0,
            recon |-> "pending", fresh |-> FALSE, tx |-> FALSE, sims |-> 0,
            again |-> FALSE, misled |-> FALSE]

TypeOK ==
    /\ intents \in [Intents -> IntentRow]
    /\ audits \in [Audits -> AuditRow]
    /\ receipts \in [Keys -> ReceiptRow]
    /\ position \in PositionRow
    /\ fills \in [Audits -> Nat]
    /\ killSwitch \in BOOLEAN
    /\ phone \in [Keys -> ReviewRow]
    /\ chain \in [Audits -> ChainState]
    /\ wallet \in BOOLEAN
    /\ job \in Job
    /\ dispatches \in [Audits -> Nat]
    /\ crashes \in 0..MaxCrashes

Init ==
    /\ intents = [i \in Intents |->
                    [status |-> "none", audit |-> None, bound |-> FALSE]]
    /\ audits = [a \in Audits |-> NoAudit]
    /\ receipts = [k \in Keys |->
                    [status |-> "none", audit |-> None]]
    /\ wallet \in BOOLEAN
    /\ position = [open |-> wallet, held |-> wallet, recon |-> "matched"]
    /\ fills = [a \in Audits |-> 0]
    /\ killSwitch = FALSE
    /\ phone = [k \in Keys |->
                    [intent |-> None, audit |-> None, current |-> FALSE]]
    /\ chain = [a \in Audits |-> "none"]
    /\ job = Idle
    /\ dispatches = [a \in Audits |-> 0]
    /\ crashes = 0

-----------------------------------------------------------------------------
(* Reading the rows *)

\* _is_unresolved_live_audit; shadow-only audits are not modelled here.
Unresolved(a) ==
    \/ audits[a].status \in {"submitting", "submitted", "needs_review", "failed"}
    \/ audits[a].status = "stale" /\ audits[a].sig
    \/ /\ audits[a].sig
       /\ audits[a].status # "reconciled"
       /\ audits[a].recon # "matched"

RecoveryDebt == \E a \in Audits : Unresolved(a)

\* The part of _live_execution_blockers for a buy that depends on modelled state.
EntryAllowed == ~killSwitch /\ ~RecoveryDebt

\* Mutants: the entry gate is asked for a sell too, or not at all.
SubmitGatedForAll(a) == audits[a].tx /\ audits[a].fresh /\ EntryAllowed
SubmitUngated(a) == audits[a].tx /\ audits[a].fresh

\* The checks live_submit makes after it has the audit in hand.
SubmitAllowed(a) ==
    /\ audits[a].tx
    /\ audits[a].fresh
    /\ audits[a].intent \in Buys => EntryAllowed

\* Mutant: the limit also stops an audit that RPC does see.
AttemptsUsedUp(a) == audits[a].attempts >= MaxAttempts

\* _recovery_retry_limit_reached
RetryLimitReached(a) ==
    audits[a].status = "needs_review" /\ audits[a].attempts >= MaxAttempts

\* Mutant: the quote is replaced without a new version.
NotBumped(i) == phone

\* version + 1 on intent i: no earlier review of it is current any more.
Bumped(i) ==
    [k \in Keys |-> IF phone[k].intent = i
                    THEN [phone[k] EXCEPT !.current = FALSE] ELSE phone[k]]

\* version + 1 on the position: no intent generated before is bound to it.
Unbound == [i \in Intents |-> [intents[i] EXCEPT !.bound = FALSE]]

\* Mutant: a submitted transaction counts as a success.
ReceiptOptimistic(status) ==
    CASE status \in {"submitted", "confirmed", "reconciled"} -> "confirmed"
      [] status = "needs_review" -> "review_required"
      [] status \in {"failed", "stale"} -> "failed"
      [] OTHER -> "verifying"

\* _receipt_status_from_audit
ReceiptStatusFromAudit(status) ==
    CASE status \in {"confirmed", "reconciled"} -> "confirmed"
      [] status = "needs_review" -> "review_required"
      [] status \in {"failed", "stale"} -> "failed"
      [] OTHER -> "verifying"

\* Where a handler goes when its work on the audit is done: a guarded action
\* still has its receipt to save.
Done == IF job.key = None THEN Idle ELSE [job EXCEPT !.step = "receipt"]

At(step) == job.step = step
Goto(step) == job' = [job EXCEPT !.step = step]

-----------------------------------------------------------------------------
(* Preparing an intent: create or generate, quote, simulate, cancel *)

create_live_intent(i) ==
    /\ At("idle")
    /\ intents[i].status = "none"
    /\ intents' = [intents EXCEPT ![i].status = "open"]
    /\ UNCHANGED <<audits, receipts, position, fills, killSwitch, phone, chain,
                   wallet, job, dispatches, crashes>>

\* One candidate of generate_live_intents: no intent for the same action is
\* being prepared, and a sell is generated from the open position.
generate_live_intents(i) ==
    /\ At("idle")
    /\ intents[i].status = "none"
    /\ i \in Buys => \A j \in Buys : intents[j].status \notin Preparing
    /\ i \in Sells => /\ \A j \in Sells : intents[j].status \notin Preparing
                      /\ position.open /\ position.held
    /\ intents' = [intents EXCEPT ![i].status = "open", ![i].bound = (i \in Sells)]
    /\ UNCHANGED <<audits, receipts, position, fills, killSwitch, phone, chain,
                   wallet, job, dispatches, crashes>>

\* No status is refused: any intent can be cancelled.
cancel_live_intent(i) ==
    /\ At("idle")
    /\ intents[i].status # "none"
    /\ intents' = [intents EXCEPT ![i].status = "cancelled"]
    /\ phone' = Bumped(i)
    /\ UNCHANGED <<audits, receipts, position, fills, killSwitch, chain, wallet,
                   job, dispatches, crashes>>

\* live_quote as quote_live_intent uses it: a new audit, ready or blocked, is
\* saved and tied to the intent; blockers other than the entry gate are free.
\* The intent live_quote makes for itself, cancelled at once, is left out.
quote_live_intent(i, a) ==
    /\ At("idle")
    /\ intents[i].status \notin {"none", "cancelled"}
    /\ audits[a].status = "none"
    /\ \E ready \in BOOLEAN :
        /\ ready /\ i \in Buys => EntryAllowed
        /\ audits' = [audits EXCEPT ![a] =
                        [NoAudit EXCEPT !.status = IF ready THEN "ready" ELSE "blocked",
                                        !.intent = i, !.fresh = TRUE, !.tx = ready]]
    /\ job' = [Idle EXCEPT !.step = "bind", !.audit = a]
    /\ UNCHANGED <<intents, receipts, position, fills, killSwitch, phone, chain,
                   wallet, dispatches, crashes>>

QuotedStatus(a) == IF audits[a].status = "ready" THEN "quoted" ELSE "blocked"

\* The second half: the intent takes the new audit.
bind_quoted_intent ==
    /\ At("bind")
    /\ LET a == job.audit
           i == audits[a].intent
       IN /\ intents' = [intents EXCEPT
                ![i].status = QuotedStatus(a),
                ![i].audit = a]
          /\ phone' = Bumped(i)
    /\ job' = Idle
    /\ UNCHANGED <<audits, receipts, position, fills, killSwitch, chain, wallet,
                   dispatches, crashes>>

\* Whatever the audit's status was, it becomes simulated or simulation_warning.
live_simulate(a) ==
    /\ At("idle")
    /\ audits[a].status # "none"
    /\ audits[a].sims < MaxSimulations
    /\ \E ok \in BOOLEAN :
        audits' = [audits EXCEPT
            ![a].status = IF ok THEN "simulated" ELSE "simulation_warning",
            ![a].sims = @ + 1,
            ![a].again = @ \/ audits[a].owner # None]
    /\ job' = [Idle EXCEPT !.step = "simulated", !.audit = a]
    /\ UNCHANGED <<intents, receipts, position, fills, killSwitch, phone, chain,
                   wallet, dispatches, crashes>>

simulated_intent ==
    /\ At("simulated")
    /\ LET a == job.audit
           i == audits[a].intent
       IN /\ intents' = [intents EXCEPT ![i].status = audits[a].status]
          /\ phone' = Bumped(i)
    /\ job' = Idle
    /\ UNCHANGED <<audits, receipts, position, fills, killSwitch, chain, wallet,
                   dispatches, crashes>>

\* The 30 seconds of a quote (and of the intent quoted with it) run out.
QuoteExpires(a) ==
    /\ audits[a].fresh
    /\ audits' = [audits EXCEPT ![a].fresh = FALSE]
    /\ UNCHANGED <<intents, receipts, position, fills, killSwitch, phone, chain,
                   wallet, job, dispatches, crashes>>

\* _normalize_live_audits, run by every handler that lists audits.
normalize_live_audits(a) ==
    /\ At("idle")
    /\ audits[a].status \in {"ready", "simulated", "simulation_warning"}
    /\ ~audits[a].sig /\ ~audits[a].fresh
    /\ audits' = [audits EXCEPT ![a].status = "stale"]
    /\ UNCHANGED <<intents, receipts, position, fills, killSwitch, phone, chain,
                   wallet, job, dispatches, crashes>>

\* _mark_stale_live_intents, run by every handler that lists intents.
mark_stale_live_intents(i) ==
    /\ At("idle")
    /\ intents[i].status \in Preparing
    /\ intents[i].audit # None
    /\ ~audits[intents[i].audit].fresh
    /\ intents' = [intents EXCEPT ![i].status = "expired"]
    /\ UNCHANGED <<audits, receipts, position, fills, killSwitch, phone, chain,
                   wallet, job, dispatches, crashes>>

set_live_kill_switch ==
    /\ At("idle")
    /\ killSwitch' = ~killSwitch
    /\ UNCHANGED <<intents, audits, receipts, position, fills, phone, chain,
                   wallet, job, dispatches, crashes>>

-----------------------------------------------------------------------------
(* Submission *)

\* live_submit called by the desktop or by autonomy, backend signer: the audit
\* must not belong to a guarded action; its status is not looked at.
live_submit(a) ==
    /\ At("idle")
    /\ audits[a].status # "none"
    /\ audits[a].intent \notin BrowserIntents
    /\ audits[a].owner = None
    /\ SubmitAllowed(a)
    /\ audits' = [audits EXCEPT ![a].status = "submitting"]
    /\ job' = [Idle EXCEPT !.step = "signing", !.op = "submit", !.audit = a]
    /\ UNCHANGED <<intents, receipts, position, fills, killSwitch, phone, chain,
                   wallet, dispatches, crashes>>

\* live_submit with the signature of a transaction the browser wallet sent.
live_submit_signature(a) ==
    /\ At("idle")
    /\ audits[a].intent \in BrowserIntents
    /\ chain[a] # "none"
    /\ audits[a].owner = None
    /\ SubmitAllowed(a)
    /\ audits' = [audits EXCEPT ![a].status = "submitted", ![a].sig = TRUE]
    /\ job' = [Idle EXCEPT !.step = "intent_submitted", !.op = "submit", !.audit = a]
    /\ UNCHANGED <<intents, receipts, position, fills, killSwitch, phone, chain,
                   wallet, dispatches, crashes>>

\* _execute_backend_audit: the signer signs and sends, and its answer arrives,
\* or it raises (refusal, timeout, lost answer) with or without having sent.
execute_backend_audit ==
    /\ At("signing")
    /\ LET a == job.audit
           Sent == [chain EXCEPT ![a] = IF @ = "none" THEN "sent" ELSE @]
       IN /\ \/ chain' = Sent /\ Goto("sent")
             \/ /\ chain' \in {chain, Sent}
                /\ job' = IF job.key = None THEN Idle
                          ELSE [job EXCEPT !.step = "raised"]
          /\ dispatches' = IF job.key = None THEN dispatches
                           ELSE [dispatches EXCEPT ![a] = @ + 1]
    /\ UNCHANGED <<intents, audits, receipts, position, fills, killSwitch, phone,
                   wallet, crashes>>

\* The answer is taken as it is, with a signature or without.
save_submitted_audit ==
    /\ At("sent")
    /\ \E signed \in BOOLEAN :
          audits' = [audits EXCEPT ![job.audit].status = "submitted",
                                   ![job.audit].sig = signed]
    /\ Goto("intent_submitted")
    /\ UNCHANGED <<intents, receipts, position, fills, killSwitch, phone, chain,
                   wallet, dispatches, crashes>>

\* The intent follows; a backend submission goes straight on to recovery.
save_submitted_intent ==
    /\ At("intent_submitted")
    /\ LET i == audits[job.audit].intent
       IN /\ intents' = [intents EXCEPT ![i].status = "submitted"]
          /\ phone' = Bumped(i)
          /\ job' = IF i \in BrowserIntents THEN Idle
                    ELSE [job EXCEPT !.step = "recover", !.op = "recover"]
    /\ UNCHANGED <<audits, receipts, position, fills, killSwitch, chain, wallet,
                   dispatches, crashes>>

-----------------------------------------------------------------------------
(* Recovery: recover_live_audit and who calls it *)

StartRecovery(a, k) ==
    job' = [Idle EXCEPT !.step = "recover", !.op = "recover", !.audit = a, !.key = k]

Pollable(a) ==
    /\ audits[a].sig
    /\ audits[a].status \in {"submitted", "needs_review", "failed"}
    /\ ~RetryLimitReached(a)

\* One audit of a pass of poll_live_audits (every 15 seconds).
poll_live_audits(a) ==
    /\ At("idle")
    /\ Pollable(a)
    /\ StartRecovery(a, None)
    /\ UNCHANGED <<intents, audits, receipts, position, fills, killSwitch, phone,
                   chain, wallet, dispatches, crashes>>

\* One audit of recover_unresolved_live_audits, at the operator's request.
recover_unresolved_live_audits(a) ==
    /\ At("idle")
    /\ Unresolved(a)
    /\ StartRecovery(a, None)
    /\ UNCHANGED <<intents, audits, receipts, position, fills, killSwitch, phone,
                   chain, wallet, dispatches, crashes>>

\* What getSignatureStatuses may answer for the audit's signature: a node may
\* lag behind the chain, but says nothing that is not so.
RpcAnswer(a) ==
    {"down", "missing"} \cup
    CASE chain[a] = "landed" -> {"processed", "confirmed"}
      [] chain[a] = "failed" -> {"error"}
      [] chain[a] = "sent" -> {"processed"}
      [] OTHER -> {}

\* Mutant: without a signature nothing can have been sent.
UnsignedIsStale(status) == "stale"

\* What recovery makes of an audit without a signature.
UnsignedVerdict(status) ==
    IF status \in {"ready", "simulated", "simulation_warning", "stale"}
    THEN "stale" ELSE "needs_review"

Recovered(status) ==
    /\ audits' = [audits EXCEPT ![job.audit].status = status,
                                ![job.audit].attempts = Attempted(@)]
    /\ UNCHANGED intents

\* The intent is sent to review first; the audit follows in save_escalation.
Escalate(status) ==
    /\ intents' = [intents EXCEPT ![audits[job.audit].intent].status = "needs_review"]
    /\ job' = [job EXCEPT !.step = "escalate", !.verdict = status]
    /\ UNCHANGED audits

recover_live_audit ==
    /\ At("recover")
    /\ LET a == job.audit
       IN \/ /\ RetryLimitReached(a)
             /\ job' = Done
             /\ UNCHANGED <<audits, intents>>
          \/ /\ ~RetryLimitReached(a)
             /\ ~audits[a].sig
             /\ Recovered(UnsignedVerdict(audits[a].status))
             /\ job' = Done
          \/ /\ ~RetryLimitReached(a)
             /\ audits[a].sig
             /\ \/ "down" \in RpcAnswer(a) /\ Recovered("needs_review") /\ job' = Done
                \/ /\ "missing" \in RpcAnswer(a)
                   /\ IF audits[a].attempts + 1 >= MaxAttempts
                      THEN Escalate("needs_review")
                      ELSE Recovered("submitted") /\ job' = Done
                \/ "error" \in RpcAnswer(a) /\ Escalate("failed")
                \/ "confirmed" \in RpcAnswer(a) /\ Recovered("confirmed") /\ Goto("fill")
                \/ "processed" \in RpcAnswer(a) /\ Recovered("submitted") /\ job' = Done
    /\ UNCHANGED <<receipts, position, fills, killSwitch, phone, chain, wallet,
                   dispatches, crashes>>

save_escalation ==
    /\ At("escalate")
    /\ audits' = [audits EXCEPT ![job.audit].status = job.verdict,
                                ![job.audit].attempts = Attempted(@)]
    /\ job' = Done
    /\ UNCHANGED <<intents, receipts, position, fills, killSwitch, phone, chain,
                   wallet, dispatches, crashes>>

\* Any audit, whatever its signer, signature or status: the caller says
\* confirmed or not, and the code takes his word for it.
live_confirm(a) ==
    /\ At("idle")
    /\ audits[a].status # "none"
    /\ \E said \in {"landed", "failed"} :
          audits' = [audits EXCEPT
              ![a].status = IF said = "landed" THEN "confirmed" ELSE "failed",
              ![a].misled = @ \/ chain[a] # said]
    /\ job' = [Idle EXCEPT !.step = "confirm_intent", !.op = "confirm", !.audit = a]
    /\ UNCHANGED <<intents, receipts, position, fills, killSwitch, phone, chain,
                   wallet, dispatches, crashes>>

confirmed_intent ==
    /\ At("confirm_intent")
    /\ LET a == job.audit
           i == audits[a].intent
           ok == audits[a].status = "confirmed"
       IN /\ intents' = [intents EXCEPT
                ![i].status = IF ok THEN "executed" ELSE "needs_review"]
          /\ phone' = Bumped(i)
          /\ job' = IF ok THEN [job EXCEPT !.step = "fill"] ELSE Idle
    /\ UNCHANGED <<audits, receipts, position, fills, killSwitch, chain, wallet,
                   dispatches, crashes>>

-----------------------------------------------------------------------------
(* The live ledger *)

\* Mutant: the ledger does not look for an earlier fill.
NeverFilled(a) == FALSE

\* The ledger recognises a fill by its audit id.
AlreadyFilled(a) == fills[a] > 0

record_live_fill ==
    /\ At("fill")
    /\ LET a == job.audit
       IN \/ /\ AlreadyFilled(a)
             /\ UNCHANGED <<fills, position, intents>>
          \/ /\ ~AlreadyFilled(a)
             /\ fills' = [fills EXCEPT ![a] = @ + 1]
             /\ position' = [position EXCEPT !.open = (audits[a].intent \in Buys),
                                             !.recon = "pending"]
             /\ intents' = Unbound
    /\ Goto("reconcile")
    /\ UNCHANGED <<audits, receipts, killSwitch, phone, chain, wallet, dispatches,
                   crashes>>

SoldBefore == \E a \in Audits : fills[a] > 0 /\ audits[a].intent \in Sells

\* _reconcile_live_audit up to saving the position: the balance read fails, or
\* the position takes the wallet's balance; version + 1 on a material change.
reconcile_live_position ==
    /\ At("reconcile")
    /\ \E ok \in BOOLEAN :
        /\ position' = IF ok
             THEN [held |-> wallet, recon |-> "matched",
                   open |-> wallet \/ (position.open /\ ~SoldBefore)]
             ELSE [position EXCEPT !.recon = "needs_review"]
        /\ job' = [job EXCEPT !.step = "recon_audit",
                              !.verdict = IF ok THEN "matched" ELSE "needs_review"]
    /\ intents' = IF position' # position THEN Unbound ELSE intents
    /\ UNCHANGED <<audits, receipts, fills, killSwitch, phone, chain, wallet,
                   dispatches, crashes>>

\* ... and the audit.
reconcile_live_audit ==
    /\ At("recon_audit")
    /\ audits' = [audits EXCEPT ![job.audit].recon = job.verdict,
            ![job.audit].status = IF job.verdict = "matched" THEN @ ELSE "needs_review"]
    /\ CASE job.op = "recover" -> Goto("settle")
         [] job.op = "confirm" -> Goto("final")
         [] OTHER -> job' = Idle
    /\ UNCHANGED <<intents, receipts, position, fills, killSwitch, phone, chain,
                   wallet, dispatches, crashes>>

\* recover_live_audit after the fill: the intent, then the audit.
settle_recovered_intent ==
    /\ At("settle")
    /\ intents' = [intents EXCEPT ![audits[job.audit].intent].status =
            IF audits[job.audit].recon = "matched" THEN "executed" ELSE "needs_review"]
    /\ Goto("final")
    /\ UNCHANGED <<audits, receipts, position, fills, killSwitch, phone, chain,
                   wallet, dispatches, crashes>>

settle_live_audit ==
    /\ At("final")
    /\ audits' = [audits EXCEPT ![job.audit].status =
            IF audits[job.audit].recon = "matched" THEN "reconciled" ELSE "needs_review"]
    /\ job' = Done
    /\ UNCHANGED <<intents, receipts, position, fills, killSwitch, phone, chain,
                   wallet, dispatches, crashes>>

reconcile_live_intent(i) ==
    /\ At("idle")
    /\ intents[i].status # "none"
    /\ \/ /\ intents[i].audit = None
          /\ intents' = [intents EXCEPT ![i].status = "needs_review"]
          /\ UNCHANGED job
       \/ /\ intents[i].audit # None
          /\ job' = [Idle EXCEPT !.step = "reconcile", !.op = "reconcile",
                                 !.audit = intents[i].audit]
          /\ UNCHANGED intents
    /\ UNCHANGED <<audits, receipts, position, fills, killSwitch, phone, chain,
                   wallet, dispatches, crashes>>

-----------------------------------------------------------------------------
(* Guarded actions of the paired phone *)

\* The operator opens a prepared trade: intent, version and quote on screen.
ReviewTrade(k, i) ==
    /\ At("idle")
    /\ receipts[k].status = "none"
    /\ intents[i].status # "none"
    /\ phone' = [phone EXCEPT ![k] = [intent |-> i, audit |-> intents[i].audit,
                                      current |-> TRUE]]
    /\ UNCHANGED <<intents, audits, receipts, position, fills, killSwitch, chain,
                   wallet, job, dispatches, crashes>>

\* The blockers of _trade_validation that depend on modelled state.
TradeValid(i, a) ==
    /\ intents[i].status = "simulated"
    /\ audits[a].intent = i
    /\ audits[a].status = "simulated"
    /\ audits[a].tx /\ audits[a].fresh
    /\ ~killSwitch
    /\ i \notin BrowserIntents
    /\ i \in Buys => EntryAllowed

\* What close_position adds: the intent is the full-position sell generated
\* from the position as it still is.
CloseBound(i) ==
    /\ i \in Sells /\ intents[i].bound
    /\ position.open /\ position.held
    /\ position.recon # "needs_review"

\* Mutant: the expected version is not compared.
AnyVersion(k) == TRUE

VersionCurrent(k) == phone[k].current

\* Mutant: any simulated audit may be claimed.
ClaimedOrNot(a) == TRUE

\* No guarded action owns the audit and no receipt names it.
Unclaimed(a) ==
    /\ audits[a].owner = None
    /\ \A k \in Keys : receipts[k].audit # a

\* One transaction: audit, intent and receipt.
reserve_mobile_execution_action(k, i, a) ==
    /\ VersionCurrent(k)
    /\ Unclaimed(a)
    /\ audits' = [audits EXCEPT ![a].status = "submitting", ![a].owner = k,
                                ![a].dispatched = FALSE]
    /\ intents' = [intents EXCEPT ![i].status = "submitting"]
    /\ phone' = Bumped(i)
    /\ receipts' = [receipts EXCEPT ![k] =
          [status |-> "pending", audit |-> a]]

\* _approve_prepared_intent up to the claim.  A key that has a receipt is
\* answered with it.
approve_prepared_intent(k) ==
    /\ At("idle")
    /\ receipts[k].status = "none"
    /\ phone[k].intent # None
    /\ LET i == phone[k].intent
           a == intents[i].audit
       IN /\ a # None
          /\ TradeValid(i, a)
          /\ reserve_mobile_execution_action(k, i, a)
          /\ job' = [Idle EXCEPT !.step = "claimed", !.op = "submit", !.audit = a,
                                 !.key = k]
    /\ UNCHANGED <<position, fills, killSwitch, chain, wallet, dispatches, crashes>>

approve_trade(k) == approve_prepared_intent(k)

close_position(k) ==
    /\ phone[k].intent # None /\ CloseBound(phone[k].intent)
    /\ approve_prepared_intent(k)

\* The dispatch is recorded before the signer is called, once per audit.
begin_mobile_execution_dispatch ==
    /\ At("claimed")
    /\ audits[job.audit].owner = job.key
    /\ ~audits[job.audit].dispatched
    /\ audits[job.audit].status = "submitting"
    /\ audits' = [audits EXCEPT ![job.audit].dispatched = TRUE]
    /\ Goto("checks")
    /\ UNCHANGED <<intents, receipts, position, fills, killSwitch, phone, chain,
                   wallet, dispatches, crashes>>

\* live_submit repeats its checks with the claimed audit already "submitting".
guarded_live_submit ==
    /\ At("checks")
    /\ Goto(IF SubmitAllowed(job.audit) THEN "signing" ELSE "raised")
    /\ UNCHANGED <<intents, audits, receipts, position, fills, killSwitch, phone,
                   chain, wallet, dispatches, crashes>>

\* _approve_prepared_intent after live_submit raised.
save_raised_receipt ==
    /\ At("raised")
    /\ receipts' = [receipts EXCEPT ![job.key].status =
            IF \/ audits[job.audit].status \in {"submitting", "submitted", "needs_review"}
               \/ audits[job.audit].sig
            THEN "verifying" ELSE "failed"]
    /\ job' = Idle
    /\ UNCHANGED <<intents, audits, position, fills, killSwitch, phone, chain, wallet,
                   dispatches, crashes>>

save_mobile_action_receipt ==
    /\ At("receipt")
    /\ receipts' = [receipts EXCEPT ![job.key].status =
                        ReceiptStatusFromAudit(audits[job.audit].status)]
    /\ job' = Idle
    /\ UNCHANGED <<intents, audits, position, fills, killSwitch, phone, chain, wallet,
                   dispatches, crashes>>

\* Mutant: a receipt that was answered once is forgotten.
OpenUntilAnswered == {"pending", "review_required"}
\* Mutant: a failed receipt is looked at again.
OpenOrFailed == {"pending", "verifying", "review_required", "failed"}

OpenReceipt == {"pending", "verifying", "review_required"}

\* The phone polls its receipt: an audit in flight is recovered first.
action(k) ==
    /\ At("idle")
    /\ receipts[k].status \in OpenReceipt
    /\ LET a == receipts[k].audit
       IN IF audits[a].status \in {"submitting", "submitted"}
          THEN StartRecovery(a, k)
          ELSE job' = [Idle EXCEPT !.step = "receipt", !.audit = a, !.key = k]
    /\ UNCHANGED <<intents, audits, receipts, position, fills, killSwitch, phone,
                   chain, wallet, dispatches, crashes>>

\* One transaction: the intent is cancelled and the receipt is terminal.
apply_mobile_trade_rejection(k, i) ==
    /\ VersionCurrent(k)
    /\ intents[i].status \notin {"submitted", "executed"}
    /\ intents' = [intents EXCEPT ![i].status = "cancelled"]
    /\ phone' = Bumped(i)
    /\ receipts' = [receipts EXCEPT ![k] =
            [status |-> "cancelled", audit |-> None]]

reject_trade(k) ==
    /\ At("idle")
    /\ receipts[k].status = "none"
    /\ phone[k].intent # None
    /\ apply_mobile_trade_rejection(k, phone[k].intent)
    /\ UNCHANGED <<audits, position, fills, killSwitch, chain, wallet, job,
                   dispatches, crashes>>

\* One transaction: new exit controls, version + 1, terminal receipt.
apply_mobile_position_exit_adjustment(k) ==
    /\ position.open /\ position.held
    /\ intents' = Unbound
    /\ receipts' = [receipts EXCEPT ![k] =
            [status |-> "confirmed", audit |-> None]]

\* The position's version is compared too, which only makes it happen less often.
adjust_position_exit(k) ==
    /\ At("idle")
    /\ receipts[k].status = "none"
    /\ apply_mobile_position_exit_adjustment(k)
    /\ UNCHANGED <<audits, position, fills, killSwitch, phone, chain, wallet, job,
                   dispatches, crashes>>

-----------------------------------------------------------------------------
(* The environment: browser wallet, chain, restarts *)

\* The browser wallet signs and sends a ready quote by itself.
WalletSends(a) ==
    /\ audits[a].intent \in BrowserIntents
    /\ audits[a].tx
    /\ chain[a] = "none"
    /\ chain' = [chain EXCEPT ![a] = "sent"]
    /\ UNCHANGED <<intents, audits, receipts, position, fills, killSwitch, phone,
                   wallet, job, dispatches, crashes>>

\* A transaction lands, fails or is never included; a sell needs the token.
ChainDecides(a) ==
    /\ chain[a] = "sent"
    /\ \/ /\ audits[a].intent \in Sells => wallet
          /\ chain' = [chain EXCEPT ![a] = "landed"]
          /\ wallet' = (audits[a].intent \in Buys)
       \/ chain' = [chain EXCEPT ![a] = "failed"] /\ UNCHANGED wallet
       \/ chain' = [chain EXCEPT ![a] = "dropped"] /\ UNCHANGED wallet
    /\ UNCHANGED <<intents, audits, receipts, position, fills, killSwitch, phone,
                   job, dispatches, crashes>>

\* The backend stops between two commits and is started again.
Crash ==
    /\ ~At("idle")
    /\ crashes < MaxCrashes
    /\ crashes' = crashes + 1
    /\ job' = Idle
    /\ UNCHANGED <<intents, audits, receipts, position, fills, killSwitch, phone,
                   chain, wallet, dispatches>>

-----------------------------------------------------------------------------
\* The rest of the handler in flight.
HandlerStep ==
    \/ bind_quoted_intent \/ simulated_intent
    \/ execute_backend_audit \/ save_submitted_audit \/ save_submitted_intent
    \/ recover_live_audit \/ save_escalation \/ confirmed_intent
    \/ record_live_fill \/ reconcile_live_position \/ reconcile_live_audit
    \/ settle_recovered_intent \/ settle_live_audit
    \/ begin_mobile_execution_dispatch \/ guarded_live_submit
    \/ save_raised_receipt \/ save_mobile_action_receipt

OperatorStep ==
    \/ set_live_kill_switch
    \/ \E i \in Intents :
        \/ create_live_intent(i) \/ generate_live_intents(i) \/ cancel_live_intent(i)
        \/ reconcile_live_intent(i) \/ mark_stale_live_intents(i)
        \/ \E a \in Audits : quote_live_intent(i, a)
    \/ \E a \in Audits :
        \/ live_simulate(a) \/ live_submit(a) \/ live_submit_signature(a)
        \/ live_confirm(a) \/ normalize_live_audits(a)
        \/ poll_live_audits(a) \/ recover_unresolved_live_audits(a)

PhoneStep ==
    \E k \in Keys :
        \/ \E i \in Intents : ReviewTrade(k, i)
        \/ approve_trade(k) \/ close_position(k) \/ action(k)
        \/ reject_trade(k) \/ adjust_position_exit(k)

Environment ==
    \/ Crash
    \/ \E a \in Audits : QuoteExpires(a) \/ WalletSends(a) \/ ChainDecides(a)

Next == HandlerStep \/ OperatorStep \/ PhoneStep \/ Environment

Spec == Init /\ [][Next]_vars

\* Handlers finish once started; the chain decides; time passes; the audit
\* poller, the phone's receipt polling and the audit listing that marks stale
\* quotes come round again and again, and asyncio serves them in FIFO order
\* although other handlers disable them for a while.  An RPC node that is asked
\* again and again catches up with the chain.
RpcConfirms(a) ==
    /\ job.audit = a
    /\ recover_live_audit
    /\ audits'[a].status = "confirmed"

Fairness ==
    /\ WF_vars(HandlerStep)
    /\ \A a \in Audits : /\ WF_vars(ChainDecides(a))
                         /\ SF_vars(RpcConfirms(a))
                         /\ WF_vars(QuoteExpires(a))
                         /\ SF_vars(poll_live_audits(a))
                         /\ SF_vars(normalize_live_audits(a))
    /\ \A k \in Keys : SF_vars(action(k))

-----------------------------------------------------------------------------
(* Properties *)

\* The signer is called at most once for a prepared audit that a guarded
\* action claimed, whatever is retried, polled or crashes in between
\* (reserve_mobile_execution_action, begin_mobile_execution_dispatch).
DispatchedAtMostOnce == \A a \in Audits : dispatches[a] <= 1

\* Receipts and audits agree on who claimed what: the audit's owner has the
\* only receipt that names it.
ClaimsAreExclusive ==
    \A a \in Audits, k \in Keys : audits[a].owner = k <=> receipts[k].audit = a

\* A guarded action executes the very quote its operator reviewed, however
\* often the intent was quoted again between review and approval.
ExecutesReviewedQuote ==
    \A k \in Keys : receipts[k].audit # None => receipts[k].audit = phone[k].audit

\* What the chain has decided, unless a caller of live_confirm said otherwise.
Landed(a) == chain[a] = "landed" \/ audits[a].misled
Failed(a) == chain[a] = "failed" \/ audits[a].misled

\* The ledger holds one fill per transaction at most, although the poller, the
\* phone, the operator and the browser may all confirm it, and only of one that
\* landed, unless a caller of live_confirm misreported it (_record_live_fill).
FilledOnceAndOnlyIfLanded ==
    \A a \in Audits : fills[a] <= 1 /\ (fills[a] = 1 => Landed(a))

\* A receipt says confirmed only when the transaction landed, or on the word of
\* a caller of live_confirm (_receipt_status_from_audit) ...
NoFalseSuccess ==
    \A k \in Keys : receipts[k].audit # None /\ receipts[k].status = "confirmed"
                       => Landed(receipts[k].audit)

\* ... and failed only when it failed on the chain, or on that word; of an audit
\* that was simulated again after its claim it may say anything (live_simulate).
FailureIsTrue ==
    \A k \in Keys :
        /\ receipts[k].audit # None /\ receipts[k].status = "failed"
        /\ ~audits[receipts[k].audit].again
        => Failed(receipts[k].audit)

\* While the quote is fresh and the process stays up, a claimed action does
\* reach the signer: approving once means submitting once (live_submit).
Unsubmitted(a) ==
    /\ audits[a].dispatched /\ audits[a].fresh
    /\ job = Idle /\ crashes = 0
    /\ dispatches[a] # 1
ClaimReachesSigner == \A a \in Audits : ~Unsubmitted(a)

\* ... and of a sell it is true: neither the kill switch nor the debt of the
\* claimed audit itself comes between its claim and the signer (live_submit).
SellReachesSigner == \A a \in Audits : audits[a].intent \notin Buys => ~Unsubmitted(a)

\* The backend signer sends no buy while the kill switch is on or another
\* live audit is unresolved, though both may change after the quote.
EntryGateHolds ==
    [][\A a \in Audits :
          /\ audits[a].intent \in Buys \ BrowserIntents
          /\ chain[a] = "none" /\ chain'[a] = "sent"
          => ~killSwitch /\ \A b \in Audits \ {a} : ~Unresolved(b)]_vars

\* What a receipt told the operator for good is never taken back.
TerminalReceiptIsFinal ==
    [][\A k \in Keys : receipts[k].status \in {"confirmed", "failed", "cancelled"}
                          => receipts'[k] = receipts[k]]_vars

\* Every claimed action is decided, or handed to the operator, in the end, unless
\* its audit is simulated again (poll_live_audits, action).
ReceiptsSettle ==
    \A k \in Keys : receipts[k].status \in {"pending", "verifying"}
        ~> \/ receipts[k].status \in {"confirmed", "failed", "review_required"}
           \/ \E a \in Audits : receipts[k].audit = a /\ audits[a].again

\* A recorded transaction that landed gets into the ledger or to the operator.
LandedIsAccounted ==
    \A a \in Audits : chain[a] = "landed" /\ audits[a].sig
        ~> fills[a] = 1 \/ audits[a].status = "needs_review"

\* ... in particular as long as the backend is not restarted meanwhile, nor the
\* audit simulated again.
LandedIsAccountedUnlessRestarted ==
    \A a \in Audits : chain[a] = "landed" /\ audits[a].sig
        ~> \/ fills[a] = 1 \/ audits[a].status = "needs_review"
           \/ crashes > 0 \/ audits[a].again

-----------------------------------------------------------------------------
(* Why the safety properties hold: the inductive invariant *)

\* A handler at work on a claimed audit owns it, and the dispatch it has
\* recorded, or not, is the one it is about to make.
HandlerOwnsItsClaim ==
    /\ job.step \in {"claimed", "checks"} => job.key \in Keys
    /\ job.step \in {"claimed", "checks", "signing"} /\ job.key \in Keys =>
          /\ job.audit \in Audits
          /\ audits[job.audit].owner = job.key
          /\ audits[job.audit].dispatched = (job.step # "claimed")
          /\ dispatches[job.audit] = 0

\* A handler at work has an audit; when it acts for a phone, the audit is the one
\* on the phone's receipt; and what it carries is what its next step can write.
HandlerFits ==
    /\ job.step = "idle" => job = Idle
    /\ job.step # "idle" => job.audit \in Audits
    /\ job.key \in Keys => receipts[job.key].audit = job.audit
    /\ job.step = "simulated" =>
          audits[job.audit].status \in {"simulated", "simulation_warning"}
    /\ job.step = "escalate" => job.verdict \in {"needs_review", "failed"}
    /\ job.step = "recon_audit" => job.verdict \in {"needs_review", "matched"}

\* A receipt without an execution is unused or terminal.
LocalReceiptIsTerminal ==
    \A k \in Keys : receipts[k].audit = None
                       => receipts[k].status \in {"none", "confirmed", "cancelled"}

\* Nothing is dispatched before it is claimed and recorded.
DispatchFollowsClaim ==
    \A a \in Audits :
        /\ audits[a].status = "none" => audits[a].owner = None
        /\ audits[a].owner = None => ~audits[a].dispatched
        /\ dispatches[a] # 0 => audits[a].dispatched

UnusedKeyClaimsNothing ==
    \A k \in Keys : receipts[k].status = "none" => receipts[k].audit = None

\* A version that is still current has still the quote that was reviewed.
CurrentReviewIsExact ==
    \A k \in Keys : phone[k].current =>
        /\ phone[k].intent \in Intents
        /\ intents[phone[k].intent].audit = phone[k].audit

\* What is called confirmed has landed, as far as the backend can know; what a
\* caller reported on exists.
ConfirmedHasLanded ==
    /\ \A a \in Audits : audits[a].misled => audits[a].status # "none"
    /\ \A a \in Audits : audits[a].status \in {"confirmed", "reconciled"} => Landed(a)
    /\ \/ job.step \in {"fill", "settle", "final"}
       \/ job.step \in {"reconcile", "recon_audit"} /\ job.op # "reconcile"
       => job.audit \in Audits /\ Landed(job.audit)

\* Whatever is called failed, or is about to be, has failed on the chain.
FailedHasFailed ==
    /\ \A a \in Audits : audits[a].status = "failed" => Failed(a)
    /\ job.step = "escalate" /\ job.verdict = "failed" => chain[job.audit] = "failed"

InFlight == {"submitting", "submitted", "confirmed", "reconciled", "needs_review",
             "failed"}

\* What is claimed does not turn stale: it stays in flight, or decided, unless it
\* is simulated again.
ClaimedStaysInFlight ==
    /\ \A a \in Audits :
          audits[a].owner \in Keys /\ ~audits[a].again => audits[a].status \in InFlight
    /\ job.step = "raised" => job.key \in Keys
    /\ job.step \in {"claimed", "checks", "signing", "raised"} /\ job.key \in Keys =>
          audits[job.audit].status = "submitting"

\* A sell that is dispatched while its quote is fresh is with the signer, or its
\* handler is on the way there.
SellIsOnItsWay ==
    \A a \in Audits :
        /\ audits[a].owner \in Keys => audits[a].tx
        /\ audits[a].dispatched /\ audits[a].fresh /\ audits[a].intent \notin Buys
           /\ crashes = 0
           => \/ dispatches[a] = 1
              \/ /\ job.audit = a /\ job.key \in Keys
                 /\ job.step \in {"checks", "signing"}

\* All the parts hold in every reachable state; together they are preserved by
\* every step.
IndInv ==
    /\ TypeOK
    /\ HandlerFits
    /\ LocalReceiptIsTerminal
    /\ DispatchedAtMostOnce
    /\ ClaimsAreExclusive
    /\ HandlerOwnsItsClaim
    /\ DispatchFollowsClaim
    /\ UnusedKeyClaimsNothing
    /\ ExecutesReviewedQuote
    /\ CurrentReviewIsExact
    /\ ConfirmedHasLanded
    /\ FilledOnceAndOnlyIfLanded
    /\ NoFalseSuccess
    /\ FailedHasFailed
    /\ ClaimedStaysInFlight
    /\ FailureIsTrue
    /\ SellIsOnItsWay

\* The claims and dispatches of the control plane are those of GuardedDispatch.
Dispatch == INSTANCE GuardedDispatch WITH
    claim <- [a \in Audits |-> audits[a].owner],
    started <- [a \in Audits |-> audits[a].dispatched],
    calls <- dispatches

ImplementsGuardedDispatch == Dispatch!Spec
=============================================================================
