---------------------------- MODULE MobileTreasury ----------------------------
(***************************************************************************)
(* Withdrawals, profit sweeps and rent recoveries asked for by a phone,    *)
(* beside the autonomous profit sweep (mobile/service.py, core/state.py,   *)
(* core/storage.py, core/hot_wallet.py).                                   *)
(*                                                                         *)
(* The desktop authorizes a destination, the phone previews and then       *)
(* requests the transfer.  The request reserves a receipt, binds an audit  *)
(* (not for a withdrawal), sends, completes the audit and saves the        *)
(* receipt, each in a commit of its own.  Handlers run one after another   *)
(* on the event loop: transfer is the one in flight, and only the chain    *)
(* and a restart can come between two of its commits.                      *)
(*                                                                         *)
(* Device, address, asset, source wallet and token accounts are compared   *)
(* with what the authorization and the preview hold and never change after *)
(* that; a request that disagrees changes nothing and is not an action.    *)
(* The kill switch, arming, signer health, backup and proof of readiness   *)
(* may refuse any step: a refused request is a request not made.           *)
(***************************************************************************)
EXTENDS Integers, FiniteSets, FiniteSetsExt

CONSTANTS
    Authorizations,     \* mobile_destination_authorizations
    TreasuryKeys,       \* idempotency keys of the phone, one receipt each
    AutoSweeps,         \* audits the autonomous sweep may allocate
    TreasuryKinds,      \* kinds of transfer the desktop authorizes
    Amounts,
    StartBalance,
    SweepReserve,       \* profit_sweep_min_reserve_sol
    SweepAmount,        \* the policy's expected_amount_sol
    MaxSweepsPerDay,    \* profit_sweep_max_per_day
    Fee,                \* SOLANA_SIGNATURE_BASE_FEE
    Rent,               \* lamports of the one eligible token account
    MaxTreasuryCrashes  \* bound: restarts per behaviour

ASSUME TreasuryAssumption ==
    /\ TreasuryKeys \cap AutoSweeps = {}
    /\ "none" \notin Authorizations \cup TreasuryKeys \cup AutoSweeps
    /\ TreasuryKinds \subseteq {"withdrawal", "profit_sweep", "rent_recovery"}
    /\ Amounts \subseteq Nat \ {0}
    /\ TreasuryKinds # {} /\ Amounts # {}
    /\ {StartBalance, SweepReserve, SweepAmount, Fee, Rent} \subseteq Nat
    /\ {MaxSweepsPerDay, MaxTreasuryCrashes} \subseteq Nat \ {0}

Transfers == TreasuryKeys \cup AutoSweeps

VARIABLES
    authorizations,     \* mobile_destination_authorizations rows
    treasury_receipts,  \* mobile_action_receipts rows of treasury actions
    treasury_audits,    \* live_execution_audits rows of sweeps and rent recoveries
    transfer,           \* the handler in flight
    ledger,             \* external: what became of each transfer on the chain
    treasury_crashes

treasuryVars == <<authorizations, treasury_receipts, treasury_audits, transfer,
                  ledger, treasury_crashes>>

\* fresh: not expired.  shown: the amount of the unexpired preview, 0 if none.
AuthorizationRow == [status: {"none", "unused", "used"}, fresh: BOOLEAN,
                     kind: TreasuryKinds, max: Amounts,
                     shown: Amounts \cup {0}]
TreasuryReceiptStatus == {"none", "pending", "verifying", "review_required",
                          "confirmed", "failed"}
\* sig: the receipt's payload carries the transaction signature.
TreasuryReceiptRow == [status: TreasuryReceiptStatus,
                       auth: Authorizations \cup {"none"},
                       amount: Amounts \cup {0}, sig: BOOLEAN]
TreasuryAuditStatus == {"none", "ready", "submitting", "submitted", "confirmed",
                        "reconciled", "needs_review", "failed", "stale"}
TreasuryAuditRow == [status: TreasuryAuditStatus, sig: BOOLEAN]
LedgerState == {"unsent", "sent", "landed", "failed", "dropped"}
TransferStep == {"idle", "reserved", "signing", "answered", "audited", "raised",
                 "sweeping"}
NoTransfer == [step |-> "idle", of |-> "none"]

TreasuryTypeOK ==
    /\ authorizations \in [Authorizations -> AuthorizationRow]
    /\ treasury_receipts \in [TreasuryKeys -> TreasuryReceiptRow]
    /\ treasury_audits \in [Transfers -> TreasuryAuditRow]
    /\ transfer \in [step: TransferStep, of: Transfers \cup {"none"}]
    /\ (transfer.step = "idle") <=> (transfer.of = "none")
    /\ ledger \in [Transfers -> LedgerState]
    /\ treasury_crashes \in 0..MaxTreasuryCrashes

TreasuryInit ==
    /\ authorizations = [a \in Authorizations |->
          [status |-> "none", fresh |-> FALSE, kind |-> CHOOSE x \in TreasuryKinds : TRUE,
           max |-> CHOOSE n \in Amounts : TRUE, shown |-> 0]]
    /\ treasury_receipts = [k \in TreasuryKeys |->
          [status |-> "none", auth |-> "none", amount |-> 0, sig |-> FALSE]]
    /\ treasury_audits = [t \in Transfers |-> [status |-> "none", sig |-> FALSE]]
    /\ transfer = NoTransfer
    /\ ledger = [t \in Transfers |-> "unsent"]
    /\ treasury_crashes = 0

-----------------------------------------------------------------------------
(* Money *)

TreasuryKind(t) == IF t \in AutoSweeps THEN "profit_sweep"
                   ELSE authorizations[treasury_receipts[t].auth].kind
TransferAmount(t) == IF t \in AutoSweeps THEN SweepAmount
                     ELSE treasury_receipts[t].amount
IsSweep(t) == \/ t \in AutoSweeps
              \/ treasury_receipts[t].status # "none" /\ TreasuryKind(t) = "profit_sweep"

\* What a transfer takes out of the wallet, once it lands.
Outflow(t) == Fee + (IF TreasuryKind(t) = "rent_recovery" THEN 0 - Rent
                     ELSE TransferAmount(t))

\* external: live_wallet_balance, what the RPC reports.
WalletBalance ==
    StartBalance
      - MapThenSumSet(Outflow, {t \in Transfers : ledger[t] = "landed"})
      - Fee * Cardinality({t \in Transfers : ledger[t] = "failed"})

\* A rent recovery in the reservation counts its fee only.
Reserved(k) == Fee + (IF TreasuryKind(k) = "rent_recovery" THEN 0
                      ELSE TransferAmount(k))

\* Mutants: a reservation given up in review; a poll that passes over pending.
ReservedUntilReview(k) == treasury_receipts[k].status \in {"pending", "verifying"}
AnsweredOnly(k) == treasury_receipts[k].status \in {"verifying", "review_required"}
ReceiptOutstanding(k) ==
    treasury_receipts[k].status \in {"pending", "verifying", "review_required"}

pending_mobile_treasury_reservation(excluded) ==
    MapThenSumSet(Reserved, {k \in TreasuryKeys \ excluded : ReceiptOutstanding(k)})

UnresolvedTransfer(t) ==
    treasury_audits[t].status \in {"submitting", "submitted", "needs_review", "failed"}

SweepsToday ==
    {t \in Transfers : /\ IsSweep(t)
                       /\ treasury_audits[t].status \in {"submitted", "confirmed", "reconciled"}}

\* _profit_sweep_policy_evaluation: the day's cap and the reserve.  One day is
\* longer than any behaviour here, and the cooldown is zero.
SweepPolicy(pending, fee) ==
    /\ Cardinality(SweepsToday) < MaxSweepsPerDay
    /\ WalletBalance - pending - SweepAmount - fee >= SweepReserve

RentEligible == \A k \in TreasuryKeys :
    ledger[k] = "landed" => TreasuryKind(k) # "rent_recovery"

\* mobile_treasury_preflight without blockers.
Preflight(kind, amount, excluded) ==
    LET pending == pending_mobile_treasury_reservation(excluded)
    IN  /\ \A t \in Transfers : ~UnresolvedTransfer(t)
        /\ CASE kind = "withdrawal" ->
                  WalletBalance - pending - amount - Fee >= SweepReserve
             [] kind = "profit_sweep" ->
                  SweepPolicy(pending, Fee) /\ amount = SweepAmount
             [] kind = "rent_recovery" ->
                  /\ RentEligible
                  /\ amount = Rent
                  /\ WalletBalance - pending >= Fee

-----------------------------------------------------------------------------
(* Authorization and preview *)

authorize_destination(a, kind, max) ==
    /\ transfer.step = "idle"
    /\ authorizations[a].status = "none"
    /\ authorizations' = [authorizations EXCEPT ![a] =
          [@ EXCEPT !.status = "unused", !.fresh = TRUE, !.kind = kind, !.max = max]]
    /\ UNCHANGED <<treasury_receipts, treasury_audits, transfer, ledger, treasury_crashes>>

\* _require_destination_authorization
Authorized(a, amount) ==
    /\ authorizations[a].status = "unused"
    /\ authorizations[a].fresh
    /\ amount <= authorizations[a].max

\* A later preview replaces an earlier one while the row is unused and fresh.
attach_mobile_destination_preview(a, amount) ==
    /\ authorizations[a].status = "unused" /\ authorizations[a].fresh
    /\ authorizations' = [authorizations EXCEPT ![a].shown = amount]

\* _preview_treasury
preview(a, amount) ==
    /\ transfer.step = "idle"
    /\ Authorized(a, amount)
    /\ Preflight(authorizations[a].kind, amount, {})
    /\ attach_mobile_destination_preview(a, amount)
    /\ UNCHANGED <<treasury_receipts, treasury_audits, transfer, ledger, treasury_crashes>>

\* The wall clock: a preview lasts at most as long as its authorization.
PreviewExpires(a) ==
    /\ authorizations[a].shown # 0
    /\ authorizations' = [authorizations EXCEPT ![a].shown = 0]
    /\ UNCHANGED <<treasury_receipts, treasury_audits, transfer, ledger, treasury_crashes>>

AuthorizationExpires(a) ==
    /\ authorizations[a].fresh
    /\ authorizations' = [authorizations EXCEPT ![a] =
          [@ EXCEPT !.fresh = FALSE, !.shown = 0]]
    /\ UNCHANGED <<treasury_receipts, treasury_audits, transfer, ledger, treasury_crashes>>

-----------------------------------------------------------------------------
(* The request, commit by commit *)

\* _claim_mobile_profit_sweep_capacity counts receipts, not audits.
ClaimedSweeps ==
    {k \in TreasuryKeys : /\ treasury_receipts[k].status \notin {"none", "failed"}
                          /\ TreasuryKind(k) = "profit_sweep"}
SweepCapacity(a) ==
    authorizations[a].kind = "profit_sweep" =>
        Cardinality(ClaimedSweeps) < MaxSweepsPerDay

\* reserve_mobile_treasury_action, in one transaction.
Reservable(a, amount) ==
    /\ Authorized(a, amount)
    /\ authorizations[a].shown = amount
    /\ SweepCapacity(a)

\* Nothing else of a used row is read again.
Consumed(row) == [row EXCEPT !.status = "used", !.fresh = FALSE,
                             !.shown = 0]

\* _request_treasury up to the reservation; a key that has a receipt gets it back.
request_treasury(k, a, amount) ==
    /\ transfer.step = "idle"
    /\ treasury_receipts[k].status = "none"
    /\ Preflight(authorizations[a].kind, amount, {})
    /\ Reservable(a, amount)
    /\ authorizations' = [authorizations EXCEPT ![a] = Consumed(@)]
    /\ treasury_receipts' = [treasury_receipts EXCEPT ![k] =
          [status |-> "pending", auth |-> a, amount |-> amount, sig |-> FALSE]]
    /\ transfer' = [step |-> "reserved", of |-> k]
    /\ UNCHANGED <<treasury_audits, ledger, treasury_crashes>>

\* The audit is inserted and the receipt names it; a withdrawal has none.
bind_mobile_treasury_execution_audit(k) ==
    treasury_audits' =
        IF TreasuryKind(k) = "withdrawal" THEN treasury_audits
        ELSE [treasury_audits EXCEPT ![k] = [status |-> "submitting", sig |-> FALSE]]

\* Preflight once more, without the request's own reservation.
execute_mobile_treasury ==
    LET k == transfer.of
    IN  /\ transfer.step = "reserved"
        /\ Preflight(TreasuryKind(k), treasury_receipts[k].amount, {k})
        /\ bind_mobile_treasury_execution_audit(k)
        /\ transfer' = [transfer EXCEPT !.step = "signing"]
        /\ UNCHANGED <<authorizations, treasury_receipts, ledger, treasury_crashes>>

\* Preflight, signer, simulation or RPC raise before anything is sent.
treasury_raises ==
    /\ transfer.step \in {"reserved", "signing"}
    /\ transfer' = [transfer EXCEPT !.step = "raised"]
    /\ UNCHANGED <<authorizations, treasury_receipts, treasury_audits, ledger, treasury_crashes>>

\* transfer_sol and simulate_and_submit: sendTransaction is accepted; its answer
\* comes back or is lost.
transfer_sol ==
    /\ transfer.step = "signing"
    /\ ledger' = [ledger EXCEPT ![transfer.of] = "sent"]
    /\ \E answer \in {"answered", "raised"} :
          transfer' = [transfer EXCEPT !.step = answer]
    /\ UNCHANGED <<authorizations, treasury_receipts, treasury_audits, treasury_crashes>>

complete_mobile_treasury_audit ==
    LET k == transfer.of
    IN  /\ transfer.step = "answered"
        /\ treasury_audits' =
              IF TreasuryKind(k) = "withdrawal" THEN treasury_audits
              ELSE [treasury_audits EXCEPT ![k] = [status |-> "submitted", sig |-> TRUE]]
        /\ transfer' = [transfer EXCEPT !.step = "audited"]
        /\ UNCHANGED <<authorizations, treasury_receipts, ledger, treasury_crashes>>

\* save_mobile_action_receipt at the end of _request_treasury.
save_treasury_receipt ==
    /\ transfer.step \in {"audited", "raised"}
    /\ treasury_receipts' = [treasury_receipts EXCEPT ![transfer.of] =
          [@ EXCEPT !.status = "verifying", !.sig = (transfer.step = "audited")]]
    /\ transfer' = NoTransfer
    /\ UNCHANGED <<authorizations, treasury_audits, ledger, treasury_crashes>>

TreasuryHandlerStep ==
    \/ execute_mobile_treasury \/ treasury_raises \/ transfer_sol
    \/ complete_mobile_treasury_audit \/ save_treasury_receipt

-----------------------------------------------------------------------------
(* Finding out: the phone's poll and the audit poller *)

\* What the receipt says of a transaction the chain was asked about.
treasury_receipt_status(answer) ==
    CASE answer = "failed" -> "failed"
      [] answer = "landed" -> "confirmed"
      [] answer = "unavailable" -> "review_required"
      [] OTHER -> "verifying"

\* Mutants: no signature taken for not sent; the chain's word for the receipt's.
UnsignedIsFailed(k, answer) ==
    IF treasury_receipts[k].sig THEN treasury_receipt_status(answer) ELSE "failed"
UnmappedVerdict(k, answer) == answer
\* reconcile_mobile_treasury_action: no audit or no signature is for the operator.
TreasuryVerdict(k, answer) ==
    IF \/ TreasuryKind(k) # "withdrawal" /\ treasury_audits[k].status = "none"
       \/ ~treasury_receipts[k].sig
    THEN "review_required"
    ELSE treasury_receipt_status(answer)

\* _signature_status: the RPC tells the truth or is unavailable.
treasury_action(k, answer) ==
    LET verdict == TreasuryVerdict(k, answer)
    IN  /\ transfer.step = "idle"
        /\ ReceiptOutstanding(k)
        /\ answer \in {ledger[k], "unavailable"}
        /\ treasury_receipts' = [treasury_receipts EXCEPT ![k].status = verdict]
        \* finalize_mobile_treasury_reconciliation
        /\ treasury_audits' =
              IF verdict \in {"confirmed", "failed"} /\ TreasuryKind(k) # "withdrawal"
              THEN [treasury_audits EXCEPT ![k].status = verdict]
              ELSE treasury_audits
        /\ UNCHANGED <<authorizations, transfer, ledger, treasury_crashes>>

\* recover_live_audit on the audit of a transfer, by the poller or the operator;
\* the commits inside it are those of LiveExecution.
RecoveredTransfer(t, answer) ==
    IF ~treasury_audits[t].sig
      THEN {IF treasury_audits[t].status = "ready" THEN "stale" ELSE "needs_review"}
    ELSE CASE answer = "unavailable" -> {"needs_review"}
           [] answer = "failed" -> {"failed"}
           [] answer = "landed" -> {"reconciled", "needs_review"}
           [] OTHER -> {"submitted", "needs_review"}

recover_treasury_audit(t, answer) ==
    /\ transfer.step = "idle"
    /\ treasury_audits[t].status # "none"
    /\ answer \in {ledger[t], "unavailable"}
    /\ \E s \in RecoveredTransfer(t, answer) :
          treasury_audits' = [treasury_audits EXCEPT ![t].status = s]
    /\ UNCHANGED <<authorizations, treasury_receipts, transfer, ledger, treasury_crashes>>

-----------------------------------------------------------------------------
(* The autonomous sweep, the chain and the process *)

\* maybe_run_profit_sweep up to the commit of the ready audit: it reserves
\* nothing for the phone's pending transfers.
maybe_run_profit_sweep(t) ==
    /\ transfer.step = "idle"
    /\ treasury_audits[t].status = "none"
    /\ SweepPolicy(0, 0)
    /\ treasury_audits' = [treasury_audits EXCEPT ![t].status = "ready"]
    /\ transfer' = [step |-> "sweeping", of |-> t]
    /\ UNCHANGED <<authorizations, treasury_receipts, ledger, treasury_crashes>>

\* ... its transfer_sol and the second commit: any exception is a failure.
finish_profit_sweep ==
    /\ transfer.step = "sweeping"
    /\ \E sent \in BOOLEAN, answered \in BOOLEAN :
          /\ answered => sent
          /\ ledger' = [ledger EXCEPT ![transfer.of] = IF sent THEN "sent" ELSE @]
          /\ \/ /\ treasury_audits' = [treasury_audits EXCEPT ![transfer.of] =
                      IF answered THEN [status |-> "submitted", sig |-> TRUE]
                      ELSE [status |-> "failed", sig |-> FALSE]]
                /\ transfer' = NoTransfer
                /\ UNCHANGED treasury_crashes
             \* the process stops before the commit
             \/ /\ treasury_crashes < MaxTreasuryCrashes
                /\ treasury_crashes' = treasury_crashes + 1
                /\ transfer' = NoTransfer
                /\ UNCHANGED treasury_audits
    /\ UNCHANGED <<authorizations, treasury_receipts>>

\* external: a sent transaction lands, fails on the chain or is dropped.
TransferDecided(t) ==
    /\ ledger[t] = "sent"
    /\ \E s \in {"landed", "failed", "dropped"} : ledger' = [ledger EXCEPT ![t] = s]
    /\ UNCHANGED <<authorizations, treasury_receipts, treasury_audits, transfer, treasury_crashes>>

TreasuryCrash ==
    /\ treasury_crashes < MaxTreasuryCrashes
    /\ transfer.step \notin {"idle", "sweeping"}
    /\ treasury_crashes' = treasury_crashes + 1
    /\ transfer' = NoTransfer
    /\ UNCHANGED <<authorizations, treasury_receipts, treasury_audits, ledger>>

TreasuryNext ==
    \/ \E a \in Authorizations :
          \/ \E kind \in TreasuryKinds, n \in Amounts : authorize_destination(a, kind, n)
          \/ \E n \in Amounts : preview(a, n)
          \/ PreviewExpires(a) \/ AuthorizationExpires(a)
          \/ \E k \in TreasuryKeys, n \in Amounts : request_treasury(k, a, n)
    \/ TreasuryHandlerStep
    \/ \E k \in TreasuryKeys : \E answer \in LedgerState \cup {"unavailable"} :
          treasury_action(k, answer)
    \/ \E t \in Transfers : \E answer \in LedgerState \cup {"unavailable"} :
          recover_treasury_audit(t, answer)
    \/ \E t \in AutoSweeps : maybe_run_profit_sweep(t)
    \/ finish_profit_sweep
    \/ \E t \in Transfers : TransferDecided(t)
    \/ TreasuryCrash

TreasurySpec == TreasuryInit /\ [][TreasuryNext]_treasuryVars

-----------------------------------------------------------------------------
(* Properties *)

\* One authorization of the desktop pays for one transfer, whatever keys the
\* phone asks with and wherever a restart cuts the request off
\* (reserve_mobile_treasury_action).
TreasuryPaysOnce ==
    \A a \in Authorizations :
        Cardinality({k \in TreasuryKeys : /\ treasury_receipts[k].auth = a
                                          /\ ledger[k] # "unsent"}) <= 1

\* A receipt says confirmed or failed only of a transaction that landed or
\* failed, and one that may still land keeps its share of the balance reserved
\* (reconcile_mobile_treasury_action, load_pending_mobile_treasury_receipts).
ReceiptTellsLedger ==
    \A k \in TreasuryKeys :
        /\ treasury_receipts[k].status = "confirmed" => ledger[k] = "landed"
        /\ treasury_receipts[k].status = "failed" => ledger[k] = "failed"
        /\ ledger[k] = "sent" => ReceiptOutstanding(k)

\* The restart that cuts an autonomous sweep off leaves a ready audit, which no
\* check of the phone's path looks at; what is claimed below is claimed until then.
SweepCutOff ==
    \E t \in AutoSweeps : /\ treasury_audits[t].status \in {"ready", "stale"}
                          /\ ledger[t] # "unsent"

Sends(k) == ledger[k] = "unsent" /\ ledger'[k] = "sent"

\* Whatever the phone sends leaves the configured reserve in the wallet even if
\* everything in flight lands (mobile_treasury_preflight).
ReserveHeld ==
    [][\A k \in TreasuryKeys :
          Sends(k) /\ TreasuryKind(k) # "rent_recovery" /\ ~SweepCutOff =>
            WalletBalance - Outflow(k)
              - MapThenSumSet(Outflow, {t \in Transfers \ {k} :
                    ledger[t] = "sent" /\ Outflow(t) > 0})
            >= SweepReserve]_treasuryVars

\* The phone never sends a sweep past the day's cap, counting the autonomous
\* sweeps and those whose answer was lost (_claim_mobile_profit_sweep_capacity).
SweepCapHolds ==
    [][\A k \in TreasuryKeys :
          Sends(k) /\ IsSweep(k) /\ ~SweepCutOff =>
            Cardinality({t \in Transfers \ {k} :
                IsSweep(t) /\ ledger[t] \in {"sent", "landed"}})
            < MaxSweepsPerDay]_treasuryVars

\* A transfer that landed or failed is told to the phone as such or handed to
\* the operator, whatever answer or commit was lost on the way.
TransferSettles ==
    \A k \in TreasuryKeys :
        ledger[k] \in {"landed", "failed"} ~>
            treasury_receipts[k].status \in {"confirmed", "failed", "review_required"}

\* A transfer the phone sends is paid for once, keeps its share of the balance
\* until the chain decides, leaves the reserve and keeps to the day's cap of
\* sweeps (mobile_treasury_preflight, reserve_mobile_treasury_action,
\* load_pending_mobile_treasury_receipts).
TreasuryWithinLimits ==
    [](TreasuryPaysOnce /\ ReceiptTellsLedger) /\ ReserveHeld /\ SweepCapHolds

-----------------------------------------------------------------------------
(* Refinement *)

\* What a receipt has told the phone: a pending one, one verified and one under
\* review tell nothing yet.
ReceiptTells(row) == IF row.status \in {"confirmed", "failed"} THEN row.status ELSE "nothing"

Paid == INSTANCE PaidTransfer WITH
    Keys <- TreasuryKeys,
    None <- "none",
    allowed <- [a \in Authorizations |->
        IF authorizations[a].status = "none" THEN 0 ELSE authorizations[a].max],
    paidBy <- [k \in TreasuryKeys |-> treasury_receipts[k].auth],
    amount <- [k \in TreasuryKeys |-> treasury_receipts[k].amount],
    chain <- [k \in TreasuryKeys |-> ledger[k]],
    told <- [k \in TreasuryKeys |-> ReceiptTells(treasury_receipts[k])]

\* The phone's transfers are those of PaidTransfer: paid for by one authorization
\* within what it allows, sent once, told as the chain decided and never
\* otherwise after that (reserve_mobile_treasury_action, _request_treasury,
\* reconcile_mobile_treasury_action).
ImplementsPaidTransfer == Paid!Spec
=============================================================================
