# CryptoARC v2 in TLA+

TLA+ models of the parts of CryptoARC v2 where order, restarts, lost answers and
overlapping calls matter, with TLC instances that check them and TLAPS proofs of
most of the safety properties for every instance. CryptoARC is a FastAPI backend
(`src/backend/app`), a signer daemon (`src/tools`), a React desktop
(`src/frontend`) and an Expo phone app (`src/mobile`) that detect token launches
on Solana, trade them on paper and, behind many gates, for real.

## 1. Inventory

| Component | State it keeps | Operations | What is hard |
|---|---|---|---|
| Live execution control plane (`core/state.py` 8000-11600) | `live_intents`, `live_execution_audits`, `live_ledger_positions`, settings | create, generate, quote, simulate, submit, confirm, poll, recover, reconcile | several commits per handler, the signer's answer may be lost, four callers confirm one transaction |
| Guarded mobile actions (`mobile/service.py` 600-1470) | `mobile_action_receipts`, claims on audits | approve, close, reject, adjust exit, poll a receipt | idempotency keys, versions, at most one dispatch |
| Source tasks and bot loop (`main.py` 419-981) | `source_task`, `source_key`, `launch_queue`, `state.status` | loop, start, stop, recover, change settings | globals are read before an await and written after it |
| Paper trading (`core/state.py` 2128-2956, `core/paper_trader.py`) | deque of tokens; `tokens`, `trades`, `trade_sessions` | drain, buy, observe a trade, tick, sell, recover | three commits per position, a deque of 80 that forgets |
| Launch and trade feeds (`core/sources.py`) | subscriptions of the paid stream, evidence of access | subscribe, evict, prefer, reconnect | two sides of a socket that must agree |
| Mobile treasury (`state.py` 672-1646, `service.py` 252-565, `storage.py` 3495-3703, 4314-4477) | authorizations, previews, receipts, audits | authorize, preview, request, execute, poll, recover | reservation, broadcast and record are separate commits |
| Pairing, sessions, websocket tickets (`state.py` 270-395, `storage.py` 2841-3031, `service.py` 1632-1735, `main.py` 365-583, 2182) | pairings, devices, tickets, sockets | pair, claim, check a token, revoke, connect, broadcast | one use, expiry, revocation while connected |
| Notification outbox (`storage.py` 3033-3266, `service.py` 1861-1945) | registrations, deliveries | register, take over, reserve, send, finish | delivered and not recorded; leases |
| Autonomous pilot (`state.py` 9868-10066, 11943-12273, `core/autonomous_pilot.py`, `core/pilot_risk.py`, `core/post_pilot_review.py`) | policies, windows, reviews, loss ledger | tick, submit, book, count, stop, review | gates read earlier, stops that must survive a restart |
| Shadow tracking (`state.py` 2388-2607, 6396-6747, `storage.py` 1480-2023) | observations, candidates, captures, bindings, comparisons | promote, capture, bind, expire, complete | late events, a version that changes, four rows per candidate |
| Trade review queue (`storage.py` 2189-2411, `grading_worker.py`) | jobs, grades, budget | enqueue, claim, finish, fail | leases, workers that die, a bounded queue |
| Strategy selection, sentinel, workload (`core/strategy_candidates.py`, `core/sentinel.py`, `core/workload_governor.py`) | validations, promotions, selection, verdict, shed work | propose, validate, promote, assess, shed | verdicts that outlive their settings, late retries |
| Backup and restore (`storage.py` 1168-1456, `state.py` 13902-14521) | the database file, copies, history | back up, restore, roll back | failures and stops around the swap |
| Signer daemon (`src/tools/local_signer_daemon.py`) | the shared health probe | answer /health | threads that meet at a lock and an event |
| Phone session (`src/mobile/src/core/session`) | two slots and a control record in the secure store | load, migrate, replace, clear, revoke | writes that fail with their effect, kills, overlapping calls |
| Phone realtime (`src/mobile/src/core/connectivity`) | client, socket, sequence | connect, reduce an envelope, reconnect, revoke | late answers, overlapping broadcasts |
| Authentication, reports, scoring, user interfaces | sessions, derived numbers | log in, report, render | sequential code, floats, wording |

How they interact. HTTP handlers, the phone's router, the bot loop (0.5 to 4 s),
the audit poller (15 s) and the latency probe are coroutines of one event loop.
Handlers of the control plane, the treasury, the pilot and shadow tracking call
synchronous code, so they never interleave; they share SQLite rows and
`BotState`, and what separates their steps is a stop of the process between two
commits. What does interleave is what awaits (source tasks, broadcasts, the paid
stream, everything on the phone), what runs in threads (the check of a token, the
daemon's requests) and what runs in other processes (grading workers). The phone
learns the outcome of an action by polling its receipt, which makes the backend
recover the audit behind it. Signer, chain, feeds, secure store and clock are
outside; their actions are marked external in the map.

What makes each correct, and where, is in `PROJECT.json` under `hazards`.

## 2. Modules

| Module | What it models |
|---|---|
| `LiveExecution`, `GuardedDispatch` | the control plane with the guarded actions, and what these promise: claim once, start once, call once |
| `SourceRuntime` | source tasks, bot loop and the requests that start and stop them |
| `PaperTrading` | the paper positions the bot loop drains, buys, ticks and sells |
| `SourceFeeds` | the paid trade stream and the evidence of its access |
| `MobileTreasury`, `PaidTransfer` | the phone's transfers and the autonomous sweep, and what they promise: paid for once, sent once, told as it ended |
| `MobileSessions` | pairing, tokens, tickets, sockets, broadcasts |
| `NotificationOutbox` | push registrations and deliveries; implements `LeasedWork` |
| `AutonomousPilot` | policies, windows, reviews, tick, guard and loss ledger |
| `ShadowTracking` | observations, candidates, captures, comparisons |
| `TradeReviewQueue`, `LeasedWork` | the grading queue and its workers, and what a table of jobs promises workers that may be slow or die |
| `StrategySelection` | promotions, the sentinel's verdict, the shedding of work |
| `BackupRestore` | database file, copies, restore |
| `SignerDaemon` | the daemon's shared health probe |
| `PhoneSession`, `PhoneRealtime` | the phone's session and its connection |
| `LiveExecutionProofs` | theorems about `LiveExecution` and its refinement |
| `AutonomousPilotProofs`, `ShadowTrackingProofs` | theorems about one module each |
| `BotLoopProofs` | theorems about `SourceRuntime` and `PaperTrading`, and the two in `MCBotLoop` |
| `MobileProofs` | theorems about `MobileSessions` and `MobileTreasury`, and the two in `MCMobile` |
| `QueueProofs` | theorems about `TradeReviewQueue` and `NotificationOutbox`, and the four components in `MCBackend` |
| `PhoneProofs` | theorems about `PhoneSession` and `PhoneRealtime`, and the six components in `MCOperations` |
| `OperationsProofs` | theorems about `BackupRestore`, `StrategySelection`, `SignerDaemon`, `SourceFeeds` |
| `MCLiveExecution`, `MCSourceRuntime` | instances of one module each |
| `MCBotLoop`, `MCMobile`, `MCBackend`, `MCOperations` | instances of several modules side by side |

The last four put components beside each other that share no variable: a
behaviour has a `focus`, chosen at the start, and only that component moves.
Nothing is gained by interleaving them, and nothing is claimed about it.

Conventions. Variables and actions keep the names of the code. A row is a record
with a `status`; "none" is a row not there yet. A handler that commits more than
once is one action per commit, chained by a `job`, `handler` or `transfer`
variable that a restart forgets while rows stay. Variables marked *history* are
read by properties only. A counter named in `CONSTANTS` as a bound limits an
input, never a step the code takes by itself.

### Choices a reader should know

*LiveExecution.* Versions only grow and are only compared with a version read
before, so a copy somebody holds is one bit, still current, and each `version + 1`
clears it. Recovery attempts saturate one above `MaxAttempts`. One traded mint.
Checks on balances, caps, readiness and backups are free choices; the entry gate
keeps what depends on modelled rows. The signer may send and answer, with a
signature or without, send and raise, or raise without sending. The RPC may be down or
lag behind the chain, so that a landed transaction is missing or processed for a while,
but it says nothing that is not so. `live_confirm` takes any audit and believes its
caller: the history `misled` marks an audit of which a caller reported what the chain
had not decided, and "landed" and "failed" in the properties are then what he said. The
history `again` marks an audit that was simulated after its claim.

*SourceRuntime.* An action runs from one await to the next. The identities of
finished tasks are used again. `Patient` is the operator who sends no request while
a coroutine waits for a cancelled task, and lets the loop replace a source whose
settings he changed; the code enforces neither, and `runtime_orphan` shows a stop
without the first.

*PaperTrading.* Whether a token is wanted, its fill succeeds, an exit holds, or the
minimum hold time still runs, for `HoldTicks` ticks at most, are inputs; while it runs,
only the guard on rejected prices closes a position. Any of the three writes of a position may raise; `cut` remembers the tokens
to which that happened, and the properties say what they then promise of them.

*MobileTreasury.* Withdrawal, profit sweep and rent recovery are kinds of one
transfer whose fields decide which audits, caps and reserves apply. Amounts are
units of SOL; `WalletBalance` follows the ledger.

*MobileSessions.* A token is checked in two transactions of a thread; tickets,
sockets and the senders' loops live on the event loop and are forgotten by a restart.
A socket that is refused its first update, or whose phone is revoked, is sent an
invalidate and then closed, each at an await of its own.

*AutonomousPilot.* `world_ok` is the conjunction of the gates that depend on
nothing in the module. Gains and losses are whole units; the session's stop and the
day's are the code's thresholds on them, with the mark of the open position counted in.
Evidence, readiness and policy of a window, and the window and verdict of a review, are
the caller's dicts, which nothing checks against a table; the review and the decision a
new window waits for are read from storage (`state.py:12107`). Nothing in the repository
records an opened window: the action that does is external.

*ShadowTracking.* An event keeps the time it was received and gets its version when
it is ingested. A candidate's rows are written in the code's transactions. One call of
`generate_live_intents` reads the free slots and the mints at hand once, and then
promotes token after token; the cap is that of the settings version it runs under.

*BackupRestore.* A database is its content, its switches, its phones, its debt and
the last entry of its history. A swap puts one record in place of another. `memory.whole`
says whether memory was loaded to the end: the load after a failed restore may raise too.

*SourceFeeds.* `book` is what the coroutine keeps, `server` what the other end
streams; `torn` marks a connection lost inside a change of candidate.

*PhoneSession.* Each write of the secure store may succeed, fail, or fail with its
effect. `settled` is what the last mutation told its caller; `strayed` marks an
overtaken call that went on.

*PhoneRealtime.* A change of the session, the network or the foreground, the render that
sees it, and the passive effect that disconnects the client there is and makes the next
are steps of their own (`session_changes`, `provider_renders`, `connection_effect`);
between them the former client goes on, and `OutOfDate` says that an effect is due. The
session changes when the provider's state does; the awaits of `replaceSession` before
that are in `PhoneSession`. A ticket may be answered at any later time; two broadcasts
may be under way.

*SignerDaemon.* One action per stretch between two points where a thread can be
stopped: a lock, the event, an answer.

## 3. Runs

Bounds are in the `.cfg` files. All configurations switch off TLC's deadlock check:
keys, quotes, restarts and faults are bounded, so the models come to rest when
they are used up, and so does the real system when nobody does anything.

| Run | Instance | What it shows |
|---|---|---|
| `live_guarded` | one sell, two audits, two keys, one restart | dispatched once, reviewed quote executed, receipts true and final, refinement of `GuardedDispatch` |
| `live_all` | every action, one audit | the inductive invariant, approved sells reach the signer |
| `live_unguarded` | a desktop buy and a browser-wallet sell, two audits | entry gate, one fill per landed transaction |
| `live_liveness` | one sell, one audit, two simulations, two keys, one restart, fairness | failures told are true, receipts settle, landed transactions are accounted for |
| `runtime_patient` | both feeds, three tasks, a queue of one event | tasks held, offline means stopped, keys true, failures told |
| `bot_loop` | one feed, two settings; three launches, a deque of two, one position | stop stops, run runs, the loop comes round; positions within their cap, rows agree and never go back, each sold in the end |
| `mobile` | two authorizations, two keys, one autonomous sweep; two phones, two tickets, two sockets; a restart each | transfers once, within limits, told truly, settled, refinement of `PaidTransfer`; codes and tickets admit once, revocation holds |
| `backend` | three audits, three windows; two tokens, two deliverers; two candidates, two shadow audits, a cap of one and then of two; two revisions, two graders | pilot accountable and stopped, alerts pushed once, evidence sound, queue sound, queue and outbox refine `LeasedWork` |
| `operations` | three faults of a restore and a stop; three mints, one or two subscriptions; two candidates; two requests, three probes; two logins and an exit; two clients and sockets, four broadcasts | restore, feed, selection, assessment, probes, session and connection sound |

The properties group what a reader asks of a component; each is a conjunction of
named parts, which the module states with the code they are about: for instance
`RestoreHolds` is `NothingIsLost`, `MemoryTellsDatabase`, `RestoredComesUpClosed` and
`RestoreClosesGate`.

Why the bounds are enough. A conflict between two callers needs two keys, phones,
requests, workers or clients; a third repeats the second. One restart cuts a handler
between any two commits; that a second one cuts the handler that takes over changes no
safety property, by the theorems, which have any number of them. Bounded caches and queues (deque, tickets, pending jobs,
subscriptions) are set so small that they overflow. Three probes are a hung one,
its successor and one more; three faults of the secure store are a write, its
read-back and its clean-up. In the `MC` modules entities that are alike are used in
the order of their names, and inputs that would only repeat a case are left out;
each such guard has its comment. `live_all` takes every action of its module, and
the proofs take all of them on any instance. The phone's connection has two focuses:
"switching", with sessions, network and screen that come and go and one broadcast, and
"listening", with one session and broadcasts that overlap, break off and restart.

Fairness. A handler that was started finishes. The cluster decides or drops, time
passes. Strong fairness of `poll_live_audits`, `action` and `normalize_live_audits`:
poller, polling and listing come round for ever, and asyncio serves them in turn
although other handlers disable them for moments; of `RpcConfirms`, since a node that
lags behind the chain catches up with it and is asked again. In `bot_loop` the event loop runs
what is ready, a wait lasts a second, a cancelled source ends in the end, and the
loop's turns go on; a source that is not cancelled owes nothing. In `mobile` the
request in flight goes on, the phone polls its receipts, and the loop and the
endpoints send: the bot loop's own broadcasts as one task, the endpoints of the sockets
together. Operators, other phones, feeds and failures owe nothing.

### Disagreements between code and documentation

| Run | What it shows |
|---|---|
| `live_entry` | an approved guarded buy is refused by the entry gate because its own claim counts as recovery debt |
| `live_crash` | a stop between "confirmed" and the fill leaves a landed transaction out of the ledger; the poller does not look at confirmed audits |
| `runtime_orphan` | a source created while stop waits is never cancelled |

### Observations

Met while modelling; the models have the behaviour, and the properties are stated so
that they say what holds beside it.

Live execution. `live_simulate` overwrites the status of any audit (`state.py:9553`): a
second simulation of a dispatched one makes its receipt fail while the transaction may
land, where `docs/MOBILE_COCKPIT.md:75` says "Ambiguous results stay pending or require
review"; of a submitted one, hides it from the poller, so that its receipt may stay open
and its fill never be booked. `live_liveness` has the second simulation;
`FailureIsTrue`, `ReceiptsSettle` and `LandedIsAccountedUnlessRestarted` claim nothing of
an audit it came to after the claim (`again`). `live_confirm` (`state.py:9719`) asks
neither for a signature, nor for the signer mode, nor whether the chain agrees: what its
caller says is written, booked and told to the phone (`misled`). A trade in
`submitting` can be rejected from the phone (`storage.py:3755`). The retry limit is
looked at in `needs_review` only, while `docs/manual/10-wallets-and-live-trading.md:199`
says "Recovery has a bounded retry policy." A browser wallet's late signature is refused
and no audit holds it.

Paper. A raise or stop between the sold token and its trade leaves trade and session
open for good; a bought token whose row was not written is not counted by the next
drain; the operator's recovery keeps the 80 oldest.

Feeds. A send that fails inside a change of candidate leaves the stream's book and the
server apart until a restart: the preferred mint may never be streamed, or a launch is
paid for that is no candidate. A poll of the preference that raises drops a trade.
A new `SourceStatus` forgets that funding was required.

Treasury. A sweep whose audit failed or needs review leaves the day's cap; a restart
that cuts the autonomous sweep off leaves a ready audit that no check of the phone's
path looks at (`SweepCutOff`); that sweep ignores what the phone has reserved; a
withdrawal that was dropped stays reserved and "verifying".

Outbox. A token that is unregistered or taken over while the loop runs still gets the
push; a lease that runs out during a slow send gives a second one. `deliver_push_event`
has no caller in production.

Pilot. A stop between 11343 and 11344, or a reconciliation without metadata, leaves a
loss out of the ledger; manual sells are not counted; a new policy starts from zero;
after a restart an armed pilot goes on, while `docs/manual/18` line 26 says "There is
no automatic restart".

Shadow. A stop between the capture and its intent leaves an audit nobody asks for; a
stop between comparison and completion lets the candidate expire; an observation has
the version at its ingestion, not at its reception. Two tokens of one mint that qualify
in the same call of `generate_live_intents` are both promoted, since the mints at hand
are collected before its loop (`state.py:9048`) and nothing makes the mint of a token
unique (`state.py:2867`).

Review queue. A revision whose workers die each time is handed out for ever; a stop
between the trade and its enqueue, or a full queue, leaves it ungraded; a reserved
model budget is never given back.

Selection. A restart forgets `active_live_session_id` while the armed switch persists,
so that a promotion and a new risk policy pass under an armed backend
(`session_lost`); the verdict of the version before a promotion stays current; nothing
applies a promoted candidate's patch; the comparisons of all versions count in the
economic report; saving an equal validation twice raises.

Backup. An artifact that was not delivered, or a stop between history and copy, counts
as a fresh backup; a stop between swap and history may leave the gate open.

Phone. After a revocation the provider's `realtime.revoked` stays, and a newly paired
session is not connected until the app restarts. A `clearSession` that waits for the
unregistration clears the session that was saved meanwhile; a `replaceSession` that was
overtaken may write its record to the screen; a revocation during its save drops the
new pairing. A 401 for the former client that comes after the session has changed and
before the effect that disconnects that client calls `revokeSession()`, which gives up
the session there is, the new one (`ConnectionProvider.tsx:78`,
`SessionProvider.tsx:266`): `RevokedByBackendOnly` speaks of the moments at which no
effect is due. Of two overlapping broadcasts a phone ignores the one that comes late.

## 4. Proofs

Eight modules prove theorems of the specifications, for every value of the constants
that the `ASSUME` of the component allows: any sets of intents, keys, phones or tasks,
any bounds. Nothing else is assumed, but where a theorem says so. Each proof has the
same shape. The invariant wanted is not inductive, because it says nothing of a
handler that stands between two commits; an inductive one (`IndInv`, `RuntimeInv`,
`PhoneInv`, ...) adds to it what each handler in flight may rely on, and is preserved by
each action in a lemma of its own. Action properties follow from it and one step. The
comments of the modules carry the details; what follows is the idea of each.

**Live execution** (`Invariance`, from it most others). "The signer is called at most
once" needs `HandlerOwnsItsClaim` (a handler between claim and call owns its audit,
which has not been dispatched), `DispatchFollowsClaim` (nothing is dispatched before it
was claimed and marked) and `HandlerFits` (what the handler carries suits its next
step). "The reviewed quote is executed" needs `CurrentReviewIsExact`: a version that is
still current has still the quote that was reviewed, which is where every `version + 1`
of the code counts. "Receipts are true" and "the ledger is sound" need
`ConfirmedHasLanded`, `FailedHasFailed` and `ClaimedStaysInFlight`: no status but a
second simulation takes a claimed audit back before its transaction was settled. So
`FailureToldIsTrue` speaks of audits not simulated after their claim, and all three
theorems of audits no caller of `live_confirm` has misreported. That a claim reaches the
signer is false for buys (`live_entry`), and `SellsReachSigner` has it for sells.
`ToldForGood` follows since a handler that will answer a phone answers
an open receipt, `EntryGateHoldsAlways` since the gate a handler has asked is still open
while it signs. For `Refinement`, only the claim, the dispatch marker and the signer
call change the three mapped variables, and each is the abstract step; the rest stutters.

**Sources** (`FailuresAreTold`, of `PatientSpec`). What a coroutine has read before its
wait is still true after it (`WaitsHold`): the task it waits for is the one its feed's
variable names, or is done with, so that no failure is let go of unreported, however late
the cancelled task fails. That tasks are held comes with it, as a lemma: under an
impatient operator, whom nothing in the code stops, it fails (`runtime_orphan`).

**Paper positions** (`PositionsAreSoundAlways`, `PaperTypeCorrect`). None of the three
parts is inductive. `PaperInv` adds that a copy in the deque is its row unless a write of
the token was cut short (`Copies`), that even then the row has not come further than the
copy (`Behind`), and that the count a drain keeps by itself has every open row in it. So
whatever a handler saves of a copy takes its row on (`RowsMoveOn`), and a tick that is
through has saved its position (`TickMovesOn`). What fell off the deque comes back from
its row, so it is a copy again (`LoadedFits`). A handler's writes are treated alike
(`ChangesWhole`): a token's own row is among them, and those of its trade and session
wherever its mark changes; `NotYetSold` says of a sale broken off by a raise which rows
it has not reached. That the deque names a token once and keeps to its length
(`DequeStaysHeld`) rests on the cap in its turn: `_ensure_active_tokens_loaded` keeps every
open position, those beyond `DequeSize` too, and these are those that count and those a
write of which was cut short.

**Feeds** (`FeedHoldsAlways`, `StreamHoldsAlways`, `AccessIsToldAlways`). `BookInv` relates
the stream's book to the server's subscriptions, and the cap is kept at every single send,
since a round of the paid stream may break off at any. The sends of a round are a fold;
what it keeps is proved by induction on the number of steps taken. A raised flag always
has its row, and a restart clears the flag and not the row (`AccessHasRow`), which is why
a report after a restart says what the last message said.

**Treasury** (`AuthorizationPaysOnce`, `ReceiptsTellLedger`, `SweepCapHoldsAlways`,
`TransfersArePaid`). An authorization that was used has one key (`TransferPlaced`); a
receipt says what its row and the chain say (`ReceiptsHold`); the cap is kept because what
the preflight looked at is still so when the transfer is sent (`SigningIsClear`), for
finitely many audits. That the reserve is untouched (`ReserveHeldAlways`) rests on
`FundsHold`: when the phone's transfer is signed, the wallet has enough for it and for all
that are on their way. The sums that takes are of `MapThenFoldSet`; that they grow with
their set is proved from its recursion, by induction over a set of subsets, since the
library's induction theorems take an operator. `PaidTransfer` sees five of the steps: the
desktop's authorization, the reservation, the broadcast, the chain's decision and the poll
that tells it. That a transfer is sent once is what `TransferPlaced` says of the chain while
a request is under way: it has not seen that transfer before the broadcast.

**Sessions** (`CredentialsAdmitOnceAlways`, `RevocationIsFinal`, `RevokedPhoneSeesNothing`).
`ClaimsHold`, `TicketsHold` and `CallsHold` say of each call under way that the row it
has read has not been used by another, or that its commit will find it used. What is
proved of a call is that its phone is current when it is admitted; a call that was
admitted before a revocation is answered.

**Queue and outbox** (`QueueHoldsAlways`, `OutboxHoldsAlways`). A revision's attempts
count its claims (`AttemptsAreClaims`). A push is explained by a claim: by its first, by a
lease that ran out, or by a push that failed (`DeliveriesHold`). Both implement
`LeasedWork`: a job is held by the worker that took it last, is taken over only when its
lease is over, and is ended by its holder only. In both a worker holds a job while the row
has its claim number. The queue needs `LeaseInv` for that: numbers are new when they are
given out (`RowMoves`, `GraderMoves`), so that a worker that was refused, or has saved its
grade, never comes to hold a job again (`NeverHeldAgain`), and whatever raises in it later
hands nothing back (`FailRefines`).

**Shadow tracking** (`EvidenceIsSoundAlways`). Each candidate's rows are those of its
version and mint (`BindingsHold`) and suit its status (`CandidatesHold`) between any two
of its commits (`JobHolds`). The cap holds because the slots a call has left and the
candidates under way are together within it at each of its saves; that the promoted
candidates are finitely many makes it speak of something. That no mint has two candidates
is not claimed, because one call may make them; each lives on a quote of its own.

**Pilot** (`PilotIsAccountableAlways`, `PilotStopsAlways`). "One position" is proved
without counting, as no two that differ (`OnePosition`), and counted at the end. A tick
between its gates and its dispatch relies on `TickFits`, the stop on `SwitchesAreSaved`:
what the process has in memory is what a restart will read, or is more careful.

**The phone** (`SessionIsDurableAlways`, `RealtimeIsSoundAlways`). `StoreFits` says what
the secure store holds at each step of the job that writes it, any write of which may
have failed; `SessionFollows` that the screen shows what was settled, or a call in
flight will put it right, or has strayed. `RealtimeInv` says of each client what its
socket, its timers and the present connection state owe each other, of the first
broadcast that it is on its way (`BaselineIsComing`), and of the snapshots heard over the
socket that none is newer than what the client shows (`HeardHolds`). A socket has the
token of the client that asked for it (`ClientsHold`), and only the present one has an
open socket (`OnlyMine`); that its token is the session's follows
whenever no effect is due, and with it that a denial concerns the session there is.

**Operations** (`RestoreHoldsAlways`, `SelectionHoldsAlways`, `AssessmentHoldsAlways`,
`ProbesSound`). A database is somewhere at each step of the restore (`NothingIsLost`) and
what is staged is closed; a verdict names its campaign, and the governor's counts are the
streaks of windows seen. "One thread asks at a time" follows from `RunningIsRegistered`:
the probe whose thread asks is the registered one. "No stale ready" needs to know how far
a warned request gets (`RequestFits`). "A finished probe is forgotten" splits on who is
due to take it off: its own thread (`ExpiredIsUnderway`) or a request that holds it
(`UnmarkedIsHeld`); the two meet in `give_up`, whose check of `done` under the lock is
what keeps both.

**Composition** (`MobileIsItsSides`, `BotLoopIsItsParts`, `BackendIsItsParts`,
`OperationsAreTheirParts`). What TLC runs of several components is a behaviour of each of
them: every action of an `MC` module is one of a component, restricted, and leaves the
others' variables alone. So the theorems about a component hold of the specification its
run checks, and the conjunctions of type invariants (`MobileTypeOK`, `BotLoopTypeOK`,
`BackendTypeOK`, `OperationsTypeOK`) are theorems too. Where an `MC` module names an entity
("the device `d1` only"), an assumption says that it is one (`MobileInstance`,
`BackendInstance`), which TLC evaluates.

Model-checked only:
- liveness, which TLAPS cannot treat without `ENABLED`: `ReceiptsSettle`,
  `LandedIsAccountedUnlessRestarted`, `StopStopsSources`, `SourceComesUp`,
  `BotLoopComesRound`, `EveryPositionEnds`, `TransferSettles`, and the part of
  `RevocationHolds` that says a revoked phone is cut off in the end;
- `ClaimReachesSigner` with buys and `StopStopsSources` under an impatient operator,
  which are false.

## 5. Not modelled

- Scoring, strategy and risk arithmetic, prices, evidence reports: pure functions on
  floats; what a gate makes of them is a free choice.
- Frame parsing, the synthetic source and the Solana log sources' own connections:
  `SourceRuntime` takes a source as a task that produces events, obeys its cancellation
  late and may fail.
- Cryptography of wallet, signer and pairing; the desktop's login, a lockout counter
  and a session table in one process.
- Migrations, which run once at start; SQLite's write-ahead log and a second process
  that has the database open during a restore.
- The phone's cached snapshot and its pending action: single records in the secure
  store with one reader and one writer.
- The order of shutdown in `lifespan`: nothing follows it in the process, and a stop at
  any point is a restart in the models.
- Rendering on desktop and phone.

## 6. Plan

What would add most next, in order:

1. The desktop's requests to the phone's router (`mobile/router.py`), which now stand in
   the models only through the services they call.
2. A promise like `PaidTransfer` for the pilot's window, "opened once, stopped for good,
   every loss counted", that `AutonomousPilot` implements where its ledger is complete.
3. Migrations, for a database that was written by an older version and restored.
