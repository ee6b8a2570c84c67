------------------------------- MODULE MCBackend -------------------------------
(* The trading side of the backend for TLC, side by side: the components    *)
(* share no variable, and a behaviour is about one of them, or a part of    *)
(* it, its focus.                                                           *)
EXTENDS AutonomousPilot, NotificationOutbox, ShadowTracking, TradeReviewQueue, TLC

ASSUME BackendInstance ==
    /\ "d1" \in PushDevices /\ "w1" \in Deliverers
    /\ "c1" \in Candidates /\ "m1" \in Mints /\ "q1" \in ShadowAudits

VARIABLE focus
vars == <<focus, pilotVars, outboxVars, shadowVars, reviewVars>>
Alone(f, A, others) == focus \in f /\ A /\ UNCHANGED <<focus, others>>
Pilot(A) == Alone({"pilot", "windows"}, A, <<outboxVars, shadowVars, reviewVars>>)
Outbox(A) == Alone({"outbox"}, A, <<pilotVars, shadowVars, reviewVars>>)
Shadow(A) == Alone({"shadow"}, A, <<pilotVars, outboxVars, reviewVars>>)
Review(A) == Alone({"review"}, A, <<pilotVars, outboxVars, shadowVars>>)

\* Every variable of these components is of its type.
BackendTypeOK == PilotTypeOK /\ OutboxTypeOK /\ ShadowTypeOK /\ ReviewTypeOK

\* "pilot" has one pass from a policy through a window to its stop, "windows"
\* the sequence of windows and their reviews without trades.
Trading == focus = "pilot"
Reviewing == focus = "windows"
\* The audits are alike and quoted in the order of their names.
PilotAuditInOrder(a) ==
    /\ a # "b1" => pilot_audits["b1"].status # "none"
    /\ a = "b3" => pilot_audits["b2"].status # "none"
\* The world and the operator turn against the pilot, and back, while a window
\* is open or was.
Opened == \E i \in DOMAIN windows : windows[i].status \in {"OPEN", "CLOSED"}
Switching == Trading /\ Opened
\* Gains tell the stops apart once something is counted, a new day too.
Turning == today' # today \/ mark' = 1 => loss_ledger # <<>>

\* "d2" has "x2" for its token, "d1" may change from "x1" to it; they register
\* while the second deliverer is idle, which does not start alone.
OneDeliverer == deliverers["w2"].step = "none"
Registers(d, t) == (d = "d2" => t = "x2") /\ OneDeliverer
DelivererInOrder(w) == IF w = "w2" THEN deliverers["w1"].step # "none" ELSE OneDeliverer

\* One trade subscription, and two of them after a change of the settings.
Subscriptions == [v \in 0..MaxShadowVersions |-> v + 1]
\* "c1" is promoted with its mint, then "c2" with another or, once the settings let
\* one call promote both, with the same; observations come for that one, the first
\* of them clean, the last with the price of an exit.
Selects == \E c \in Candidates : intents[c].status = "none"
Asks(c, m) == /\ c = "c2" => candidates["c1"].state # "none"
              /\ m = IF c = "c2" /\ strategy_version = 0 THEN "m2" ELSE "m1"
Answers(a, answer) == a = "q2" => shadow_audits["q1"].status # "none" /\ answer = "ready"
MayChange == /\ arrived = <<>>
             /\ Active = {} => market = <<>> /\ intents["c1"].status = "none"
Sighting(clean, exits) ==
    /\ exits => clean
    /\ Len(market) = 0 => clean
    /\ Len(market) = 2 => exits

Init ==
    /\ focus \in {"pilot", "windows", "outbox", "shadow", "review"}
    /\ PilotInit /\ OutboxInit /\ ShadowInit /\ ReviewInit

Next ==
    \/ Pilot(run_live_autonomy)
    \/ \E a \in PilotAudits, action \in {"buy", "sell"} :
          Pilot(Trading /\ PilotAuditInOrder(a) /\ quote_live_intent(a, action))
    \/ Pilot(live_submit)
    \/ Pilot(tick_stopped)
    \/ Pilot(tick_gives_up)
    \/ \E a \in PilotAudits : Pilot(reconcile_live_audit(a))
    \/ \E a \in PilotAudits : Pilot(recover_failed_audit(a))
    \/ \E metadata \in BOOLEAN, pnl \in {0 - 1, 1} : Pilot(append_pilot_outcome(metadata, pnl))
    \/ Pilot(manual_sell)
    \/ \E on \in BOOLEAN : Pilot(Switching /\ set_kill_switch(on))
    \/ Pilot(arm_live_backend)
    \/ Pilot(Switching /\ disarm_live_backend)
    \/ Pilot(Switching /\ update_settings)
    \/ Pilot(create_pilot_risk_policy)
    \/ \E evidence \in BOOLEAN :
          Pilot((Reviewing \/ evidence) /\ evaluate_autonomous_pilot_window(evidence))
    \/ Pilot(OpenWindowRecorded)
    \/ \E w \in DOMAIN windows, clear \in BOOLEAN :
          Pilot(Reviewing /\ close_post_pilot_review(w, clear))
    \/ \E j \in DOMAIN reviews : Pilot(Reviewing /\ record_post_pilot_decision(j))
    \/ Pilot(LatestIsOpen /\ WindowExpires)
    \/ Pilot(Switching /\ WorldTurns /\ Turning)
    \/ Pilot(Opened /\ PilotRestart)
    \/ \E d \in PushDevices, t \in PushTokens : Outbox(Registers(d, t) /\ register_push_token(d, t))
    \/ Outbox(OneDeliverer /\ unregister_push_token("d1"))
    \/ Outbox(revoke_alert_device("d1"))
    \/ \E w \in Deliverers, e \in AlertEvents : Outbox(DelivererInOrder(w) /\ deliver_push_event(w, e))
    \/ \E w \in Deliverers, t \in PushTokens, d \in PushDevices :
          Outbox(reserve_mobile_notification_delivery(w, [token |-> t, device |-> d]))
    \/ \E w \in Deliverers : Outbox(recheck_device(w))
    \/ \E w \in Deliverers, arrives, ok \in BOOLEAN : Outbox(push_sender(w, arrives, ok))
    \/ \E w \in Deliverers : Outbox(finish_mobile_notification_delivery(w))
    \/ \E e \in AlertEvents : Outbox(LeaseExpires(<<e, "d1">>))
    \/ Outbox(deliverers["w1"].step # "next" /\ DelivererDies("w1"))
    \/ Shadow(Selects /\ generate_live_intents)
    \/ \E c \in Candidates, m \in Mints : Shadow(Asks(c, m) /\ save_live_intent(c, m))
    \/ Shadow(promotion_is_over)
    \/ \E c \in Candidates, a \in ShadowAudits, answer \in {"ready", "blocked", "raises"} :
          Shadow(Answers(a, answer) /\ quote_shadow_intent(c, a, answer))
    \/ \E c \in Candidates : Shadow(discard_invalid_audit(c))
    \/ \E c \in Candidates : Shadow(track_shadow_candidate(c))
    \/ Shadow(save_quoted_intent)
    \/ Shadow(strategy_version = 0 /\ cancel_live_intent("c1"))
    \/ \E clean, exits \in BOOLEAN :
          Shadow(Sighting(clean, exits) /\ save_accepted_market_observation("m1", clean, exits))
    \/ Shadow(expire_shadow_tracking_candidates)
    \/ Shadow(save_shadow_tracking_candidate)
    \/ Shadow(bind_accepted_market_observation)
    \/ Shadow(activation_is_over)
    \/ Shadow(close_pending_shadow_audit_capture)
    \/ Shadow(complete_shadow_candidates)
    \/ Shadow(strategy_version = 0 /\ shadow_audits["q1"].status = "stale" /\ shadow_report)
    \/ \E a \in ShadowAudits, economic \in BOOLEAN : Shadow(persist_economic_comparison(a, economic))
    \/ Shadow(strategy_version = 0 /\ QuoteExpires("q1"))
    \/ Shadow(arrived = <<>> /\ EventArrives)
    \/ Shadow(Active # {} /\ TimePasses)
    \/ Shadow(MayChange /\ strategy_version_changes)
    \/ Shadow(job.step \notin {"idle", "saved"} /\ ShadowCrash)
    \/ \E r \in Revisions : Review(save_trade(r))
    \/ Review(enqueue_trade_review)
    \/ Review(BackendStops)
    \/ Review(clear_all_data)
    \/ \E w \in Graders : Review(claim_trade_review(w))
    \/ \E w \in Graders : Review(finish_trade_review(w))
    \/ \E w \in Graders : Review(fail_trade_review(w))
    \/ \E w \in Graders, tokens \in 1..2 : Review(reserve_model_budget(w, tokens))
    \/ \E w \in Graders, answers \in BOOLEAN : Review(save_model_classification(w, answers))
    \/ \E w \in Graders : Review(grading_is_done(w))
    \/ \E r \in Revisions : Review(ReviewLeaseExpires(r))
    \/ \E w \in Graders : Review(GraderDies(w))

Spec == Init /\ [][Next]_vars
=============================================================================
