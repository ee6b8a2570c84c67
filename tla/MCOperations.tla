----------------------------- MODULE MCOperations -----------------------------
(* The rest of the backend, the signer daemon and the phone for TLC, side   *)
(* by side: the components share no variable, and a behaviour is about one  *)
(* of them, or a part of it, its focus.                                     *)
EXTENDS BackupRestore, SourceFeeds, StrategySelection, SignerDaemon, PhoneSession,
        PhoneRealtime, TLC
VARIABLE focus
phone == <<phoneVars, realtimeVars>>
vars == <<focus, backupVars, feedVars, selectionVars, signerVars, phone>>
Alone(f, A, others) == focus \in f /\ A /\ UNCHANGED <<focus, others>>
Backup(A) == Alone({"backup"}, A, <<feedVars, selectionVars, signerVars, phone>>)
Feeds(A) == Alone({"stream", "access"}, A, <<backupVars, selectionVars, signerVars, phone>>)
Selection(A) == Alone({"choice", "verdict", "pressure"}, A, <<backupVars, feedVars, signerVars, phone>>)
Signer(A) == Alone({"signer"}, A, <<backupVars, feedVars, selectionVars, phone>>)
Backend == <<backupVars, feedVars, selectionVars, signerVars>>
Session(A) == Alone({"session"}, A, <<Backend, realtimeVars>>)
Realtime(A) == Alone({"switching", "listening"}, A, <<Backend, phoneVars>>)

\* Every variable of these components is of its type.
OperationsTypeOK ==
    /\ BackupTypeOK /\ FeedsTypeOK /\ SelectionTypeOK /\ SignerTypeOK
    /\ PhoneTypeOK /\ RealtimeTypeOK

\* The first copy is made of a database that a start and live trading may have
\* gone over, and is the only one delivered; later backups are of a restored one.
FirstCopy == copies = {}
Started == memory.running \/ (FirstCopy /\ memory.armed)

\* "stream" has the book and its connections without messages, "access" the
\* messages without candidates and lost connections.
Streaming == focus = "stream"

\* "choice" has the promotions and the sessions, "verdict" the sentinel, the
\* evidence and the settings with one candidate to choose, "pressure" the rest.
Choosing == focus = "choice"
Judging == focus = "verdict"
Chosen(c) == Choosing \/ (Judging /\ c = "k1")
Pressed == focus = "pressure"
TrialOutcomes ==
    {[replay |-> TRUE, walk_forward |-> TRUE, shadow |-> TRUE, incumbent |-> TRUE, sample |-> 1],
     [replay |-> TRUE, walk_forward |-> TRUE, shadow |-> TRUE, incumbent |-> TRUE, sample |-> 2],
     [replay |-> TRUE, walk_forward |-> TRUE, shadow |-> FALSE, incumbent |-> TRUE, sample |-> 1]}

\* A malformed answer is to a request one more way to fail: the first probe has it.
ProbeResult(p, result) == result = "malformed" => p = 1

\* The logins come in the order of their names.
LoginInOrder(r) == r = "l2" => calls["l1"].step # "none"

\* "switching" has the sessions, the network and the screen that come and go, with
\* one broadcast, "listening" one session and broadcasts that overlap.
Switching == focus = "switching"

\* Of the phones' tokens the first is revoked, before or after it was replaced;
\* the last broadcast may invalidate all connections.
EventType(event_type) ==
    IF Switching THEN event_type = "cockpit" /\ mobile_realtime_sequence = 1 /\ troubles = 0
    ELSE event_type = "invalidate" => mobile_realtime_sequence = MaxSequence - 1
Smooth == Switching => troubles = 0

Init ==
    /\ focus \in {"backup", "stream", "access", "choice", "verdict", "pressure", "signer",
                   "session", "switching", "listening"}
    /\ BackupInit /\ FeedsInit /\ SelectionInit /\ SignerInit /\ PhoneInit /\ RealtimeInit
    /\ focus # "session" => store.legacy = "none" /\ store.a = "none"
    /\ focus \notin {"stream", "access"} => max_trade_subscriptions = 1

Next ==
    \/ \E debt \in BOOLEAN : Backup(database_is_written(debt))
    \/ \E on \in BOOLEAN : Backup((on => FirstCopy) /\ switch_live(on))
    \/ Backup(FirstCopy /\ pair_phone)
    \/ Backup(Started /\ start_or_stop)
    \/ Backup(clear_data)
    \/ Backup((FirstCopy \/ database.restored) /\ create_backup_artifact)
    \/ \E outcome \in {"delivered", "discarded", "failed"} :
          Backup((outcome = "delivered" <=> FirstCopy) /\ backup_artifact(outcome))
    \/ Backup(FirstCopy /\ backup)
    \/ Backup(save_backup_history)
    \/ \E copy \in copies : Backup(stage_restore(copy))
    \/ Backup(create_restore_safety_backup)
    \/ Backup(replace_database)
    \/ Backup(reload_from_storage)
    \/ Backup(save_restore_history)
    \/ \E reloads \in BOOLEAN : Backup(restore_fails(reloads))
    \/ \E reloads \in BOOLEAN : Backup(rollback_fails(reloads))
    \/ Backup(BackupStop)
    \/ Feeds(_queue_trade_subscription)
    \/ \E m \in 0..Launched : Feeds(Streaming /\ candidate_changes(m))
    \/ \E readable \in BOOLEAN : Feeds((Streaming \/ readable) /\ begin_connection(readable))
    \/ Feeds(first_launch)
    \/ \E succeeds \in BOOLEAN : Feeds((Streaming \/ succeeds) /\ connect(succeeds))
    \/ \E launch \in BOOLEAN, poll \in {"none", "answers", "raises"}, event \in Events :
          Feeds((Streaming => event = "none") /\ poll_or_receive(launch, poll, event))
    \/ Feeds(Streaming /\ connection_lost)
    \/ Feeds(backoff_is_over)
    \/ \E saved \in BOOLEAN : Feeds(ingest_source_event(saved))
    \/ \E cap \in Caps : Feeds(FeedsRestart(cap))
    \/ \E c \in StrategyCandidates : Selection(Chosen(c) /\ propose_strategy_candidate(c))
    \/ \E c \in StrategyCandidates, trial \in Trials :
          Selection(Chosen(c) /\ (Judging => trial.shadow /\ trial.sample = 1)
                    /\ save_candidate_validation(c, trial))
    \/ \E c \in StrategyCandidates, i \in Intents :
          Selection(Chosen(c) /\ (Judging => i = "i1") /\ promote_strategy_candidate(c, i))
    \/ Selection(Choosing /\ arm_backend_session)
    \/ Selection(Choosing /\ start_live_session)
    \/ Selection(Choosing /\ disarm_backend_session)
    \/ Selection(Choosing /\ lock_hot_wallet)
    \/ Selection(Judging /\ settings_change)
    \/ \E enabled \in BOOLEAN :
          Selection((Choosing \/ (Pressed /\ enabled)) /\ selection_restart(enabled))
    \/ \E state \in {"blocked", "ready"} : Selection(Judging /\ observe_source(state))
    \/ \E result \in {"few", "losing", "proven"} :
          Selection(Judging /\ complete_comparisons(result))
    \/ Selection(Judging /\ evidence_ages)
    \/ \E operations \in {"unsampled", "warning", "ready"} :
          Selection((Judging \/ (Pressed /\ operations = "warning" /\ verdict = NoVerdict))
                    /\ refresh_sentinel_verdict(operations))
    \/ Selection(Judging /\ verdict_expires)
    \/ \E pressured \in BOOLEAN : Selection(Pressed /\ workload_pressure(pressured))
    \/ \E r \in HealthRequests : Signer(get_or_start_rpc_health_probe(r))
    \/ \E r \in HealthRequests : Signer(expired_is_refused(r))
    \/ \E r \in HealthRequests : Signer(wait(r))
    \/ \E r \in HealthRequests : Signer(give_up(r))
    \/ \E r \in HealthRequests : Signer(probe_is_done(r))
    \/ \E r \in HealthRequests : Signer(submission_readiness(r))
    \/ \E p \in Probes, result \in {"ok", "failed", "malformed"} :
          Signer(ProbeResult(p, result) /\ run_rpc_health_probe(p, result))
    \/ \E p \in Probes : Signer(probe_thread_ends(p))
    \/ \E r \in Logins : Session(LoginInOrder(r) /\ replaceSession(r))
    \/ \E x \in Exits, revoked \in BOOLEAN : Session(clearSession(x, revoked))
    \/ \E x \in Exits : Session(clear_is_due(x))
    \/ Session(mutation_begins)
    \/ \E r \in Logins : Session(save(r))
    \/ \E x \in Exits : Session(clear(x))
    \/ Session(loadOrMigrate)
    \/ Session(mutation_ends)
    \/ \E r \in Logins : Session(replaced_is_forgotten(r))
    \/ Session(PhoneKill)
    \/ \E t \in 0..MaxPairings : Realtime((Switching \/ token = 0) /\ session_changes(t))
    \/ Realtime(Switching /\ token # 0 /\ visibility_changes)
    \/ Realtime(provider_renders)
    \/ Realtime(connection_effect)
    \/ \E n \in DOMAIN clients, answer \in {"ticket", "denied", "failed"} :
          Realtime((answer = "failed" => Smooth) /\ openSocket(n, answer))
    \/ \E n \in DOMAIN clients : Realtime(reconnect_timer(n))
    \/ \E n \in DOMAIN clients, drifted \in BOOLEAN : Realtime((drifted => ~Switching) /\ onmessage(n, drifted))
    \/ \E n \in DOMAIN clients : Realtime(onerror(n))
    \/ \E n \in DOMAIN clients : Realtime(onclose(n))
    \/ \E k \in DOMAIN wires : Realtime(websocket_endpoint(k))
    \/ \E event_type \in {"cockpit", "invalidate"} :
          Realtime(EventType(event_type) /\ broadcast_begins(event_type))
    \/ \E u \in underway : \E k \in u.to : Realtime(broadcast_sends(u, k))
    \/ Realtime(device_is_revoked(1))
    \/ Realtime(Smooth /\ RealtimeBackendRestart)
    \/ \E k \in DOMAIN wires : Realtime(~Switching /\ WireBreaks(k))

Spec == Init /\ [][Next]_vars
=============================================================================
