------------------------------- MODULE MCMobile -------------------------------
(* The two sides of the mobile gateway for TLC, side by side: they share no *)
(* variable, and a behaviour is about one of them, its focus.               *)
EXTENDS MobileTreasury, MobileSessions, TLC

\* The names below are among the constants, and one amount is the largest.
ASSUME MobileInstance ==
    /\ "a1" \in Authorizations /\ "p1" \in Pairings
    /\ {"d1", "d2"} \subseteq Phones /\ "w1" \in Sockets
    /\ \E n \in Amounts : \A m \in Amounts : m <= n

VARIABLE focus
vars == <<focus, treasuryVars, sessionVars>>
Treasury(A) == focus = "treasury" /\ A /\ UNCHANGED <<focus, sessionVars>>
Session(A) == focus = "sessions" /\ A /\ UNCHANGED <<focus, treasuryVars>>

\* Every variable of the two is of its type.
MobileTypeOK == TreasuryTypeOK /\ SessionsTypeOK

\* The two keys are alike, "k1" comes first.  The authorizations come in the
\* pairs that interact: through the reserve, the cap and the unresolved audits.
\* "a1" and its preview may expire.
Pairs == {<<"withdrawal", "profit_sweep">>, <<"profit_sweep", "rent_recovery">>}
AuthorizedInOrder(a, kind) ==
    IF a = "a1" THEN \E p \in Pairs : p[1] = kind
    ELSE /\ authorizations["a1"].status # "none"
         /\ <<authorizations["a1"].kind, kind>> \in Pairs
KeysInOrder(k) == k = "k2" => treasury_receipts["k1"].status # "none"

\* Pairings, phones, tickets and sockets are used in the order of their names.
\* One is revoked, the other's token expires before that, the first socket is given up
\* by its phone while no token has expired, the backend restarts while no device has
\* been revoked.  Two broadcasts do not overlap: both look up the phone before each
\* send.  A broadcast and an invalidation do.
PairingInOrder(p) ==
    p = "p2" => pairings["p1"].status # "none" /\ ~Claimable("p1")
PhoneInOrder(d) == d = "d2" => phones["d1"].status # "none"
TicketInOrder(k) == k = "t2" => \/ "t1" \in spent
                               \/ \E i \in DOMAIN ws_tickets : ws_tickets[i].id = "t1"
NoBroadcast(t) == senders[t].pass # "broadcast"
SocketInOrder(s) == s = "w2" => sockets["w1"].step # "none"
NoneExpired == \A d \in Phones : phones[d].status # "none" => phones[d].fresh
NoneRevoked == \A d \in Phones : phones[d].status # "revoked"

\* The autonomous sweep meets the withdrawal and the sweep of the first pair.
SweepsAlone == authorizations["a1"].kind = "withdrawal"
\* The RPC is out for the first key only.
Outage(t, answer) == answer = "unavailable" => t = "k1"

Largest == CHOOSE n \in Amounts : \A m \in Amounts : m <= n
AmountOf(a, n) == authorizations[a].kind = "withdrawal" => n = Largest
Answers == LedgerState \cup {"unavailable"}

Init == focus \in {"treasury", "sessions"} /\ TreasuryInit /\ SessionsInit

Next ==
    \/ \E a \in Authorizations, kind \in TreasuryKinds :
          Treasury(AuthorizedInOrder(a, kind) /\ authorize_destination(a, kind, Largest))
    \/ \E a \in Authorizations, n \in Amounts : Treasury(AmountOf(a, n) /\ preview(a, n))
    \/ Treasury(PreviewExpires("a1"))
    \/ Treasury(AuthorizationExpires("a1"))
    \/ \E k \in TreasuryKeys, a \in Authorizations, n \in Amounts :
          Treasury(KeysInOrder(k) /\ AmountOf(a, n) /\ request_treasury(k, a, n))
    \/ Treasury(execute_mobile_treasury)
    \/ Treasury(treasury_raises)
    \/ Treasury(transfer_sol)
    \/ Treasury(complete_mobile_treasury_audit)
    \/ Treasury(save_treasury_receipt)
    \/ \E k \in TreasuryKeys, answer \in Answers : Treasury(Outage(k, answer) /\ treasury_action(k, answer))
    \/ \E t \in Transfers, answer \in Answers : Treasury(Outage(t, answer) /\ recover_treasury_audit(t, answer))
    \/ \E t \in AutoSweeps : Treasury(SweepsAlone /\ maybe_run_profit_sweep(t))
    \/ Treasury(finish_profit_sweep)
    \/ \E t \in Transfers : Treasury(TransferDecided(t))
    \/ Treasury(transfer.of = "k1" /\ TreasuryCrash)
    \/ Session(NoBroadcast("handler") /\ bot_loop_broadcast)
    \/ \E t \in SenderTask, s \in Sockets : Session(send_mobile_client_update(t, s))
    \/ \E t \in SenderTask : Session(mobile_client_sent(t))
    \/ \E t \in SenderTask : Session(pass_is_over(t))
    \/ \E p \in Pairings : Session(NoBroadcast("bot_loop") /\ PairingInOrder(p) /\ start_pairing(p))
    \/ Session(pairings["p1"].status = "open" /\ PairingExpires("p1"))
    \/ \E p \in Pairings, d \in Phones, correct \in BOOLEAN :
          Session(/\ NoBroadcast("bot_loop") /\ PhoneInOrder(d) /\ (correct \/ p = "p1")
                  /\ claim_pairing(p, d, correct))
    \/ Session(session_restarts = 0 /\ NoneRevoked /\ TokenExpires("d2"))
    \/ Session(revoke_device("d1"))
    \/ \E r \in ApiCalls, d \in Phones : Session(load_mobile_device(r, d))
    \/ \E r \in ApiCalls : Session(touch_active_mobile_device(r))
    \/ \E r \in ApiCalls, k \in Tickets : Session(TicketInOrder(k) /\ issue_websocket_ticket(r, k))
    \/ Session(sockets["w1"].step = "none" /\ TicketExpires)
    \/ \E s \in Sockets, k \in Tickets : Session(SocketInOrder(s) /\ consume_websocket_ticket(s, k))
    \/ \E s \in Sockets : Session(mobile_websocket_accepted(s))
    \/ \E s \in Sockets : Session(mobile_websocket_greeted(s))
    \/ Session(NoneExpired /\ WebSocketDisconnect("w1"))
    \/ Session(NoneRevoked /\ phones["d2"].fresh /\ mobile_clients # {} /\ SessionRestart)

Fairness ==
    /\ WF_vars(Treasury(TreasuryHandlerStep))
    /\ \A k \in TreasuryKeys :
          WF_vars(Treasury(\E answer \in LedgerState : treasury_action(k, answer)))
    /\ WF_vars(Treasury(finish_profit_sweep))
    /\ WF_vars(Session(\/ NoBroadcast("handler") /\ bot_loop_broadcast
                       \/ SenderStep("bot_loop")))
    /\ WF_vars(Session(SenderStep("handler")))
    /\ WF_vars(Session(\E s \in Sockets : EndpointStep(s)))

Spec == Init /\ [][Next]_vars /\ Fairness
=============================================================================
