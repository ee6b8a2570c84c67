---------------------------- MODULE MobileSessions ----------------------------
(***************************************************************************)
(* Pairing codes, device tokens, websocket tickets and the sockets of the  *)
(* paired phones (core/state.py, core/storage.py, mobile/service.py,       *)
(* main.py).                                                               *)
(*                                                                         *)
(* A token is checked by a synchronous dependency, in a thread of its own, *)
(* in two transactions; what follows runs on the event loop, where every   *)
(* await of a send is a point at which others run.  Two tasks may be       *)
(* sending to the sockets at once: the bot loop, and the handler of a      *)
(* pairing or a revocation.  Pairings and devices are rows; tickets,       *)
(* sockets and tasks are memory, and a restart forgets them.               *)
(*                                                                         *)
(* Scopes are fixed at pairing and compared at every use; a device without *)
(* the scope is refused like no device, and is not modelled.               *)
(***************************************************************************)
EXTENDS Naturals, Sequences, FiniteSets

CONSTANTS
    Pairings,           \* mobile_pairing_requests
    Phones,             \* mobile_devices rows a claim may create
    Tickets,            \* raw websocket tickets
    Sockets,
    ApiCalls,           \* requests with a bearer token in flight
    MaxFailedAttempts,  \* MOBILE_PAIRING_MAX_FAILED_ATTEMPTS (5)
    MaxTickets,         \* MAX_WEBSOCKET_TICKETS (512)
    MaxSessionRestarts  \* bound: restarts per behaviour

ASSUME SessionsAssumption ==
    /\ {MaxFailedAttempts, MaxTickets} \subseteq Nat \ {0}
    /\ MaxSessionRestarts \in Nat
    /\ "none" \notin Pairings \cup Phones \cup Sockets

VARIABLES
    pairings, phones,   \* rows
    ws_tickets,         \* _ws_tickets, the oldest first
    spent,              \* history: tickets that were presented
    sockets,            \* the sockets, as their endpoint sees them
    mobile_clients,     \* sockets the broadcasts go to
    api_calls,          \* calls between the check of their token and their handler
    senders,            \* the tasks in a loop over mobile_clients
    session_restarts

sessionVars == <<pairings, phones, ws_tickets, spent, sockets, mobile_clients,
                 api_calls, senders, session_restarts>>

PairingRow == [status: {"none", "open", "claimed"}, fresh: BOOLEAN,
               failed: 0..MaxFailedAttempts]
PhoneRow == [status: {"none", "active", "revoked"}, fresh: BOOLEAN,
             from: Pairings \cup {"none"}]
Ticket == [id: Tickets, phone: Phones]
\* greeting, refusing: the first update, or an invalidate, is on its way.  closed
\* also by the phone.
Socket == [step: {"none", "accepting", "greeting", "refusing", "open", "closed"},
           phone: Phones \cup {"none"}]
ApiCall == [step: {"none", "loaded", "admitted"}, phone: Phones \cup {"none"}]
SenderTask == {"bot_loop", "handler"}
\* to: sockets still to be sent to.  sending: the one whose send is awaited, invalid:
\* what it is sent is an invalidate.
\* lost: sockets found gone, to be forgotten when the loop is over.
Sender == [pass: {"none", "broadcast", "invalidate"}, to: SUBSET Sockets,
           sending: Sockets \cup {"none"}, invalid: BOOLEAN, lost: SUBSET Sockets,
           target: Phones \cup {"none"}]
NoCall == [step |-> "none", phone |-> "none"]
NotSending == [pass |-> "none", to |-> {}, sending |-> "none", invalid |-> FALSE,
               lost |-> {}, target |-> "none"]

SessionsTypeOK ==
    /\ pairings \in [Pairings -> PairingRow]
    /\ phones \in [Phones -> PhoneRow]
    /\ ws_tickets \in Seq(Ticket) /\ Len(ws_tickets) <= MaxTickets
    /\ spent \subseteq Tickets
    /\ sockets \in [Sockets -> Socket]
    /\ mobile_clients \subseteq Sockets
    /\ api_calls \in [ApiCalls -> ApiCall]
    /\ senders \in [SenderTask -> Sender]
    /\ session_restarts \in 0..MaxSessionRestarts

SessionsInit ==
    /\ pairings = [p \in Pairings |-> [status |-> "none", fresh |-> FALSE, failed |-> 0]]
    /\ phones = [d \in Phones |-> [status |-> "none", fresh |-> FALSE, from |-> "none"]]
    /\ ws_tickets = <<>>
    /\ spent = {}
    /\ sockets = [s \in Sockets |-> [step |-> "none", phone |-> "none"]]
    /\ mobile_clients = {}
    /\ api_calls = [r \in ApiCalls |-> NoCall]
    /\ senders = [t \in SenderTask |-> NotSending]
    /\ session_restarts = 0

-----------------------------------------------------------------------------
(* Broadcasting *)

\* websocket_device_status, _current_mobile_device
Current(d) == d \in Phones /\ phones[d].status = "active" /\ phones[d].fresh

HandlerFree == senders["handler"].pass = "none"

\* list(mobile_clients.items()) at the start of a loop; nothing to do without clients.
StartPass(pass, target) ==
    IF mobile_clients = {} THEN NotSending
    ELSE [pass |-> pass, to |-> mobile_clients, sending |-> "none", invalid |-> FALSE,
          lost |-> {}, target |-> target]

\* broadcast_mobile_cockpit by the bot loop.
bot_loop_broadcast ==
    /\ senders["bot_loop"].pass = "none"
    /\ mobile_clients # {}
    /\ senders' = [senders EXCEPT !["bot_loop"] = StartPass("broadcast", "none")]
    /\ UNCHANGED <<pairings, phones, ws_tickets, spent, sockets, mobile_clients,
                   api_calls, session_restarts>>

\* _send_mobile_client_update up to its await: the phone is looked up again
\* right before, and one that is revoked, expired or the target of the
\* invalidation is sent an invalidate.
Deliverable(s, target) == Current(sockets[s].phone) /\ sockets[s].phone # target

send_mobile_client_update(t, s) ==
    /\ senders[t].sending = "none"
    /\ s \in senders[t].to
    /\ senders' = [senders EXCEPT ![t].to = @ \ {s}, ![t].sending = s,
                                  ![t].invalid = ~Deliverable(s, senders[t].target)]
    /\ UNCHANGED <<pairings, phones, ws_tickets, spent, sockets, mobile_clients,
                   api_calls, session_restarts>>

\* The await returns, or raises because the socket is closed; an invalidated one is
\* closed in either case.  The await of the close lets nothing happen that the await
\* of the send does not.
mobile_client_sent(t) ==
    LET s == senders[t].sending
        gone == senders[t].invalid \/ sockets[s].step = "closed"
    IN  /\ s # "none"
        /\ senders' = [senders EXCEPT ![t].sending = "none", ![t].invalid = FALSE,
                                      ![t].lost = IF gone THEN @ \cup {s} ELSE @]
        /\ sockets' = IF gone THEN [sockets EXCEPT ![s].step = "closed"] ELSE sockets
        /\ UNCHANGED <<pairings, phones, ws_tickets, spent, mobile_clients,
                       api_calls, session_restarts>>

\* The loop is over.  revoke_device broadcasts after it has invalidated.
StillClients(t) == mobile_clients \ senders[t].lost
NextPass(t) ==
    IF senders[t].pass = "invalidate" /\ StillClients(t) # {}
    THEN [pass |-> "broadcast", to |-> StillClients(t),
          sending |-> "none", invalid |-> FALSE, lost |-> {}, target |-> "none"]
    ELSE NotSending

pass_is_over(t) ==
    /\ senders[t].pass # "none"
    /\ senders[t].to = {} /\ senders[t].sending = "none"
    /\ mobile_clients' = StillClients(t)
    /\ senders' = [senders EXCEPT ![t] = NextPass(t)]
    /\ UNCHANGED <<pairings, phones, ws_tickets, spent, sockets, api_calls,
                   session_restarts>>

-----------------------------------------------------------------------------
(* Pairing *)

\* create_mobile_pairing through start_pairing.
start_pairing(p) ==
    /\ HandlerFree
    /\ pairings[p].status = "none"
    /\ pairings' = [pairings EXCEPT ![p] = [status |-> "open", fresh |-> TRUE, failed |-> 0]]
    /\ senders' = [senders EXCEPT !["handler"] = StartPass("broadcast", "none")]
    /\ UNCHANGED <<phones, ws_tickets, spent, sockets, mobile_clients, api_calls,
                   session_restarts>>

PairingExpires(p) ==
    /\ pairings[p].fresh
    /\ pairings' = [pairings EXCEPT ![p].fresh = FALSE]
    /\ UNCHANGED <<phones, ws_tickets, spent, sockets, mobile_clients, api_calls,
                   senders, session_restarts>>

ClaimableForever(p) == pairings[p].status # "none" /\ pairings[p].fresh
Claimable(p) ==
    /\ pairings[p].status = "open"
    /\ pairings[p].fresh
    /\ pairings[p].failed < MaxFailedAttempts
\* claim_mobile_pairing_request, one transaction: a wrong code is counted.
claim_pairing(p, d, correct) ==
    /\ HandlerFree
    /\ Claimable(p)
    /\ phones[d].status = "none"
    /\ IF correct
       THEN /\ pairings' = [pairings EXCEPT ![p].status = "claimed"]
            /\ phones' = [phones EXCEPT ![d] =
                  [status |-> "active", fresh |-> TRUE, from |-> p]]
            /\ senders' = [senders EXCEPT !["handler"] = StartPass("broadcast", "none")]
       ELSE /\ pairings' = [pairings EXCEPT ![p].failed = @ + 1]
            /\ UNCHANGED <<phones, senders>>
    /\ UNCHANGED <<ws_tickets, spent, sockets, mobile_clients, api_calls,
                   session_restarts>>

\* MOBILE_TOKEN_TTL_DAYS are over.
TokenExpires(d) ==
    /\ phones[d].status # "none" /\ phones[d].fresh
    /\ phones' = [phones EXCEPT ![d].fresh = FALSE]
    /\ UNCHANGED <<pairings, ws_tickets, spent, sockets, mobile_clients, api_calls,
                   senders, session_restarts>>

\* revoke_mobile_device_and_push_registrations, then the sockets.
revoke_device(d) ==
    /\ HandlerFree
    /\ phones[d].status = "active"
    /\ phones' = [phones EXCEPT ![d].status = "revoked"]
    /\ senders' = [senders EXCEPT !["handler"] = StartPass("invalidate", d)]
    /\ UNCHANGED <<pairings, ws_tickets, spent, sockets, mobile_clients, api_calls,
                   session_restarts>>

-----------------------------------------------------------------------------
(* Calls with a token *)

\* validate_mobile_token up to its second transaction; a token that is not
\* current is refused here, and changes nothing.
load_mobile_device(r, d) ==
    /\ api_calls[r].step = "none"
    /\ Current(d)
    /\ api_calls' = [api_calls EXCEPT ![r] = [step |-> "loaded", phone |-> d]]
    /\ UNCHANGED <<pairings, phones, ws_tickets, spent, sockets, mobile_clients,
                   senders, session_restarts>>

\* touch_active_mobile_device_by_token_hash looks at the row it writes: only an
\* active one gets its last_seen_at.
WritesBackLoaded(row) == [row EXCEPT !.status = "active"]
Touched(row) == row

touch_active_mobile_device(r) ==
    LET d == api_calls[r].phone
    IN  /\ api_calls[r].step = "loaded"
        /\ phones' = [phones EXCEPT ![d] = Touched(@)]
        /\ api_calls' = [api_calls EXCEPT ![r] =
              IF Current(d) THEN [@ EXCEPT !.step = "admitted"] ELSE NoCall]
        /\ UNCHANGED <<pairings, ws_tickets, spent, sockets, mobile_clients,
                       senders, session_restarts>>

\* issue_websocket_ticket, on the event loop: a full table gives up the ticket
\* that would expire first.
Stored(table, ticket) ==
    Append(IF Len(table) >= MaxTickets THEN Tail(table) ELSE table, ticket)

issue_websocket_ticket(r, k) ==
    /\ api_calls[r].step = "admitted"
    /\ k \notin spent
    /\ \A i \in DOMAIN ws_tickets : ws_tickets[i].id # k
    /\ ws_tickets' = Stored(ws_tickets, [id |-> k, phone |-> api_calls[r].phone])
    /\ api_calls' = [api_calls EXCEPT ![r] = NoCall]
    /\ UNCHANGED <<pairings, phones, spent, sockets, mobile_clients, senders,
                   session_restarts>>

\* WEBSOCKET_TICKET_TTL_SECONDS after its issue; the oldest goes first.
TicketExpires ==
    /\ ws_tickets # <<>>
    /\ ws_tickets' = Tail(ws_tickets)
    /\ spent' = spent \cup {Head(ws_tickets).id}
    /\ UNCHANGED <<pairings, phones, sockets, mobile_clients, api_calls, senders,
                   session_restarts>>

-----------------------------------------------------------------------------
(* The websocket endpoint *)

Presented(k) == {i \in DOMAIN ws_tickets : ws_tickets[i].id = k}
WithoutTicket(i) == [j \in 1..(Len(ws_tickets) - 1) |->
                        IF j < i THEN ws_tickets[j] ELSE ws_tickets[j + 1]]

\* consume_websocket_ticket: the ticket is spent whether its phone is current or not.
consume_websocket_ticket(s, k) ==
    /\ sockets[s].step = "none"
    /\ \E i \in Presented(k) :
          /\ ws_tickets' = WithoutTicket(i)
          /\ spent' = spent \cup {k}
          /\ sockets' = [sockets EXCEPT ![s] =
                [step |-> IF Current(ws_tickets[i].phone) THEN "accepting" ELSE "closed",
                 phone |-> ws_tickets[i].phone]]
    /\ UNCHANGED <<pairings, phones, mobile_clients, api_calls, senders, session_restarts>>

\* accept returns: the socket is a client, and gets its first update if the phone is
\* still current, an invalidate otherwise.
mobile_websocket_accepted(s) ==
    /\ sockets[s].step = "accepting"
    /\ mobile_clients' = mobile_clients \cup {s}
    /\ sockets' = [sockets EXCEPT ![s].step =
          IF Deliverable(s, "none") THEN "greeting" ELSE "refusing"]
    /\ UNCHANGED <<pairings, phones, ws_tickets, spent, api_calls, senders, session_restarts>>

mobile_websocket_greeted(s) ==
    /\ \/ /\ sockets[s].step = "greeting"
          /\ sockets' = [sockets EXCEPT ![s].step = "open"]
          /\ UNCHANGED mobile_clients
       \/ /\ sockets[s].step = "refusing"
          /\ sockets' = [sockets EXCEPT ![s].step = "closed"]
          /\ mobile_clients' = mobile_clients \ {s}
    /\ UNCHANGED <<pairings, phones, ws_tickets, spent, api_calls, senders, session_restarts>>

\* The phone goes away; the endpoint notices at once or not before a send fails.
WebSocketDisconnect(s) ==
    /\ sockets[s].step \in {"accepting", "greeting", "refusing", "open"}
    /\ sockets' = [sockets EXCEPT ![s].step = "closed"]
    /\ mobile_clients' \in {mobile_clients, mobile_clients \ {s}}
    /\ UNCHANGED <<pairings, phones, ws_tickets, spent, api_calls, senders, session_restarts>>

SessionRestart ==
    /\ session_restarts < MaxSessionRestarts
    /\ session_restarts' = session_restarts + 1
    /\ spent' = spent \cup {ws_tickets[i].id : i \in DOMAIN ws_tickets}
    /\ ws_tickets' = <<>>
    /\ sockets' = [s \in Sockets |-> IF sockets[s].step = "none" THEN sockets[s]
                                     ELSE [sockets[s] EXCEPT !.step = "closed"]]
    /\ mobile_clients' = {}
    /\ api_calls' = [r \in ApiCalls |-> NoCall]
    /\ senders' = [t \in SenderTask |-> NotSending]
    /\ UNCHANGED <<pairings, phones>>

SessionsNext ==
    \/ bot_loop_broadcast
    \/ \E t \in SenderTask : \/ \E s \in Sockets : send_mobile_client_update(t, s)
                             \/ mobile_client_sent(t) \/ pass_is_over(t)
    \/ \E p \in Pairings : \/ start_pairing(p) \/ PairingExpires(p)
                           \/ \E d \in Phones, c \in BOOLEAN : claim_pairing(p, d, c)
    \/ \E d \in Phones : \/ TokenExpires(d) \/ revoke_device(d)
                         \/ \E r \in ApiCalls : load_mobile_device(r, d)
    \/ \E r \in ApiCalls : \/ touch_active_mobile_device(r)
                           \/ \E k \in Tickets : issue_websocket_ticket(r, k)
    \/ TicketExpires
    \/ \E s \in Sockets : \/ \E k \in Tickets : consume_websocket_ticket(s, k)
                          \/ mobile_websocket_accepted(s)
                          \/ mobile_websocket_greeted(s)
                          \/ WebSocketDisconnect(s)
    \/ SessionRestart

SessionsSpec == SessionsInit /\ [][SessionsNext]_sessionVars

\* What a task in a loop over the sockets does next, and a socket's endpoint.
SenderStep(t) == (\E s \in Sockets : send_mobile_client_update(t, s))
                 \/ mobile_client_sent(t) \/ pass_is_over(t)
EndpointStep(s) == mobile_websocket_accepted(s) \/ mobile_websocket_greeted(s)

-----------------------------------------------------------------------------
(* Properties *)

\* A pairing code makes one device, and none once it was guessed wrong too
\* often, whoever claims it at the same time (claim_mobile_pairing_request).
PairedOnce ==
    \A p \in Pairings :
        /\ Cardinality({d \in Phones : phones[d].from = p}) <= 1
        /\ pairings[p].failed = MaxFailedAttempts => \A d \in Phones : phones[d].from # p

\* A call that arrives with the token of a revoked or expired device is not
\* admitted, and a call that was being checked meanwhile does not bring the
\* device back (validate_mobile_token).
RevokedStaysRevoked ==
    [][\A d \in Phones :
          /\ phones[d].status = "revoked" => phones'[d].status = "revoked"
          /\ \A r \in ApiCalls :
                api_calls'[r].step = "admitted" /\ api_calls[r].step # "admitted"
                  /\ api_calls'[r].phone = d => Current(d)]_sessionVars

\* A ticket opens one socket at most, and nothing presented or expired comes
\* back into the table (consume_websocket_ticket).
TicketsAreSpent == \A i \in DOMAIN ws_tickets : ws_tickets[i].id \notin spent

\* No update is prepared for a phone that is not current, though its ticket,
\* its socket and a loop over the sockets may all be older than its revocation.
RevokedSeesNothing ==
    [][/\ \A t \in SenderTask :
             senders'[t].sending # senders[t].sending /\ senders'[t].sending # "none" =>
                senders'[t].invalid \/ Current(sockets[senders'[t].sending].phone)
       /\ \A s \in Sockets :
             sockets'[s].step = "greeting" /\ sockets[s].step # "greeting" =>
                Current(sockets[s].phone)]_sessionVars

\* The sockets of a revoked phone are closed and forgotten in the end, those
\* included that were being accepted while it was revoked.
RevokedIsCutOff ==
    \A s \in Sockets :
        sockets[s].phone # "none" /\ phones[sockets[s].phone].status = "revoked"
            ~> s \notin mobile_clients /\ sockets[s].step = "closed"

\* A pairing code and a ticket let one device, or one socket, in
\* (claim_mobile_pairing_request, consume_websocket_ticket).
CredentialsAdmitOnce == PairedOnce /\ TicketsAreSpent

\* A revoked phone stays revoked, is told nothing more, and its sockets are
\* closed in the end (validate_mobile_token, websocket_device_status,
\* broadcast_mobile_cockpit).
RevocationHolds == RevokedStaysRevoked /\ RevokedSeesNothing /\ RevokedIsCutOff
=============================================================================
