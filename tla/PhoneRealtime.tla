------------------------------ MODULE PhoneRealtime ------------------------------
(***************************************************************************)
(* The phone's realtime connection (mobile/src/core/connectivity) and the  *)
(* broadcasts it listens to (main.py).  After the session, the network or  *)
(* the app's foreground has changed and the change was rendered, an effect *)
(* of ConnectionProvider disconnects the MobileRealtimeClient there is and *)
(* makes the next; until then the former client goes on.  A client asks    *)
(* for a ticket, opens a socket with it, and trusts what comes once a full *)
(* cockpit has come as the socket's baseline.  The backend counts its      *)
(* broadcasts for all phones together, in memory; two of them may be       *)
(* underway at once, so that a phone may get the later one first.          *)
(*                                                                         *)
(* The session changes here when the provider's state does: the awaits of  *)
(* replaceSession and clearSession before that are in PhoneSession.        *)
(* Tickets themselves are modelled in MobileSessions: here a request is    *)
(* answered with a socket's address, with 401 for a revoked token, or not, *)
(* and an answer may be on its way for long.                               *)
(* Schema and payload faults, which this backend does not send, would be   *)
(* treated like a drifted clock.                                           *)
(***************************************************************************)
EXTENDS Naturals, Sequences

CONSTANTS
    MaxPairings,        \* bound: tokens, the first from the start
    MaxRealtimeClients, \* bound: MobileRealtimeClient objects
    MaxWires,           \* bound: websockets
    MaxSequence,        \* bound: broadcasts between two starts of the backend
    MaxTroubles         \* bound: failed requests, broken sockets, drifted messages,
                        \* backend restarts

ASSUME PhoneRealtimeAssumption ==
    /\ {MaxPairings, MaxRealtimeClients, MaxWires, MaxSequence} \subseteq Nat \ {0}
    /\ MaxTroubles \in Nat

VARIABLES
    token,              \* session.record, 0 for none
    tokens,             \* how many pairings there were
    revoked_tokens,
    visible,            \* online and in the foreground
    realtime,           \* ConnectionProvider's state
    rendered,           \* what the render saw whose effect is due
    clients,            \* every MobileRealtimeClient so far
    current,            \* clientRef, 0 for none
    wires,              \* every websocket so far, as phone and backend see it
    mobile_realtime_sequence,
    underway,           \* broadcasts that have not reached every socket yet
    troubles,
    wrongly_revoked     \* history: with no effect due, the phone gave up a session the
                        \* backend had not revoked

realtimeVars == <<token, tokens, revoked_tokens, visible, realtime, rendered, clients, current, wires,
                  mobile_realtime_sequence, underway, troubles, wrongly_revoked>>

MobileRealtimeState == [lastSequence: 0..MaxSequence, requiresSnapshot: BOOLEAN, revoked: BOOLEAN,
                        status: {"offline", "connecting", "connected", "stale", "revoked"}]
\* token_revoked: an invalidate for that reason.
Envelope == [event_type: {"cockpit", "invalidate", "token_revoked"}, sequence: 1..MaxSequence]
Rendered == [due: BOOLEAN, token: 0..MaxPairings, visible: BOOLEAN, realtime: MobileRealtimeState]
\* asked: a ticket request is out, whether the client still waits for it or not.
Client == [token: 1..MaxPairings, state: MobileRealtimeState, stopped: BOOLEAN, asked: BOOLEAN,
           requestPending: BOOLEAN, reconnectTimer: BOOLEAN, socket: 0..MaxWires]
\* heard: history, the highest number of a snapshot that came over it.
Wire == [phone: {"open", "closed"}, server: {"asked", "open", "closed"},
         token: 1..MaxPairings, awaitingBaseline: BOOLEAN, inbox: Seq(Envelope),
         heard: 0..MaxSequence]
Broadcast == [event_type: {"cockpit", "invalidate"}, sequence: 1..MaxSequence,
              to: SUBSET (1..MaxWires)]

RealtimeTypeOK ==
    /\ tokens \in 1..MaxPairings /\ token \in 0..tokens
    /\ revoked_tokens \subseteq 1..tokens
    /\ {visible, wrongly_revoked} \subseteq BOOLEAN
    /\ realtime \in MobileRealtimeState /\ rendered \in Rendered
    /\ clients \in Seq(Client) /\ Len(clients) <= MaxRealtimeClients
    /\ current \in 0..Len(clients)
    /\ wires \in Seq(Wire) /\ Len(wires) <= MaxWires
    /\ mobile_realtime_sequence \in 0..MaxSequence
    /\ underway \subseteq Broadcast
    /\ troubles \in 0..MaxTroubles

initialRealtimeState == [lastSequence |-> 0, requiresSnapshot |-> FALSE, revoked |-> FALSE,
                         status |-> "offline"]
NoRender == [due |-> FALSE, token |-> 0, visible |-> FALSE, realtime |-> initialRealtimeState]

RealtimeInit ==
    /\ token = 0 /\ tokens = 1 /\ revoked_tokens = {} /\ visible = TRUE
    /\ realtime = initialRealtimeState /\ rendered = NoRender
    /\ clients = <<>> /\ current = 0 /\ wires = <<>>
    /\ mobile_realtime_sequence = 0 /\ underway = {}
    /\ troubles = 0 /\ wrongly_revoked = FALSE

Trouble == troubles < MaxTroubles /\ troubles' = troubles + 1

-----------------------------------------------------------------------------
(* The client *)

Advanced(state, message) ==
    [state EXCEPT !.lastSequence = message.sequence, !.requiresSnapshot = FALSE, !.status = "connected"]
Stale(state) == [state EXCEPT !.requiresSnapshot = TRUE, !.status = "stale"]
Revoked(state) == [state EXCEPT !.requiresSnapshot = TRUE, !.status = "revoked", !.revoked = TRUE]
Offline(state) == [state EXCEPT !.status = "offline"]

\* Mutant: a snapshot counts in whatever order it comes.
AnyOrder(state, message, baseline) == Advanced(state, message)
\* A cockpit is a full snapshot and closes any gap; an invalidate that comes
\* out of order only says that there is one.
Cockpit(state, message, baseline) ==
    IF \/ baseline
       \/ ~baseline /\ state.requiresSnapshot /\ message.sequence >= state.lastSequence
       \/ ~baseline /\ ~state.requiresSnapshot /\ message.sequence > state.lastSequence
    THEN Advanced(state, message) ELSE state

Invalidated(state, message, baseline) ==
    IF baseline THEN Stale(state)
    ELSE IF state.requiresSnapshot \/ message.sequence <= state.lastSequence THEN state
    ELSE IF state.lastSequence > 0 /\ message.sequence > state.lastSequence + 1 THEN Stale(state)
    ELSE [Stale(state) EXCEPT !.lastSequence = message.sequence]

reduceRealtime(state, message, drifted, baseline) ==
    IF drifted THEN Stale(state)
    ELSE CASE message.event_type = "token_revoked" -> Revoked(state)
           [] message.event_type = "cockpit" -> Cockpit(state, message, baseline)
           [] message.event_type = "invalidate" -> Invalidated(state, message, baseline)

connect_client(c) ==
    IF c.state.revoked THEN c
    ELSE IF c.socket # 0 \/ c.reconnectTimer \/ c.requestPending THEN [c EXCEPT !.stopped = FALSE]
    ELSE [c EXCEPT !.stopped = FALSE, !.requestPending = TRUE, !.asked = TRUE,
                   !.state.status = "connecting"]

scheduleReconnect(c) == [c EXCEPT !.reconnectTimer = TRUE]

Stopped(c) == [c EXCEPT !.stopped = TRUE, !.requestPending = FALSE, !.reconnectTimer = FALSE, !.socket = 0]
disconnect(c) == IF c.state.revoked THEN Stopped(c) ELSE [Stopped(c) EXCEPT !.state = Offline(c.state)]
SocketClosed(ws, k) ==
    IF k = 0 THEN ws ELSE [ws EXCEPT ![k].phone = "closed", ![k].inbox = <<>>, ![k].heard = 0]

-----------------------------------------------------------------------------
(* ConnectionProvider *)

\* The dependencies of the effect are not those the present client was made for.
OutOfDate ==
    IF current = 0 THEN token # 0 /\ visible
    ELSE ~visible \/ token # clients[current].token

\* A session is loaded or replaced, the user disconnects (updateState).
session_changes(t) ==
    /\ t # token
    /\ \/ t = 0 /\ UNCHANGED tokens
       \/ t = tokens /\ t \notin revoked_tokens /\ UNCHANGED tokens
       \/ t = tokens + 1 /\ t <= MaxPairings /\ tokens' = t
    /\ token' = t
    /\ UNCHANGED <<revoked_tokens, visible, realtime, rendered, clients, current, wires,
                   mobile_realtime_sequence, underway, troubles, wrongly_revoked>>

\* The network or the foreground comes or goes.
visibility_changes ==
    /\ visible' = ~visible
    /\ UNCHANGED <<token, tokens, revoked_tokens, realtime, rendered, clients, current, wires,
                   mobile_realtime_sequence, underway, troubles, wrongly_revoked>>

\* The effects of one render run before the next.
provider_renders ==
    /\ OutOfDate /\ ~rendered.due
    /\ rendered' = [due |-> TRUE, token |-> token, visible |-> visible, realtime |-> realtime]
    /\ UNCHANGED <<token, tokens, revoked_tokens, visible, realtime, clients, current, wires,
                   mobile_realtime_sequence, underway, troubles, wrongly_revoked>>

\* The next client starts from the state that was rendered.
FreshClient ==
    LET rt == rendered.realtime
    IN  connect_client([token |-> rendered.token,
                        state |-> IF rt.requiresSnapshot THEN rt ELSE Offline(rt),
                        stopped |-> TRUE, asked |-> FALSE, requestPending |-> FALSE,
                        reconnectTimer |-> FALSE, socket |-> 0])

connection_effect ==
    LET kept == IF current = 0 THEN clients
                ELSE [clients EXCEPT ![current] = disconnect(clients[current])]
    IN  /\ rendered.due
        /\ rendered' = NoRender
        /\ wires' = IF current = 0 THEN wires ELSE SocketClosed(wires, clients[current].socket)
        /\ \/ /\ rendered.token = 0 \/ ~rendered.visible
              /\ clients' = kept /\ current' = 0
              /\ realtime' = Offline(realtime)
           \/ /\ rendered.token # 0 /\ rendered.visible
              /\ Len(clients) < MaxRealtimeClients
              /\ clients' = Append(kept, FreshClient) /\ current' = Len(clients) + 1
              /\ realtime' = FreshClient.state
        /\ UNCHANGED <<token, tokens, revoked_tokens, visible, mobile_realtime_sequence, underway,
                       troubles, wrongly_revoked>>

\* revoke and onRevoked: revokeSession gives up the session the phone has now,
\* whichever client was denied.
revoke(n, c, state) ==
    /\ clients' = [clients EXCEPT ![n] = [Stopped(c) EXCEPT !.state = state]]
    /\ realtime' = state
    /\ wires' = SocketClosed(wires, c.socket)
    /\ token' = 0
    /\ wrongly_revoked' = (wrongly_revoked \/
                              (token # 0 /\ token \notin revoked_tokens /\ ~OutOfDate))
    /\ UNCHANGED current

-----------------------------------------------------------------------------
(* What a client waits for *)

Updated(n, c) == clients' = [clients EXCEPT ![n] = c] /\ realtime' = c.state

Ignored(c) == c.stopped

openSocket(n, answer) ==
    LET c == [clients[n] EXCEPT !.asked = FALSE, !.requestPending = FALSE]
    IN  /\ clients[n].asked
        /\ answer = "denied" => c.token \in revoked_tokens
        /\ IF answer = "failed" THEN Trouble ELSE UNCHANGED troubles
        /\ \/ /\ Ignored(c)
              /\ clients' = [clients EXCEPT ![n].asked = FALSE]
              /\ UNCHANGED <<token, realtime, current, wires, wrongly_revoked>>
           \/ /\ ~Ignored(c) /\ answer = "ticket"
              /\ Len(wires) < MaxWires
              /\ wires' = Append(wires, [phone |-> "open", server |-> "asked", token |-> c.token,
                                         awaitingBaseline |-> TRUE, inbox |-> <<>>, heard |-> 0])
              /\ clients' = [clients EXCEPT ![n] = [c EXCEPT !.socket = Len(wires) + 1]]
              /\ UNCHANGED <<token, realtime, current, wrongly_revoked>>
           \/ /\ ~Ignored(c) /\ answer = "denied"
              /\ revoke(n, c, Revoked(c.state))
           \/ /\ ~Ignored(c) /\ answer = "failed"
              /\ Updated(n, scheduleReconnect([c EXCEPT !.state = Offline(c.state)]))
              /\ UNCHANGED <<token, current, wires, wrongly_revoked>>
    /\ UNCHANGED <<tokens, revoked_tokens, visible, rendered, mobile_realtime_sequence, underway>>

reconnect_timer(n) ==
    /\ clients[n].reconnectTimer
    /\ Updated(n, connect_client([clients[n] EXCEPT !.reconnectTimer = FALSE]))
    /\ UNCHANGED <<token, tokens, revoked_tokens, visible, rendered, current, wires,
                   mobile_realtime_sequence, underway, troubles, wrongly_revoked>>

onmessage(n, drifted) ==
    LET k == clients[n].socket
        message == Head(wires[k].inbox)
        baseline == wires[k].awaitingBaseline
        next == reduceRealtime(clients[n].state, message, drifted, baseline)
    IN  /\ k # 0 /\ wires[k].inbox # <<>>
        /\ IF drifted THEN Trouble ELSE UNCHANGED troubles
        /\ \/ next.revoked /\ revoke(n, clients[n], next)
           \/ /\ ~next.revoked
              /\ Updated(n, [clients[n] EXCEPT !.state = next])
              /\ wires' = [wires EXCEPT
                    ![k].inbox = Tail(@),
                    ![k].awaitingBaseline = @ /\ ~(/\ message.event_type = "cockpit"
                                                   /\ next.status = "connected"),
                    ![k].heard = IF /\ ~drifted /\ message.event_type = "cockpit"
                                    /\ message.sequence > @
                                 THEN message.sequence ELSE @]
              /\ UNCHANGED <<token, current, wrongly_revoked>>
        /\ UNCHANGED <<tokens, revoked_tokens, visible, rendered, mobile_realtime_sequence, underway>>

onerror(n) ==
    /\ clients[n].socket # 0 /\ wires[clients[n].socket].server = "closed"
    /\ Updated(n, [clients[n] EXCEPT !.state = Offline(clients[n].state)])
    /\ UNCHANGED <<token, tokens, revoked_tokens, visible, rendered, current, wires,
                   mobile_realtime_sequence, underway, troubles, wrongly_revoked>>

onclose(n) ==
    LET k == clients[n].socket
    IN  /\ k # 0 /\ wires[k].server = "closed" /\ wires[k].inbox = <<>>
        /\ wires' = SocketClosed(wires, k)
        /\ Updated(n, scheduleReconnect([clients[n] EXCEPT !.socket = 0,
                                                           !.state = Offline(clients[n].state)]))
        /\ UNCHANGED <<token, tokens, revoked_tokens, visible, rendered, current,
                       mobile_realtime_sequence, underway, troubles, wrongly_revoked>>

-----------------------------------------------------------------------------
(* The backend *)

ServerSteps == UNCHANGED <<token, tokens, visible, realtime, rendered, clients, current, wrongly_revoked>>

\* What the device is sent: a snapshot, or that it is revoked, and the close.
Sent(w, event_type, n) ==
    IF w.server # "open" THEN w
    ELSE IF w.phone = "closed" THEN [w EXCEPT !.server = "closed"]
    ELSE LET refused == event_type = "cockpit" /\ w.token \in revoked_tokens
         IN  [w EXCEPT !.inbox = Append(@, [event_type |-> IF refused THEN "token_revoked" ELSE event_type,
                                            sequence |-> n]),
                       !.server = IF refused \/ event_type = "invalidate" THEN "closed" ELSE "open"]

\* The baseline carries the present number; it takes one only if there is none.
websocket_endpoint(k) ==
    /\ wires[k].server = "asked"
    /\ \/ /\ wires[k].token \in revoked_tokens
          /\ wires' = [wires EXCEPT ![k].server = "closed"]
          /\ UNCHANGED mobile_realtime_sequence
       \/ /\ wires[k].token \notin revoked_tokens
          /\ mobile_realtime_sequence' = IF mobile_realtime_sequence = 0 THEN 1 ELSE mobile_realtime_sequence
          /\ wires' = [wires EXCEPT ![k] = Sent([wires[k] EXCEPT !.server = "open"], "cockpit",
                                                mobile_realtime_sequence')]
    /\ UNCHANGED <<revoked_tokens, underway, troubles>> /\ ServerSteps

Listeners == {k \in DOMAIN wires : wires[k].server = "open"}

\* broadcast_mobile_cockpit, invalidate_mobile_device_connections,
\* invalidate_all_mobile_connections: a number, then a send after the other.
broadcast_begins(event_type) ==
    /\ Listeners # {}
    /\ mobile_realtime_sequence < MaxSequence
    /\ \A u, v \in underway : u = v
    /\ mobile_realtime_sequence' = mobile_realtime_sequence + 1
    /\ underway' = underway \cup {[event_type |-> event_type, sequence |-> mobile_realtime_sequence + 1,
                                   to |-> Listeners]}
    /\ UNCHANGED <<revoked_tokens, wires, troubles>> /\ ServerSteps

broadcast_sends(u, k) ==
    /\ u \in underway /\ k \in u.to
    /\ wires' = [wires EXCEPT ![k] = Sent(wires[k], u.event_type, u.sequence)]
    /\ underway' = (underway \ {u}) \cup
                   (IF u.to = {k} THEN {} ELSE {[u EXCEPT !.to = u.to \ {k}]})
    /\ UNCHANGED <<revoked_tokens, mobile_realtime_sequence, troubles>> /\ ServerSteps

device_is_revoked(t) ==
    /\ t \in (1..tokens) \ revoked_tokens
    /\ revoked_tokens' = revoked_tokens \cup {t}
    /\ UNCHANGED <<wires, mobile_realtime_sequence, underway, troubles>> /\ ServerSteps

RealtimeBackendRestart ==
    /\ Trouble
    /\ mobile_realtime_sequence' = 0 /\ underway' = {}
    /\ wires' = [k \in DOMAIN wires |-> [wires[k] EXCEPT !.server = "closed"]]
    /\ UNCHANGED revoked_tokens /\ ServerSteps

WireBreaks(k) ==
    /\ Trouble
    /\ wires[k].phone = "open" /\ wires[k].server # "closed"
    /\ wires' = [wires EXCEPT ![k].server = "closed", ![k].inbox = <<>>]
    /\ UNCHANGED <<revoked_tokens, mobile_realtime_sequence, underway>> /\ ServerSteps

RealtimeNext ==
    \/ \E t \in 0..MaxPairings : session_changes(t)
    \/ visibility_changes \/ provider_renders \/ connection_effect
    \/ \E n \in DOMAIN clients :
          \/ \E answer \in {"ticket", "denied", "failed"} : openSocket(n, answer)
          \/ reconnect_timer(n) \/ onerror(n) \/ onclose(n)
          \/ \E drifted \in BOOLEAN : onmessage(n, drifted)
    \/ \E k \in DOMAIN wires : websocket_endpoint(k) \/ WireBreaks(k)
    \/ \E event_type \in {"cockpit", "invalidate"} : broadcast_begins(event_type)
    \/ \E u \in underway : \E k \in u.to : broadcast_sends(u, k)
    \/ \E t \in 1..MaxPairings : device_is_revoked(t)
    \/ RealtimeBackendRestart

RealtimeSpec == RealtimeInit /\ [][RealtimeNext]_realtimeVars

-----------------------------------------------------------------------------
(* Properties *)

MySocket == IF current = 0 THEN 0 ELSE clients[current].socket

\* The screen says connected only of a socket that is open and has had its
\* baseline, and whose next broadcast the client will not take for an old one,
\* however the backend has counted since.
ConnectedIsTrue ==
    realtime.status = "connected" =>
        /\ MySocket # 0
        /\ realtime = clients[current].state
        /\ ~wires[MySocket].awaitingBaseline
        /\ wires[MySocket].server = "open" => realtime.lastSequence <= mobile_realtime_sequence

\* A socket the backend serves, and of which every message was heard, is not
\* left waiting: its baseline counted, be it older than what was seen before a
\* restart of the backend, or its clock was off.
BaselineIsTaken ==
    MySocket # 0 /\ wires[MySocket].server = "open" /\ wires[MySocket].inbox = <<>> =>
        realtime.status \in {"connected", "stale"}

\* The screen is as new as the newest snapshot that came over its socket, in
\* whatever order the broadcasts came.
NewestIsShown ==
    realtime.status = "connected" => realtime.lastSequence = wires[MySocket].heard

\* No socket is open but the present client's, whenever its ticket was asked for,
\* and until the effect is due it is the session's.
SocketsAreHeld ==
    \A k \in DOMAIN wires :
        wires[k].phone = "open" => k = MySocket /\ (OutOfDate \/ wires[k].token = token)

\* A phone with a session, a network and the screen has something underway that
\* connects it, until it is told that it is revoked.
KeepsTrying ==
    token # 0 /\ visible /\ ~OutOfDate /\ ~realtime.revoked =>
        LET c == clients[current]
        IN  c.socket # 0 \/ c.reconnectTimer \/ (c.asked /\ c.requestPending)

\* An answer for a former session does not cost the phone its present one, unless
\* it comes before the effect that would have disconnected who asked.
RevokedByBackendOnly == ~wrongly_revoked

\* What the screen says of the connection is so, and a connection that is due
\* is held or sought (reduceRealtime, MobileRealtimeClient, ConnectionProvider).
RealtimeIsSound ==
    /\ ConnectedIsTrue /\ BaselineIsTaken /\ NewestIsShown
    /\ SocketsAreHeld /\ KeepsTrying /\ RevokedByBackendOnly
=============================================================================
