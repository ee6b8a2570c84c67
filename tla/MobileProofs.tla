------------------------- MODULE MobileProofs -------------------------
(***************************************************************************)
(* Proofs about what the backend keeps for its phones: their sessions, and *)
(* the withdrawals and sweeps they may order; and about the two together,  *)
(* as MCMobile puts them beside each other.                                *)
(***************************************************************************)
EXTENDS MCMobile, FiniteSetTheorems, SequenceTheorems, WellFoundedInduction, TLAPS

-----------------------------------------------------------------------------
(***************************************************************************)
(* Proofs about MobileSessions, for any pairings, phones, tickets, sockets *)
(* and calls: a pairing code and a ticket let one in, a revoked phone      *)
(* stays revoked, and no update is prepared for it.                        *)
(*                                                                         *)
(* That a code pairs once rests on its row, which every phone made from it *)
(* has closed (ClaimsHold); that no spent ticket is in the table, on the   *)
(* table holding none twice (TicketsHold).                                 *)
(***************************************************************************)

\* A phone was made by a claim of its pairing, before too many wrong guesses, and
\* no other phone by the same one.
ClaimsHold ==
    \A d \in Phones :
        /\ phones[d].status = "none" => phones[d].from = "none"
        /\ phones[d].from # "none" =>
              /\ pairings[phones[d].from].status = "claimed"
              /\ pairings[phones[d].from].failed < MaxFailedAttempts
              /\ \A e \in Phones : phones[e].from = phones[d].from => e = d

\* The table holds no ticket twice, and none that was presented.
TicketsHold ==
    /\ TicketsAreSpent
    /\ \A i, j \in DOMAIN ws_tickets : ws_tickets[i].id = ws_tickets[j].id => i = j

\* A call that was looked up is a phone's.
CallsHold == \A r \in ApiCalls : api_calls[r].step # "none" => api_calls[r].phone \in Phones

SessionsInv == SessionsTypeOK /\ ClaimsHold /\ TicketsHold /\ CallsHold

-----------------------------------------------------------------------------
(* The operators of the model.                                             *)

\* The assumptions, in the form the steps below use them.
LEMMA SessionsConstants ==
    /\ "none" \notin Pairings /\ "none" \notin Phones /\ "none" \notin Sockets
    /\ MaxFailedAttempts \in Nat /\ MaxFailedAttempts > 0
    /\ MaxTickets \in Nat /\ MaxTickets > 0 /\ MaxSessionRestarts \in Nat
BY SessionsAssumption

\* A new pass over the sockets is one of a sending task (broadcast_mobile_cockpit).
LEMMA PassTyped ==
  ASSUME mobile_clients \subseteq Sockets, NEW pass \in {"broadcast", "invalidate"},
         NEW target \in Phones \cup {"none"}
  PROVE  StartPass(pass, target) \in Sender /\ NotSending \in Sender
         /\ StartPass(pass, target).sending = "none"
<1>1. NotSending \in Sender /\ NotSending.sending = "none"
  BY DEF NotSending, Sender
<1>2. [pass |-> pass, to |-> mobile_clients, sending |-> "none", invalid |-> FALSE,
       lost |-> {}, target |-> target] \in Sender
  BY DEF Sender
<1> QED
  BY <1>1, <1>2 DEF StartPass

\* The fields of a sending task (_send_mobile_client_update).
LEMMA SenderFields ==
  ASSUME SessionsTypeOK, NEW t \in SenderTask
  PROVE  /\ senders[t] \in Sender
         /\ senders[t].pass \in {"none", "broadcast", "invalidate"}
         /\ senders[t].to \subseteq Sockets /\ senders[t].lost \subseteq Sockets
         /\ senders[t].sending \in Sockets \cup {"none"}
         /\ senders[t].target \in Phones \cup {"none"}
BY DEF SessionsTypeOK, Sender

\* A ticket that is stored comes last, behind the others in their order
\* (issue_websocket_ticket).
LEMMA StoredTickets ==
  ASSUME NEW table \in Seq(Ticket), Len(table) <= MaxTickets, NEW ticket \in Ticket
  PROVE  /\ Stored(table, ticket) \in Seq(Ticket)
         /\ Len(Stored(table, ticket)) <= MaxTickets
         /\ Len(Stored(table, ticket)) \in Nat
         /\ Stored(table, ticket)[Len(Stored(table, ticket))] = ticket
         /\ \E c \in {0, 1} : \A i \in 1..(Len(Stored(table, ticket)) - 1) :
               i + c \in DOMAIN table /\ Stored(table, ticket)[i] = table[i + c]
<1>1. CASE Len(table) >= MaxTickets
  <2>1. Len(table) = MaxTickets /\ table # <<>> /\ Len(table) \in Nat
    BY <1>1, SessionsConstants
  <2>2. /\ Tail(table) \in Seq(Ticket) /\ Len(Tail(table)) = MaxTickets - 1
        /\ \A i \in 1..(MaxTickets - 1) : Tail(table)[i] = table[i + 1]
    BY <2>1
  <2>3. Stored(table, ticket) = Append(Tail(table), ticket)
    BY <1>1 DEF Stored
  <2>4. /\ Stored(table, ticket) \in Seq(Ticket) /\ Len(Stored(table, ticket)) = MaxTickets
        /\ Stored(table, ticket)[MaxTickets] = ticket
        /\ \A i \in 1..(MaxTickets - 1) : Stored(table, ticket)[i] = table[i + 1]
    BY <2>2, <2>3, SessionsConstants
  <2>5. \A i \in 1..(MaxTickets - 1) : i + 1 \in DOMAIN table
    BY <2>1
  <2> QED
    BY <2>4, <2>5, SessionsConstants
<1>2. CASE ~(Len(table) >= MaxTickets)
  <2>1. Stored(table, ticket) = Append(table, ticket) /\ Len(table) \in Nat
    BY <1>2 DEF Stored
  <2>2. /\ Stored(table, ticket) \in Seq(Ticket)
        /\ Len(Stored(table, ticket)) = Len(table) + 1
        /\ Stored(table, ticket)[Len(table) + 1] = ticket
        /\ \A i \in 1..Len(table) : Stored(table, ticket)[i] = table[i + 0]
    BY <2>1
  <2> QED
    BY <1>2, <2>1, <2>2, SessionsConstants
<1> QED
  BY <1>1, <1>2

\* What is left of the table without one ticket is the others, in their order
\* (consume_websocket_ticket).
LEMMA OthersStay ==
  ASSUME ws_tickets \in Seq(Ticket), Len(ws_tickets) <= MaxTickets,
         NEW i \in DOMAIN ws_tickets
  PROVE  /\ WithoutTicket(i) \in Seq(Ticket) /\ Len(WithoutTicket(i)) <= MaxTickets
         /\ DOMAIN WithoutTicket(i) = 1..(Len(ws_tickets) - 1)
         /\ \A j \in DOMAIN WithoutTicket(i) :
               /\ j < i => WithoutTicket(i)[j] = ws_tickets[j] /\ j \in DOMAIN ws_tickets
               /\ ~(j < i) => WithoutTicket(i)[j] = ws_tickets[j + 1]
                              /\ j + 1 \in DOMAIN ws_tickets
<1>1. Len(ws_tickets) \in Nat /\ Len(ws_tickets) - 1 \in Nat /\ DOMAIN ws_tickets = 1..Len(ws_tickets)
  OBVIOUS
<1>2. \A j \in 1..(Len(ws_tickets) - 1) : j \in DOMAIN ws_tickets /\ j + 1 \in DOMAIN ws_tickets
  BY <1>1
<1>3. \A k \in DOMAIN ws_tickets : ws_tickets[k] \in Ticket
  OBVIOUS
<1>4. WithoutTicket(i) \in [1..(Len(ws_tickets) - 1) -> Ticket]
  BY <1>2, <1>3 DEF WithoutTicket
<1>5. WithoutTicket(i) \in Seq(Ticket) /\ Len(WithoutTicket(i)) = Len(ws_tickets) - 1
  <2>1. WithoutTicket(i) \in Seq(Ticket)
    BY <1>1, <1>4, SeqDef
  <2> QED
    <3>1. DOMAIN WithoutTicket(i) = 1..(Len(ws_tickets) - 1)
      BY <1>4
    <3>2. /\ Len(WithoutTicket(i)) \in Nat
          /\ DOMAIN WithoutTicket(i) = 1..Len(WithoutTicket(i))
      BY <2>1, LenProperties
    <3>3. \A m, n \in Nat : 1..m = 1..n => m = n
      <4>1. \A m, n \in Nat : 1..m = 1..n /\ m < n => n \in 1..m
        BY SMT
      <4> QED
        BY <4>1, SMT
    <3> QED
      BY <1>1, <2>1, <3>1, <3>2, <3>3
<1> QED
  BY <1>1, <1>2, <1>4, <1>5, SessionsConstants DEF WithoutTicket

-----------------------------------------------------------------------------
(* Type correctness.                                                       *)

\* Nothing is paired, issued or sent at the start.
LEMMA SessionsInitially == SessionsInit => SessionsInv
<1> SUFFICES ASSUME SessionsInit PROVE SessionsInv
  OBVIOUS
<1>1. SessionsTypeOK
  <2>1. NoCall \in ApiCall /\ NotSending \in Sender
    BY DEF NoCall, ApiCall, NotSending, Sender
  <2>2. 0 \in 0..MaxFailedAttempts /\ 0 \in 0..MaxSessionRestarts /\ 0 <= MaxTickets
    BY SessionsConstants
  <2>3. ws_tickets \in Seq(Ticket) /\ Len(ws_tickets) = 0
    BY DEF SessionsInit
  <2>4. pairings \in [Pairings -> PairingRow] /\ phones \in [Phones -> PhoneRow]
        /\ sockets \in [Sockets -> Socket]
    BY <2>2 DEF SessionsInit, PairingRow, PhoneRow, Socket
  <2> QED
    BY <2>1, <2>2, <2>3, <2>4 DEF SessionsInit, SessionsTypeOK
<1>2. ClaimsHold
  BY DEF SessionsInit, ClaimsHold
<1>3. TicketsHold
  BY DEF SessionsInit, TicketsHold, TicketsAreSpent
<1>4. CallsHold
  BY DEF SessionsInit, CallsHold, NoCall
<1> QED
  BY <1>1, <1>2, <1>3, <1>4 DEF SessionsInv

\* Every step keeps every variable in its type.
LEMMA SessionsTypesNext ==
  ASSUME SessionsTypeOK, CallsHold, [SessionsNext]_sessionVars
  PROVE  SessionsTypeOK'
<1> USE DEF SessionsTypeOK
<1>0. "bot_loop" \in SenderTask /\ "handler" \in SenderTask
  BY DEF SenderTask
<1>1. CASE bot_loop_broadcast
  BY <1>0, <1>1, PassTyped DEF bot_loop_broadcast
<1>2. ASSUME NEW t \in SenderTask, NEW s \in Sockets, send_mobile_client_update(t, s)
      PROVE  SessionsTypeOK'
  <2>1. \A invalid \in BOOLEAN :
          [senders[t] EXCEPT !.to = @ \ {s}, !.sending = s, !.invalid = invalid] \in Sender
    BY SenderFields DEF Sender
  <2>2. (~Deliverable(s, senders[t].target)) \in BOOLEAN
    BY DEF Deliverable
  <2> QED
    BY <1>2, <2>1, <2>2 DEF send_mobile_client_update
<1>3. ASSUME NEW t \in SenderTask, mobile_client_sent(t)
      PROVE  SessionsTypeOK'
  <2>1. \A lost \in SUBSET Sockets :
          [senders[t] EXCEPT !.sending = "none", !.invalid = FALSE, !.lost = lost] \in Sender
    BY SenderFields DEF Sender
  <2>2. senders[t].sending \in Sockets
    BY <1>3, SenderFields DEF mobile_client_sent
  <2>3. /\ senders[t].lost \cup {senders[t].sending} \in SUBSET Sockets
        /\ senders[t].lost \in SUBSET Sockets
    BY <2>2, SenderFields
  <2>4. [sockets EXCEPT ![senders[t].sending].step = "closed"] \in [Sockets -> Socket]
    BY DEF Socket
  <2>5. CASE senders[t].invalid \/ sockets[senders[t].sending].step = "closed"
    BY <1>3, <2>1, <2>3, <2>4, <2>5 DEF mobile_client_sent
  <2>6. CASE ~(senders[t].invalid \/ sockets[senders[t].sending].step = "closed")
    BY <1>3, <2>1, <2>3, <2>6 DEF mobile_client_sent
  <2> QED
    BY <2>5, <2>6
<1>4. ASSUME NEW t \in SenderTask, pass_is_over(t)
      PROVE  SessionsTypeOK'
  <2>1. StillClients(t) \subseteq Sockets
    BY DEF StillClients
  <2>2. NextPass(t) \in Sender
    BY <2>1 DEF NextPass, NotSending, Sender
  <2> QED
    BY <1>4, <2>1, <2>2 DEF pass_is_over
<1>5. ASSUME NEW p \in Pairings, start_pairing(p)
      PROVE  SessionsTypeOK'
  <2>1. [status |-> "open", fresh |-> TRUE, failed |-> 0] \in PairingRow
    BY SessionsConstants DEF PairingRow
  <2> QED
    BY <1>0, <1>5, <2>1, PassTyped DEF start_pairing
<1>6. ASSUME NEW p \in Pairings, PairingExpires(p)
      PROVE  SessionsTypeOK'
  <2>1. [pairings[p] EXCEPT !.fresh = FALSE] \in PairingRow
    BY DEF PairingRow
  <2> QED
    BY <1>6, <2>1 DEF PairingExpires
<1>7. ASSUME NEW p \in Pairings, NEW d \in Phones, NEW c \in BOOLEAN, claim_pairing(p, d, c)
      PROVE  SessionsTypeOK'
  <2>1. pairings[p].failed \in 0..MaxFailedAttempts /\ pairings[p].failed < MaxFailedAttempts
    BY <1>7 DEF claim_pairing, Claimable, PairingRow
  <2>2. [pairings[p] EXCEPT !.status = "claimed"] \in PairingRow
        /\ [pairings[p] EXCEPT !.failed = @ + 1] \in PairingRow
    BY <2>1, SessionsConstants DEF PairingRow
  <2>3. [status |-> "active", fresh |-> TRUE, from |-> p] \in PhoneRow
    BY DEF PhoneRow
  <2> QED
    <3>1. CASE c
      <4>1. senders' \in [SenderTask -> Sender]
        BY <1>0, <1>7, <3>1, PassTyped DEF claim_pairing
      <4> QED
        BY <1>7, <2>2, <2>3, <3>1, <4>1 DEF claim_pairing
    <3>2. CASE ~c
      BY <1>7, <2>2, <3>2 DEF claim_pairing
    <3> QED
      BY <3>1, <3>2
<1>8. ASSUME NEW d \in Phones, TokenExpires(d)
      PROVE  SessionsTypeOK'
  <2>1. [phones[d] EXCEPT !.fresh = FALSE] \in PhoneRow
    BY DEF PhoneRow
  <2> QED
    BY <1>8, <2>1 DEF TokenExpires
<1>9. ASSUME NEW d \in Phones, revoke_device(d)
      PROVE  SessionsTypeOK'
  <2>1. [phones[d] EXCEPT !.status = "revoked"] \in PhoneRow
    BY DEF PhoneRow
  <2> QED
    BY <1>0, <1>9, <2>1, PassTyped DEF revoke_device
<1>10. ASSUME NEW d \in Phones, NEW r \in ApiCalls, load_mobile_device(r, d)
       PROVE  SessionsTypeOK'
  BY <1>10 DEF load_mobile_device, ApiCall
<1>11. ASSUME NEW r \in ApiCalls, touch_active_mobile_device(r)
       PROVE  SessionsTypeOK'
  <2>1. NoCall \in ApiCall /\ [api_calls[r] EXCEPT !.step = "admitted"] \in ApiCall
    BY DEF NoCall, ApiCall
  <2>2. [phones EXCEPT ![api_calls[r].phone] = Touched(@)] = phones
    BY DEF Touched
  <2> QED
    BY <1>11, <2>1, <2>2 DEF touch_active_mobile_device
<1>12. ASSUME NEW r \in ApiCalls, NEW k \in Tickets, issue_websocket_ticket(r, k)
       PROVE  SessionsTypeOK'
  <2>1. [id |-> k, phone |-> api_calls[r].phone] \in Ticket /\ NoCall \in ApiCall
    BY <1>12 DEF issue_websocket_ticket, CallsHold, Ticket, NoCall, ApiCall
  <2> QED
    BY <1>12, <2>1, StoredTickets DEF issue_websocket_ticket
<1>13. CASE TicketExpires
  <2>1. ws_tickets # <<>> /\ ws_tickets' = Tail(ws_tickets) /\ spent' = spent \cup {Head(ws_tickets).id}
    BY <1>13 DEF TicketExpires
  <2>2. Head(ws_tickets) \in Ticket /\ Tail(ws_tickets) \in Seq(Ticket)
        /\ Len(Tail(ws_tickets)) = Len(ws_tickets) - 1 /\ Len(ws_tickets) \in Nat
    BY <2>1
  <2>3. Len(ws_tickets') <= MaxTickets
    BY <2>1, <2>2, SessionsConstants
  <2> QED
    BY <1>13, <2>1, <2>2, <2>3 DEF TicketExpires, Ticket
<1>14. ASSUME NEW s \in Sockets, NEW k \in Tickets, consume_websocket_ticket(s, k)
       PROVE  SessionsTypeOK'
  <2>1. PICK i \in Presented(k) :
          /\ ws_tickets' = WithoutTicket(i)
          /\ sockets' = [sockets EXCEPT ![s] =
                [step |-> IF Current(ws_tickets[i].phone) THEN "accepting" ELSE "closed",
                 phone |-> ws_tickets[i].phone]]
    BY <1>14 DEF consume_websocket_ticket
  <2>2. i \in DOMAIN ws_tickets /\ ws_tickets[i] \in Ticket
    BY DEF Presented
  <2>3. [step |-> IF Current(ws_tickets[i].phone) THEN "accepting" ELSE "closed",
         phone |-> ws_tickets[i].phone] \in Socket
    BY <2>2 DEF Ticket, Socket
  <2> QED
    BY <1>14, <2>1, <2>2, <2>3, OthersStay DEF consume_websocket_ticket
<1>15. ASSUME NEW s \in Sockets, mobile_websocket_accepted(s)
       PROVE  SessionsTypeOK'
  <2>1. \A step \in {"greeting", "refusing"} : [sockets EXCEPT ![s].step = step] \in [Sockets -> Socket]
    BY DEF Socket
  <2> QED
    BY <1>15, <2>1 DEF mobile_websocket_accepted
<1>16. ASSUME NEW s \in Sockets, mobile_websocket_greeted(s)
       PROVE  SessionsTypeOK'
  BY <1>16 DEF mobile_websocket_greeted, Socket
<1>17. ASSUME NEW s \in Sockets, WebSocketDisconnect(s)
       PROVE  SessionsTypeOK'
  BY <1>17 DEF WebSocketDisconnect, Socket
<1>18. CASE SessionRestart
  <2>1. NoCall \in ApiCall /\ NotSending \in Sender
    BY DEF NoCall, ApiCall, NotSending, Sender
  <2>2. \A i \in DOMAIN ws_tickets : ws_tickets[i].id \in Tickets
    <3>1. \A i \in DOMAIN ws_tickets : ws_tickets[i] \in Ticket
      OBVIOUS
    <3> QED
      BY <3>1 DEF Ticket
  <2>3. ws_tickets' \in Seq(Ticket) /\ Len(ws_tickets') <= MaxTickets
    BY <1>18, SessionsConstants DEF SessionRestart
  <2>4. sockets' \in [Sockets -> Socket]
    BY <1>18 DEF SessionRestart, Socket
  <2>5. session_restarts' \in 0..MaxSessionRestarts
    BY <1>18, SessionsConstants DEF SessionRestart
  <2> QED
    BY <1>18, <2>1, <2>2, <2>3, <2>4, <2>5 DEF SessionRestart
<1>19. CASE UNCHANGED sessionVars
  BY <1>19 DEF sessionVars
<1> QED
  BY <1>1, <1>2, <1>3, <1>4, <1>5, <1>6, <1>7, <1>8, <1>9, <1>10, <1>11, <1>12,
     <1>13, <1>14, <1>15, <1>16, <1>17, <1>18, <1>19
  DEF SessionsNext

-----------------------------------------------------------------------------
(* Pairings, tickets and calls.                                            *)

\* A step that makes no phone and reopens, closes or counts against no pairing
\* of one keeps what is known of the claims.
LEMMA ClaimsKept ==
  ASSUME ClaimsHold,
         \A d \in Phones : /\ phones'[d].from = phones[d].from
                           /\ phones'[d].status = "none" => phones[d].status = "none",
         \A p \in Pairings : pairings[p].status = "claimed" =>
            pairings'[p].status = "claimed" /\ pairings'[p].failed = pairings[p].failed,
         SessionsTypeOK
  PROVE  ClaimsHold'
<1>1. \A d \in Phones : phones[d].from \in Pairings \cup {"none"}
  BY DEF SessionsTypeOK, PhoneRow
<1> QED
  BY <1>1 DEF ClaimsHold

\* A pairing code is used up by the phone it makes (claim_mobile_pairing_request).
LEMMA ClaimsNext ==
  ASSUME SessionsTypeOK, CallsHold, ClaimsHold, [SessionsNext]_sessionVars
  PROVE  ClaimsHold'
<1>1. ASSUME UNCHANGED <<pairings, phones>> PROVE ClaimsHold'
  BY <1>1 DEF ClaimsHold
<1>2. ASSUME NEW p \in Pairings, start_pairing(p)
      PROVE  ClaimsHold'
  <2>1. \A q \in Pairings : pairings[q].status = "claimed" => pairings'[q] = pairings[q]
    BY <1>2 DEF start_pairing, SessionsTypeOK
  <2> QED
    BY <1>2, <2>1, ClaimsKept DEF start_pairing
<1>3. ASSUME NEW p \in Pairings, PairingExpires(p)
      PROVE  ClaimsHold'
  <2>1. \A q \in Pairings : /\ pairings'[q].status = pairings[q].status
                            /\ pairings'[q].failed = pairings[q].failed
    BY <1>3 DEF PairingExpires, SessionsTypeOK, PairingRow
  <2> QED
    BY <1>3, <2>1, ClaimsKept DEF PairingExpires
<1>4. ASSUME NEW p \in Pairings, NEW d \in Phones, NEW c \in BOOLEAN, claim_pairing(p, d, c)
      PROVE  ClaimsHold'
  <2>1. /\ pairings[p].status = "open" /\ pairings[p].failed < MaxFailedAttempts
        /\ phones[d].status = "none"
    BY <1>4 DEF claim_pairing, Claimable
  <2>2. CASE c
    <3>1. /\ pairings'[p].status = "claimed" /\ pairings'[p].failed = pairings[p].failed
          /\ \A q \in Pairings \ {p} : pairings'[q] = pairings[q]
      BY <1>4, <2>2 DEF claim_pairing, SessionsTypeOK, PairingRow
    <3>2. /\ phones'[d].from = p /\ phones'[d].status = "active"
          /\ \A e \in Phones \ {d} : phones'[e] = phones[e]
      BY <1>4, <2>2 DEF claim_pairing, SessionsTypeOK
    <3>3. \A e \in Phones : phones[e].from # p /\ phones[e].from \in Pairings \cup {"none"}
      BY <2>1, SessionsConstants DEF ClaimsHold, SessionsTypeOK, PhoneRow
    <3>4. ASSUME NEW e \in Phones \ {d}
          PROVE  /\ phones'[e].status = "none" => phones'[e].from = "none"
                 /\ phones'[e].from # "none" =>
                       /\ pairings'[phones'[e].from].status = "claimed"
                       /\ pairings'[phones'[e].from].failed < MaxFailedAttempts
                       /\ \A f \in Phones : phones'[f].from = phones'[e].from => f = e
      <4>1. phones'[e] = phones[e] /\ phones[e].from # p
        BY <3>2, <3>3
      <4>2. phones[e].from # "none" => pairings'[phones[e].from] = pairings[phones[e].from]
        BY <3>1, <3>3
      <4>3. \A f \in Phones : phones'[f].from = phones[e].from => phones[f].from = phones[e].from
        BY <3>2, <3>3
      <4> QED
        BY <4>1, <4>2, <4>3 DEF ClaimsHold
    <3>5. \A f \in Phones : phones'[f].from = p => f = d
      BY <3>2, <3>3
    <3> QED
      BY <2>1, <3>1, <3>2, <3>4, <3>5 DEF ClaimsHold
  <2>3. CASE ~c
    <3>1. \A q \in Pairings : pairings[q].status = "claimed" => pairings'[q] = pairings[q]
      BY <1>4, <2>1, <2>3 DEF claim_pairing, SessionsTypeOK
    <3> QED
      BY <1>4, <2>3, <3>1, ClaimsKept DEF claim_pairing
  <2> QED
    BY <2>2, <2>3
<1>5. ASSUME NEW d \in Phones, TokenExpires(d)
      PROVE  ClaimsHold'
  <2>1. \A e \in Phones : phones'[e].from = phones[e].from /\ phones'[e].status = phones[e].status
    BY <1>5 DEF TokenExpires, SessionsTypeOK, PhoneRow
  <2> QED
    BY <1>5, <2>1, ClaimsKept DEF TokenExpires
<1>6. ASSUME NEW d \in Phones, revoke_device(d)
      PROVE  ClaimsHold'
  <2>1. \A e \in Phones : /\ phones'[e].from = phones[e].from
                          /\ phones'[e].status = "none" => phones[e].status = "none"
    BY <1>6 DEF revoke_device, SessionsTypeOK, PhoneRow
  <2> QED
    BY <1>6, <2>1, ClaimsKept DEF revoke_device
<1>7. ASSUME NEW r \in ApiCalls, touch_active_mobile_device(r)
      PROVE  ClaimsHold'
  <2>1. phones' = phones
    BY <1>7 DEF touch_active_mobile_device, Touched, SessionsTypeOK
  <2> QED
    BY <1>1, <1>7, <2>1 DEF touch_active_mobile_device
<1> QED
  BY <1>1, <1>2, <1>3, <1>4, <1>5, <1>6, <1>7
  DEF SessionsNext, bot_loop_broadcast, send_mobile_client_update, mobile_client_sent,
      pass_is_over, load_mobile_device, issue_websocket_ticket, TicketExpires,
      consume_websocket_ticket, mobile_websocket_accepted, mobile_websocket_greeted,
      WebSocketDisconnect, SessionRestart, sessionVars

\* A ticket that leaves the table is spent and does not come back
\* (issue_websocket_ticket, consume_websocket_ticket).
LEMMA TicketsNext ==
  ASSUME SessionsTypeOK, CallsHold, TicketsHold, [SessionsNext]_sessionVars
  PROVE  TicketsHold'
<1>1. ASSUME UNCHANGED <<ws_tickets, spent>> PROVE TicketsHold'
  BY <1>1 DEF TicketsHold, TicketsAreSpent
<1>2. Len(ws_tickets) \in Nat /\ DOMAIN ws_tickets = 1..Len(ws_tickets)
      /\ ws_tickets \in Seq(Ticket) /\ Len(ws_tickets) <= MaxTickets
  BY DEF SessionsTypeOK
<1>3. ASSUME NEW r \in ApiCalls, NEW k \in Tickets, issue_websocket_ticket(r, k)
      PROVE  TicketsHold'
  <2> DEFINE ticket == [id |-> k, phone |-> api_calls[r].phone]
             n == Len(Stored(ws_tickets, ticket))
  <2>1. ticket \in Ticket /\ ticket.id = k
    BY <1>3 DEF issue_websocket_ticket, CallsHold, Ticket
  <2>2. /\ ws_tickets' = Stored(ws_tickets, ticket) /\ spent' = spent /\ k \notin spent
        /\ \A i \in DOMAIN ws_tickets : ws_tickets[i].id # k
    BY <1>3 DEF issue_websocket_ticket
  <2> HIDE DEF ticket
  <2>3. PICK c \in {0, 1} : \A i \in 1..(n - 1) :
           i + c \in DOMAIN ws_tickets /\ ws_tickets'[i] = ws_tickets[i + c]
    BY <1>2, <2>1, <2>2, StoredTickets
  <2>4. ws_tickets'[n].id = k /\ n \in Nat /\ ws_tickets' \in Seq(Ticket)
    BY <1>2, <2>1, <2>2, StoredTickets
  <2>5. DOMAIN ws_tickets' = 1..n
    BY <2>2, <2>4
  <2> HIDE DEF n
  <2>6. \A i \in 1..n : i = n \/ i \in 1..(n - 1)
    BY <2>4
  <2>7. \A i \in 1..(n - 1) : ws_tickets'[i].id # k /\ ws_tickets'[i].id \notin spent
    BY <2>2, <2>3 DEF TicketsHold, TicketsAreSpent
  <2>8. \A i, j \in 1..(n - 1) : ws_tickets'[i].id = ws_tickets'[j].id => i = j
    <3> SUFFICES ASSUME NEW i \in 1..(n - 1), NEW j \in 1..(n - 1),
                        ws_tickets'[i].id = ws_tickets'[j].id
                 PROVE  i = j
      OBVIOUS
    <3>1. i + c = j + c
      BY <2>3 DEF TicketsHold
    <3> QED
      BY <2>4, <3>1
  <2> QED
    BY <2>2, <2>4, <2>5, <2>6, <2>7, <2>8 DEF TicketsHold, TicketsAreSpent
<1>4. CASE TicketExpires
  <2>1. /\ ws_tickets # <<>> /\ ws_tickets' = Tail(ws_tickets)
        /\ spent' = spent \cup {ws_tickets[1].id}
    BY <1>4 DEF TicketExpires
  <2>2. /\ DOMAIN ws_tickets' = 1..(Len(ws_tickets) - 1) /\ Len(ws_tickets) > 0
        /\ \A i \in 1..(Len(ws_tickets) - 1) : ws_tickets'[i] = ws_tickets[i + 1]
    BY <1>2, <2>1
  <2>3. \A i \in DOMAIN ws_tickets' : i + 1 \in DOMAIN ws_tickets /\ i + 1 # 1 /\ i \in Nat
    BY <1>2, <2>2
  <2>4. 1 \in DOMAIN ws_tickets
    BY <1>2, <2>2
  <2>5. TicketsAreSpent'
    BY <2>1, <2>2, <2>3, <2>4 DEF TicketsHold, TicketsAreSpent
  <2>6. ASSUME NEW i \in DOMAIN ws_tickets', NEW j \in DOMAIN ws_tickets',
               ws_tickets'[i].id = ws_tickets'[j].id
        PROVE  i = j
    <3>1. i + 1 = j + 1
      BY <2>2, <2>3, <2>6 DEF TicketsHold
    <3> QED
      BY <2>3, <3>1
  <2> QED
    BY <2>5, <2>6 DEF TicketsHold
<1>5. ASSUME NEW s \in Sockets, NEW k \in Tickets, consume_websocket_ticket(s, k)
      PROVE  TicketsHold'
  <2>1. PICK i \in Presented(k) : ws_tickets' = WithoutTicket(i) /\ spent' = spent \cup {k}
    BY <1>5 DEF consume_websocket_ticket
  <2>2. i \in DOMAIN ws_tickets /\ ws_tickets[i].id = k
    BY DEF Presented
  <2> DEFINE m(j) == IF j < i THEN j ELSE j + 1
  <2>3. \A j \in DOMAIN ws_tickets' : /\ m(j) \in DOMAIN ws_tickets
                                      /\ ws_tickets'[j] = ws_tickets[m(j)]
                                      /\ j \in Nat
    BY <1>2, <2>1, <2>2, OthersStay
  <2>4. \A j \in Nat : m(j) # i
    BY <1>2, <2>2
  <2>5. \A j, l \in Nat : m(j) = m(l) => j = l
    BY <1>2, <2>2
  <2> HIDE DEF m
  <2>6. TicketsAreSpent'
    BY <2>1, <2>2, <2>3, <2>4 DEF TicketsHold, TicketsAreSpent
  <2>7. \A j, l \in DOMAIN ws_tickets' : ws_tickets'[j].id = ws_tickets'[l].id => j = l
    BY <2>3, <2>5 DEF TicketsHold
  <2> QED
    BY <2>6, <2>7 DEF TicketsHold
<1>6. CASE SessionRestart
  BY <1>6 DEF SessionRestart, TicketsHold, TicketsAreSpent
<1> QED
  BY <1>1, <1>3, <1>4, <1>5, <1>6
  DEF SessionsNext, bot_loop_broadcast, send_mobile_client_update, mobile_client_sent,
      pass_is_over, start_pairing, PairingExpires, claim_pairing, TokenExpires,
      revoke_device, load_mobile_device, touch_active_mobile_device,
      mobile_websocket_accepted, mobile_websocket_greeted, WebSocketDisconnect,
      sessionVars

\* A call past the first look at its token is a phone's (validate_mobile_token).
LEMMA CallsNext ==
  ASSUME SessionsTypeOK, CallsHold, [SessionsNext]_sessionVars
  PROVE  CallsHold'
<1>1. ASSUME UNCHANGED api_calls PROVE CallsHold'
  BY <1>1 DEF CallsHold
<1>2. ASSUME NEW d \in Phones, NEW r \in ApiCalls, load_mobile_device(r, d)
      PROVE  CallsHold'
  BY <1>2 DEF load_mobile_device, CallsHold, SessionsTypeOK
<1>3. ASSUME NEW r \in ApiCalls, touch_active_mobile_device(r)
      PROVE  CallsHold'
  <2>1. /\ \A q \in ApiCalls \ {r} : api_calls'[q] = api_calls[q]
        /\ api_calls'[r].step = "none" \/ api_calls'[r].phone = api_calls[r].phone
    BY <1>3 DEF touch_active_mobile_device, NoCall, SessionsTypeOK, ApiCall
  <2> QED
    BY <1>3, <2>1 DEF touch_active_mobile_device, CallsHold
<1>4. ASSUME NEW r \in ApiCalls, NEW k \in Tickets, issue_websocket_ticket(r, k)
      PROVE  CallsHold'
  BY <1>4 DEF issue_websocket_ticket, CallsHold, NoCall, SessionsTypeOK
<1>5. CASE SessionRestart
  BY <1>5 DEF SessionRestart, CallsHold, NoCall
<1> QED
  BY <1>1, <1>2, <1>3, <1>4, <1>5
  DEF SessionsNext, bot_loop_broadcast, send_mobile_client_update, mobile_client_sent,
      pass_is_over, start_pairing, PairingExpires, claim_pairing, TokenExpires,
      revoke_device, TicketExpires, consume_websocket_ticket,
      mobile_websocket_accepted, mobile_websocket_greeted, WebSocketDisconnect,
      sessionVars

\* The invariant is inductive.
LEMMA SessionsStep == SessionsInv /\ [SessionsNext]_sessionVars => SessionsInv'
BY SessionsTypesNext, ClaimsNext, TicketsNext, CallsNext DEF SessionsInv

-----------------------------------------------------------------------------
(* Revocation.                                                             *)

\* No step takes a revocation back, nor admits a call of a phone that is not
\* current (validate_mobile_token, touch_active_mobile_device_by_token_hash).
LEMMA RevocationKept ==
  ASSUME SessionsTypeOK, [SessionsNext]_sessionVars, NEW d \in Phones
  PROVE  /\ phones[d].status = "revoked" => phones'[d].status = "revoked"
         /\ \A r \in ApiCalls :
               api_calls'[r].step = "admitted" /\ api_calls[r].step # "admitted"
                  /\ api_calls'[r].phone = d => Current(d)
<1> DEFINE Goal == /\ phones[d].status = "revoked" => phones'[d].status = "revoked"
                   /\ \A r \in ApiCalls :
                         api_calls'[r].step = "admitted" /\ api_calls[r].step # "admitted"
                            /\ api_calls'[r].phone = d => Current(d)
<1>1. ASSUME UNCHANGED <<phones, api_calls>> PROVE Goal
  BY <1>1
<1>2. ASSUME NEW p \in Pairings, NEW e \in Phones, NEW c \in BOOLEAN, claim_pairing(p, e, c)
      PROVE  Goal
  BY <1>2 DEF claim_pairing, SessionsTypeOK
<1>3. ASSUME NEW e \in Phones, TokenExpires(e)
      PROVE  Goal
  BY <1>3 DEF TokenExpires, SessionsTypeOK, PhoneRow
<1>4. ASSUME NEW e \in Phones, revoke_device(e)
      PROVE  Goal
  BY <1>4 DEF revoke_device, SessionsTypeOK, PhoneRow
<1>5. ASSUME NEW e \in Phones, NEW r \in ApiCalls, load_mobile_device(r, e)
      PROVE  Goal
  BY <1>5 DEF load_mobile_device, SessionsTypeOK
<1>6. ASSUME NEW r \in ApiCalls, touch_active_mobile_device(r)
      PROVE  Goal
  <2>1. phones' = phones
    BY <1>6 DEF touch_active_mobile_device, Touched, SessionsTypeOK
  <2>2. \A q \in ApiCalls \ {r} : api_calls'[q] = api_calls[q]
    BY <1>6 DEF touch_active_mobile_device, SessionsTypeOK
  <2>3. api_calls'[r].step = "admitted" => /\ Current(api_calls[r].phone)
                                           /\ api_calls'[r].phone = api_calls[r].phone
    BY <1>6 DEF touch_active_mobile_device, NoCall, SessionsTypeOK, ApiCall
  <2> QED
    BY <2>1, <2>2, <2>3
<1>7. ASSUME NEW r \in ApiCalls, NEW k \in Tickets, issue_websocket_ticket(r, k)
      PROVE  Goal
  BY <1>7 DEF issue_websocket_ticket, NoCall, SessionsTypeOK
<1>8. CASE SessionRestart
  BY <1>8 DEF SessionRestart, NoCall
<1>9. Goal
  BY <1>1, <1>2, <1>3, <1>4, <1>5, <1>6, <1>7, <1>8
  DEF SessionsNext, bot_loop_broadcast, send_mobile_client_update, mobile_client_sent,
      pass_is_over, start_pairing, PairingExpires, TicketExpires,
      consume_websocket_ticket, mobile_websocket_accepted, mobile_websocket_greeted,
      WebSocketDisconnect, sessionVars
<1> QED
  BY <1>9

\* Whom the next update is for was looked up in the same step
\* (_send_mobile_client_update, mobile_websocket).
LEMMA LookedUpFirst ==
  ASSUME SessionsTypeOK, [SessionsNext]_sessionVars
  PROVE  /\ \A t \in SenderTask :
               senders'[t].sending # senders[t].sending /\ senders'[t].sending # "none" =>
                  senders'[t].invalid \/ Current(sockets[senders'[t].sending].phone)
         /\ \A s \in Sockets :
               sockets'[s].step = "greeting" /\ sockets[s].step # "greeting" =>
                  Current(sockets[s].phone)
<1> DEFINE StillSends == \A t \in SenderTask :
               senders'[t].sending # senders[t].sending /\ senders'[t].sending # "none" =>
                  senders'[t].invalid \/ Current(sockets[senders'[t].sending].phone)
           StillGreets == \A s \in Sockets :
               sockets'[s].step = "greeting" /\ sockets[s].step # "greeting" =>
                  Current(sockets[s].phone)
<1>0. /\ "bot_loop" \in SenderTask /\ "handler" \in SenderTask
      /\ senders \in [SenderTask -> Sender] /\ sockets \in [Sockets -> Socket]
      /\ \A pass, target : StartPass(pass, target).sending = "none"
  BY DEF SenderTask, SessionsTypeOK, StartPass, NotSending
<1>1. ASSUME UNCHANGED <<senders, sockets>> PROVE StillSends /\ StillGreets
  BY <1>1
<1>2. CASE bot_loop_broadcast
  BY <1>0, <1>2 DEF bot_loop_broadcast
<1>3. ASSUME NEW t \in SenderTask, NEW s \in Sockets, send_mobile_client_update(t, s)
      PROVE  StillSends /\ StillGreets
  <2>1. /\ senders'[t].sending = s
        /\ senders'[t].invalid = ~Deliverable(s, senders[t].target)
        /\ \A u \in SenderTask \ {t} : senders'[u] = senders[u]
        /\ sockets' = sockets
    BY <1>0, <1>3 DEF send_mobile_client_update, Sender
  <2> QED
    BY <2>1 DEF Deliverable
<1>4. ASSUME NEW t \in SenderTask, mobile_client_sent(t)
      PROVE  StillSends /\ StillGreets
  <2>1. senders'[t].sending = "none" /\ \A u \in SenderTask \ {t} : senders'[u] = senders[u]
    BY <1>0, <1>4 DEF mobile_client_sent, Sender
  <2>2. \A s \in Sockets : sockets'[s].step \in {sockets[s].step, "closed"}
    BY <1>0, <1>4 DEF mobile_client_sent, Socket
  <2> QED
    BY <2>1, <2>2
<1>5. ASSUME NEW t \in SenderTask, pass_is_over(t)
      PROVE  StillSends /\ StillGreets
  <2>1. NextPass(t).sending = "none"
    BY DEF NextPass, NotSending
  <2> QED
    BY <1>0, <1>5, <2>1 DEF pass_is_over
<1>6. ASSUME NEW p \in Pairings, start_pairing(p)
      PROVE  StillSends /\ StillGreets
  BY <1>0, <1>6 DEF start_pairing
<1>7. ASSUME NEW p \in Pairings, NEW d \in Phones, NEW c \in BOOLEAN, claim_pairing(p, d, c)
      PROVE  StillSends /\ StillGreets
  BY <1>0, <1>7 DEF claim_pairing
<1>8. ASSUME NEW d \in Phones, revoke_device(d)
      PROVE  StillSends /\ StillGreets
  BY <1>0, <1>8 DEF revoke_device
<1>9. ASSUME NEW s \in Sockets, NEW k \in Tickets, consume_websocket_ticket(s, k)
      PROVE  StillSends /\ StillGreets
  BY <1>0, <1>9 DEF consume_websocket_ticket
<1>10. ASSUME NEW s \in Sockets, mobile_websocket_accepted(s)
       PROVE  StillSends /\ StillGreets
  BY <1>0, <1>10 DEF mobile_websocket_accepted, Deliverable, Socket
<1>11. ASSUME NEW s \in Sockets, mobile_websocket_greeted(s)
       PROVE  StillSends /\ StillGreets
  BY <1>0, <1>11 DEF mobile_websocket_greeted, Socket
<1>12. ASSUME NEW s \in Sockets, WebSocketDisconnect(s)
       PROVE  StillSends /\ StillGreets
  BY <1>0, <1>12 DEF WebSocketDisconnect, Socket
<1>13. CASE SessionRestart
  BY <1>0, <1>13 DEF SessionRestart, NotSending, Socket
<1>14. StillSends /\ StillGreets
  BY <1>1, <1>2, <1>3, <1>4, <1>5, <1>6, <1>7, <1>8, <1>9, <1>10, <1>11, <1>12, <1>13
  DEF SessionsNext, PairingExpires, TokenExpires, load_mobile_device,
      touch_active_mobile_device, issue_websocket_ticket, TicketExpires, sessionVars
<1> QED
  BY <1>14

-----------------------------------------------------------------------------
(* Theorems.                                                               *)

\* The invariant in words the properties use: a code made one phone.
LEMMA InvariantAdmitsOnce == SessionsInv => CredentialsAdmitOnce
<1> SUFFICES ASSUME SessionsInv, NEW p \in Pairings
             PROVE  /\ Cardinality({d \in Phones : phones[d].from = p}) <= 1
                    /\ pairings[p].failed = MaxFailedAttempts =>
                          \A d \in Phones : phones[d].from # p
  BY DEF SessionsInv, TicketsHold, CredentialsAdmitOnce, PairedOnce
<1>1. \A d \in Phones : phones[d].from = p => pairings[p].failed < MaxFailedAttempts
  BY SessionsConstants DEF SessionsInv, ClaimsHold
<1>2. \A d \in Phones : phones[d].from = p => {e \in Phones : phones[e].from = p} = {d}
  BY SessionsConstants DEF SessionsInv, ClaimsHold
<1>3. Cardinality({d \in Phones : phones[d].from = p}) <= 1
  <2>1. CASE \E d \in Phones : phones[d].from = p
    <3>1. PICK d \in Phones : {e \in Phones : phones[e].from = p} = {d}
      BY <1>2, <2>1
    <3>2. Cardinality({d}) = 1
      BY FS_Singleton
    <3> QED
      BY <3>1, <3>2
  <2>2. CASE ~ \E d \in Phones : phones[d].from = p
    <3>1. {d \in Phones : phones[d].from = p} = {}
      BY <2>2
    <3> QED
      BY <3>1, FS_EmptySet
  <2> QED
    BY <2>1, <2>2
<1> QED
  BY <1>1, <1>3, SessionsConstants

\* A pairing code has made one phone at most, and none once it was guessed wrong too
\* often; no ticket that was presented or expired is in the table: in any order of the
\* claims, across restarts (claim_mobile_pairing_request, consume_websocket_ticket).
THEOREM CredentialsAdmitOnceAlways == SessionsSpec => []CredentialsAdmitOnce
  BY SessionsInitially, SessionsStep, InvariantAdmitsOnce, PTL DEF SessionsSpec

\* Every row, ticket, socket and sending task keeps its type, and the table its
\* bound (issue_websocket_ticket).
THEOREM SessionsTypeCorrect == SessionsSpec => []SessionsTypeOK
<1>1. SessionsInv => SessionsTypeOK
  BY DEF SessionsInv
<1> QED
  BY SessionsInitially, SessionsStep, <1>1, PTL DEF SessionsSpec

\* A revoked row stays revoked, though a call was being checked when it was revoked,
\* and the phone is current at the step that admits a call; what an admitted call still
\* does is not said (validate_mobile_token, revoke_mobile_device_and_push_registrations).
THEOREM RevocationIsFinal == SessionsSpec => RevokedStaysRevoked
<1>1. SessionsInv /\ [SessionsNext]_sessionVars =>
        [\A d \in Phones :
          /\ phones[d].status = "revoked" => phones'[d].status = "revoked"
          /\ \A r \in ApiCalls :
                api_calls'[r].step = "admitted" /\ api_calls[r].step # "admitted"
                  /\ api_calls'[r].phone = d => Current(d)]_sessionVars
  BY RevocationKept DEF SessionsInv
<1> QED
  BY SessionsInitially, SessionsStep, <1>1, PTL DEF SessionsSpec, RevokedStaysRevoked

\* No update is prepared for a phone that is not current, though its ticket, its
\* socket and the loop over the sockets may be older than its revocation
\* (_send_mobile_client_update, mobile_websocket).
THEOREM RevokedPhoneSeesNothing == SessionsSpec => RevokedSeesNothing
<1>1. SessionsInv /\ [SessionsNext]_sessionVars =>
        [/\ \A t \in SenderTask :
               senders'[t].sending # senders[t].sending /\ senders'[t].sending # "none" =>
                  senders'[t].invalid \/ Current(sockets[senders'[t].sending].phone)
         /\ \A s \in Sockets :
               sockets'[s].step = "greeting" /\ sockets[s].step # "greeting" =>
                  Current(sockets[s].phone)]_sessionVars
  BY LookedUpFirst DEF SessionsInv
<1> QED
  BY SessionsInitially, SessionsStep, <1>1, PTL DEF SessionsSpec, RevokedSeesNothing

-----------------------------------------------------------------------------
(***************************************************************************)
(* Sums over finite sets.  MapThenFoldSet takes the elements in an order   *)
(* of its own; the sum does not depend on it, and grows with the set and   *)
(* the weights.  Induction over a set is over a set of its subsets.        *)
(***************************************************************************)

\* A set of natural numbers that is not empty has a least element.
LEMMA LeastOf ==
  ASSUME NEW N \in SUBSET Nat, N # {}
  PROVE  \E n \in N : \A m \in N : n <= m
<1>1. \E n \in N : \A m \in N : ~ (<<m, n>> \in OpToRel(<, Nat))
  BY NatLessThanWellFounded, WFMin
<1>2. PICK n \in N : \A m \in N : ~ (<<m, n>> \in OpToRel(<, Nat))
  BY <1>1
<1>3. \A m \in N : ~ (m < n)
  BY <1>2 DEF OpToRel
<1> QED
  BY <1>3

\* P has the empty set, and a subset of S when it has those with one element less.
Inductive(P, S) ==
    /\ P \subseteq SUBSET S /\ {} \in P
    /\ \A s \in SUBSET S : s # {} /\ (\A x \in s : s \ {x} \in P) => s \in P

\* Induction over the subsets of a finite set, each from those with one element less.
LEMMA SubsetInduction ==
  ASSUME NEW S, IsFiniteSet(S), NEW P, Inductive(P, S)
  PROVE  P = SUBSET S
<1> USE DEF Inductive
<1> SUFFICES ASSUME NEW r \in SUBSET S, r \notin P PROVE FALSE
  OBVIOUS
<1>1. \A s \in SUBSET S : IsFiniteSet(s) /\ Cardinality(s) \in Nat
  BY FS_Subset, FS_CardinalityType
<1>2. PICK N : N = {Cardinality(s) : s \in (SUBSET S) \ P}
  OBVIOUS
<1>3. N \in SUBSET Nat /\ N # {}
  BY <1>1, <1>2
<1>4. PICK n \in N : \A m \in N : n <= m
  BY <1>3, LeastOf
<1>5. PICK s \in (SUBSET S) \ P : n = Cardinality(s)
  BY <1>2
<1>6. \A x \in s : s \ {x} \in P
  <2> SUFFICES ASSUME NEW x \in s, s \ {x} \notin P PROVE FALSE
    OBVIOUS
  <2>1. Cardinality(s \ {x}) = Cardinality(s) - 1
    BY <1>1, FS_RemoveElement
  <2>2. Cardinality(s \ {x}) \in N
    BY <1>2
  <2> QED
    BY <1>1, <1>4, <1>5, <2>1, <2>2
<1>7. s # {} /\ s \in SUBSET S /\ s \notin P
  BY <1>5
<1> QED
  BY <1>6, <1>7

Pick(s) == CHOOSE x \in s : TRUE

\* total sums w over each subset of S, in the order of MapThenFoldSet.
Sums(total, w, S) ==
    total = [s \in SUBSET S |->
                IF s = {} THEN 0 ELSE w[Pick(s)] + total[s \ {Pick(s)}]]

\* There is such a total.
LEMMA SumsExist ==
  ASSUME NEW S, IsFiniteSet(S), NEW w \in [S -> Int]
  PROVE  \E total \in [SUBSET S -> Int] : Sums(total, w, S)
<1> DEFINE Upto(n, f) == \A s \in SUBSET S : Cardinality(s) <= n =>
                     f[s] = IF s = {} THEN 0 ELSE w[Pick(s)] + f[s \ {Pick(s)}]
           Found(n) == \E f \in [SUBSET S -> Int] : Upto(n, f)
<1>1. \A s \in SUBSET S : IsFiniteSet(s) /\ Cardinality(s) \in Nat
                          /\ (Cardinality(s) = 0 <=> s = {})
  BY FS_Subset, FS_CardinalityType, FS_EmptySet
<1>2. \A s \in SUBSET S : s # {} =>
         /\ Pick(s) \in s /\ s \ {Pick(s)} \in SUBSET S /\ w[Pick(s)] \in Int
         /\ Cardinality(s \ {Pick(s)}) = Cardinality(s) - 1
  <2> SUFFICES ASSUME NEW s \in SUBSET S, s # {}
               PROVE  /\ Pick(s) \in s /\ s \ {Pick(s)} \in SUBSET S /\ w[Pick(s)] \in Int
                      /\ Cardinality(s \ {Pick(s)}) = Cardinality(s) - 1
    OBVIOUS
  <2>1. Pick(s) \in s
    BY DEF Pick
  <2> QED
    BY <2>1, <1>1, FS_RemoveElement
<1>3. Found(0)
  <2>1. PICK f : f = [s \in SUBSET S |-> 0]
    OBVIOUS
  <2>2. f \in [SUBSET S -> Int]
    BY <2>1
  <2>3. ASSUME NEW s \in SUBSET S, Cardinality(s) <= 0
        PROVE  s = {} /\ f[s] = 0
    BY <1>1, <2>1, <2>3
  <2>4. Upto(0, f)
    BY <2>3
  <2> QED
    BY <2>2, <2>4
<1>4. ASSUME NEW n \in Nat, Found(n) PROVE Found(n + 1)
  <2>1. PICK f \in [SUBSET S -> Int] : Upto(n, f)
    BY <1>4
  <2>2. PICK g : g = [s \in SUBSET S |-> IF s = {} THEN 0 ELSE w[Pick(s)] + f[s \ {Pick(s)}]]
    OBVIOUS
  <2>3. ASSUME NEW s \in SUBSET S
        PROVE  g[s] = (IF s = {} THEN 0 ELSE w[Pick(s)] + f[s \ {Pick(s)}]) /\ g[s] \in Int
    <3>1. g[s] = IF s = {} THEN 0 ELSE w[Pick(s)] + f[s \ {Pick(s)}]
      BY <2>2
    <3>2. CASE s = {}
      BY <3>1, <3>2
    <3>3. CASE s # {}
      <4>1. PICK r : r = s \ {Pick(s)}
        OBVIOUS
      <4>2. r \in SUBSET S /\ w[Pick(s)] \in Int
        BY <1>2, <3>3, <4>1
      <4>3. f[r] \in Int
        BY <4>2
      <4> QED
        BY <3>1, <3>3, <4>1, <4>2, <4>3
    <3> QED
      BY <3>2, <3>3
  <2>4. g \in [SUBSET S -> Int]
    BY <2>2, <2>3
  <2>5. ASSUME NEW s \in SUBSET S, Cardinality(s) <= n + 1
        PROVE  g[s] = IF s = {} THEN 0 ELSE w[Pick(s)] + g[s \ {Pick(s)}]
    <3>1. CASE s = {}
      BY <2>3, <3>1
    <3>2. CASE s # {}
      <4>1. PICK r : r = s \ {Pick(s)}
        OBVIOUS
      <4>2. r \in SUBSET S /\ Cardinality(r) <= n
        BY <1>1, <1>2, <2>5, <3>2, <4>1
      <4>3. f[r] = IF r = {} THEN 0 ELSE w[Pick(r)] + f[r \ {Pick(r)}]
        BY <2>1, <4>2
      <4>4. g[r] = f[r]
        BY <2>3, <4>2, <4>3
      <4>5. g[s] = w[Pick(s)] + f[r]
        BY <2>3, <3>2, <4>1
      <4> QED
        BY <3>2, <4>1, <4>4, <4>5
    <3> QED
      BY <3>1, <3>2
  <2>6. Upto(n + 1, g)
    BY <2>5
  <2> QED
    BY <2>4, <2>6
<1>5. Found(Cardinality(S))
  <2> SUFFICES ASSUME ~Found(Cardinality(S)) PROVE FALSE
    OBVIOUS
  <2>1. PICK N : N = {n \in Nat : ~Found(n)}
    OBVIOUS
  <2> HIDE DEF Found
  <2>2. N \in SUBSET Nat /\ N # {}
    BY <1>1, <2>1
  <2>3. PICK n \in N : \A m \in N : n <= m
    BY <2>2, LeastOf
  <2>4. n \in Nat /\ n # 0 /\ n - 1 \notin N
    BY <1>3, <2>1, <2>3
  <2>5. n - 1 \in Nat /\ Found(n - 1)
    BY <2>1, <2>4
  <2>6. Found((n - 1) + 1)
    BY <1>4, <2>5
  <2> QED
    BY <2>1, <2>3, <2>4, <2>6
<1>6. PICK f \in [SUBSET S -> Int] : Upto(Cardinality(S), f)
  BY <1>5
<1>7. \A s \in SUBSET S : f[s] = IF s = {} THEN 0 ELSE w[Pick(s)] + f[s \ {Pick(s)}]
  BY <1>6, FS_Subset
<1>8. Sums(f, w, S)
  BY <1>7 DEF Sums
<1> QED
  BY <1>8

\* What w sums to over the subsets of S, whatever the order.
AddsUp(total, w, S) ==
    /\ total[{}] = 0
    /\ \A s \in SUBSET S : \A x \in s : total[s] = w[x] + total[s \ {x}]

\* A total does not depend on the order: any element may be taken first.
LEMMA SumTakesAny ==
  ASSUME NEW S, IsFiniteSet(S), NEW w \in [S -> Int],
         NEW total \in [SUBSET S -> Int], Sums(total, w, S)
  PROVE  AddsUp(total, w, S)
<1>1. \A s \in SUBSET S : s # {} => Pick(s) \in s /\ total[s] = w[Pick(s)] + total[s \ {Pick(s)}]
  BY DEF Sums, Pick
<1>2. PICK P : P = {s \in SUBSET S : \A x \in s : total[s] = w[x] + total[s \ {x}]}
  OBVIOUS
<1>3. P \in SUBSET SUBSET S /\ {} \in P
  BY <1>2
<1>4. ASSUME NEW s \in SUBSET S, s # {}, \A x \in s : s \ {x} \in P
      PROVE  s \in P
  <2> SUFFICES ASSUME NEW x \in s PROVE total[s] = w[x] + total[s \ {x}]
    BY <1>2
  <2>1. PICK p \in s : p = Pick(s) /\ total[s] = w[p] + total[s \ {p}]
    BY <1>1, <1>4
  <2>2. CASE x = p
    BY <2>1, <2>2
  <2>3. CASE x # p
    <3>1. PICK r : r = (s \ {p}) \ {x}
      OBVIOUS
    <3>2. r = (s \ {x}) \ {p} /\ r \in SUBSET S /\ s \ {p} \in P /\ s \ {x} \in P
      BY <1>4, <3>1
    <3>3. total[s \ {p}] = w[x] + total[r]
      BY <1>2, <2>3, <3>1, <3>2
    <3>4. total[s \ {x}] = w[p] + total[r]
      BY <1>2, <2>3, <3>2
    <3>5. w[x] \in Int /\ w[p] \in Int /\ total[r] \in Int
      BY <3>2
    <3> QED
      BY <2>1, <3>3, <3>4, <3>5
  <2> QED
    BY <2>2, <2>3
<1>5. Inductive(P, S)
  BY <1>3, <1>4 DEF Inductive
<1>6. P = SUBSET S
  BY <1>5, SubsetInduction
<1> QED
  BY <1>2, <1>6 DEF Sums, AddsUp

\* A is part of B, and its elements weigh no more in w than in v.
NoHeavier(w, A, v, B) ==
    A \subseteq B /\ (\A x \in A : w[x] <= v[x]) /\ \A x \in B : 0 <= v[x]

\* Where one set has no more elements than another and they weigh no more, nor do
\* they together.
LEMMA SumsGrow ==
  ASSUME NEW S, IsFiniteSet(S), NEW w \in [S -> Int], NEW v \in [S -> Int],
         NEW total \in [SUBSET S -> Int], Sums(total, w, S),
         NEW bound \in [SUBSET S -> Int], Sums(bound, v, S),
         NEW A \in SUBSET S, NEW B \in SUBSET S, NoHeavier(w, A, v, B)
  PROVE  total[A] <= bound[B]
<1> USE DEF NoHeavier
<1>a. AddsUp(total, w, S) /\ AddsUp(bound, v, S)
  BY SumTakesAny
<1>1. PICK P : P = {s \in SUBSET S : s \subseteq B => total[s \cap A] <= bound[s]}
  OBVIOUS
<1>2. {} \in P
  <2>1. total[{}] = 0 /\ bound[{}] = 0
    BY DEF Sums
  <2>2. {} \cap A = {}
    OBVIOUS
  <2> QED
    BY <1>1, <2>1, <2>2
<1>3. ASSUME NEW s \in SUBSET S, s # {}, \A x \in s : s \ {x} \in P
      PROVE  s \in P
  <2> SUFFICES ASSUME s \subseteq B PROVE total[s \cap A] <= bound[s]
    BY <1>1
  <2>1. PICK x \in s : s \ {x} \in P
    BY <1>3
  <2>2. PICK r : r = s \ {x}
    OBVIOUS
  <2>3. r \in SUBSET S /\ total[r \cap A] <= bound[r]
    BY <1>1, <2>1, <2>2
  <2>4. bound[s] = v[x] + bound[r] /\ v[x] \in Int /\ bound[r] \in Int /\ 0 <= v[x]
    BY <1>a, <2>2, <2>3 DEF AddsUp
  <2>5. total[r \cap A] \in Int
    BY <2>3
  <2>6. CASE x \in A
    <3>1. PICK q : q = s \cap A
      OBVIOUS
    <3>2. q \in SUBSET S /\ x \in q /\ q \ {x} = r \cap A
      BY <2>2, <2>6, <3>1
    <3>3. total[q] = w[x] + total[r \cap A]
      <4>1. total[q] = w[x] + total[q \ {x}]
        BY <1>a, <3>2 DEF AddsUp
      <4> QED
        BY <3>2, <4>1
    <3>4. w[x] <= v[x] /\ w[x] \in Int
      BY <2>6
    <3> QED
      BY <2>3, <2>4, <2>5, <3>1, <3>3, <3>4
  <2>7. CASE x \notin A
    <3>1. s \cap A = r \cap A
      BY <2>2, <2>7
    <3>2. total[s \cap A] <= bound[r] /\ total[s \cap A] \in Int
      BY <2>3, <2>5, <3>1
    <3> QED
      BY <2>4, <3>2
  <2> QED
    BY <2>6, <2>7
<1>4. P = SUBSET S
  <2>1. Inductive(P, S)
    BY <1>1, <1>2, <1>3 DEF Inductive
  <2> QED
    BY <2>1, SubsetInduction
<1>5. B \cap A = A
  OBVIOUS
<1> QED
  BY <1>1, <1>4, <1>5

\* Totals over a set and over one it is part of agree.
LEMMA SumsAgree ==
  ASSUME NEW S, IsFiniteSet(S), NEW w \in [S -> Int],
         NEW total \in [SUBSET S -> Int], Sums(total, w, S),
         NEW R \in SUBSET S, NEW part, Sums(part, w, R)
  PROVE  part[R] = total[R]
<1> USE DEF Sums
<1>1. PICK P : P = {s \in SUBSET R : part[s] = total[s]}
  OBVIOUS
<1>2. {} \in P
  BY <1>1 DEF Sums
<1>3. ASSUME NEW s \in SUBSET R, s # {}, \A x \in s : s \ {x} \in P
      PROVE  s \in P
  <2>1. Pick(s) \in s
    BY <1>3 DEF Pick
  <2>2. s \ {Pick(s)} \in P
    BY <1>3, <2>1
  <2>3. s \in SUBSET S
    OBVIOUS
  <2>4. part[s] = w[Pick(s)] + part[s \ {Pick(s)}]
    BY <1>3
  <2>5. total[s] = w[Pick(s)] + total[s \ {Pick(s)}]
    BY <1>3, <2>3 DEF Sums
  <2> QED
    BY <1>1, <2>2, <2>4, <2>5
<1>4. IsFiniteSet(R)
  BY FS_Subset
<1>5. P = SUBSET R
  <2>1. Inductive(P, R)
    BY <1>1, <1>2, <1>3 DEF Inductive
  <2> QED
    BY <1>4, <2>1, SubsetInduction
<1> QED
  BY <1>1, <1>5

\* Total(w, S)[s]: what w sums to over s, a subset of S.
Total(w, S) == CHOOSE total \in [SUBSET S -> Int] : Sums(total, w, S)

\* It is one of these.
LEMMA TotalSums ==
  ASSUME NEW S, IsFiniteSet(S), NEW w \in [S -> Int]
  PROVE  /\ Total(w, S) \in [SUBSET S -> Int]
         /\ Sums(Total(w, S), w, S)
         /\ AddsUp(Total(w, S), w, S)
<1>1. \E total \in [SUBSET S -> Int] : Sums(total, w, S)
  BY SumsExist
<1>2. Total(w, S) \in [SUBSET S -> Int] /\ Sums(Total(w, S), w, S)
  BY <1>1 DEF Total
<1> QED
  BY <1>2, SumTakesAny

\* Totals grow with the set and with the weights.
LEMMA TotalsGrow ==
  ASSUME NEW S, IsFiniteSet(S), NEW w \in [S -> Int], NEW v \in [S -> Int],
         NEW A \in SUBSET S, NEW B \in SUBSET S, NoHeavier(w, A, v, B)
  PROVE  Total(w, S)[A] <= Total(v, S)[B]
<1>1. PICK total \in [SUBSET S -> Int] : total = Total(w, S) /\ Sums(total, w, S)
  BY TotalSums
<1>2. PICK bound \in [SUBSET S -> Int] : bound = Total(v, S) /\ Sums(bound, v, S)
  BY TotalSums
<1>3. total[A] <= bound[B]
  BY <1>1, <1>2, SumsGrow
<1> QED
  BY <1>1, <1>2, <1>3

\* What the recursion over R comes to, where a total over a larger set is known.
LEMMA PartOfTotal ==
  ASSUME NEW S, IsFiniteSet(S), NEW w \in [S -> Int], NEW R \in SUBSET S
  PROVE  \E part : Sums(part, w, R)
<1>1. PICK total : total = Total(w, S)
  OBVIOUS
<1>2. total \in [SUBSET S -> Int] /\ Sums(total, w, S)
  BY <1>1, TotalSums
<1>3. PICK part : part = [s \in SUBSET R |-> total[s]]
  OBVIOUS
<1>4. \A s \in SUBSET R : s # {} => Pick(s) \in s
  BY DEF Pick
<1>5. \A s \in SUBSET R :
         part[s] = IF s = {} THEN 0 ELSE w[Pick(s)] + part[s \ {Pick(s)}]
  <2> SUFFICES ASSUME NEW s \in SUBSET R
               PROVE part[s] = IF s = {} THEN 0 ELSE w[Pick(s)] + part[s \ {Pick(s)}]
    OBVIOUS
  <2>1. PICK r : r = s \ {Pick(s)}
    OBVIOUS
  <2>2. s \in SUBSET S /\ r \in SUBSET R /\ part[s] = total[s] /\ part[r] = total[r]
    BY <1>3, <2>1
  <2>3. total[s] = IF s = {} THEN 0 ELSE w[Pick(s)] + total[r]
    BY <1>2, <2>1, <2>2 DEF Sums
  <2> QED
    BY <2>1, <2>2, <2>3
<1>6. part = [s \in SUBSET R |->
                IF s = {} THEN 0 ELSE w[Pick(s)] + part[s \ {Pick(s)}]]
  BY <1>3, <1>5
<1> QED
  BY <1>6 DEF Sums

-----------------------------------------------------------------------------
(***************************************************************************)
(* Proofs about MobileTreasury, for any authorizations, keys, amounts and  *)
(* balances: an authorization pays once, a receipt says of its transfer    *)
(* what the chain says, the day's cap of sweeps and the reserve are kept.  *)
(*                                                                         *)
(* None is inductive.  What an authorization pays for follows from which   *)
(* receipts name it (ReceiptsHold), what a receipt says from where its     *)
(* handler is (TransferPlaced); the cap is looked at one commit before the *)
(* transfer is sent, so the invariant carries what the preflight found     *)
(* over to it (SigningIsClear), and for the reserve what the wallet has    *)
(* beyond all that is reserved (FundsHold).                                *)
(***************************************************************************)

\* The handler in flight: the autonomous sweep's has its audit, the phone's its
\* pending receipt, no audit until it executes and nothing on the chain until it
\* sends.
TransferPlaced ==
    /\ transfer.step = "sweeping" => /\ transfer.of \in AutoSweeps
                                     /\ treasury_audits[transfer.of].status # "none"
    /\ transfer.step \in {"reserved", "signing", "answered", "audited", "raised"} =>
          /\ transfer.of \in TreasuryKeys
          /\ treasury_receipts[transfer.of].status = "pending"
    /\ transfer.step = "reserved" => treasury_audits[transfer.of].status = "none"
    /\ transfer.step \in {"reserved", "signing"} => ledger[transfer.of] = "unsent"

\* A key without a receipt has done nothing; one with a receipt has used up an
\* authorization, and no two keys the same.
ReceiptsHold ==
    \A k \in TreasuryKeys :
        /\ treasury_receipts[k].status = "none" =>
              /\ treasury_receipts[k].auth = "none" /\ ledger[k] = "unsent"
              /\ treasury_audits[k].status = "none"
        /\ treasury_receipts[k].status # "none" =>
              /\ treasury_receipts[k].auth \in Authorizations
              /\ authorizations[treasury_receipts[k].auth].status = "used"
        /\ \A j \in TreasuryKeys :
              treasury_receipts[j].auth = treasury_receipts[k].auth =>
                 j = k \/ treasury_receipts[k].auth = "none"

Audited == {t \in Transfers : treasury_audits[t].status # "none"}

\* A sweep that was sent has an audit, and one of the phone is never ready or
\* stale; only so many audits were made.
AuditsHold ==
    /\ \A t \in Transfers : IsSweep(t) /\ treasury_audits[t].status = "none" => ledger[t] = "unsent"
    /\ \A k \in TreasuryKeys : treasury_audits[k].status \notin {"ready", "stale"}
    /\ IsFiniteSet(Audited)

\* Between the preflight and the transfer: the audit is there, no other transfer
\* is unresolved and the day has room for a sweep.
SigningIsClear ==
    transfer.step = "signing" =>
        /\ IsSweep(transfer.of) => treasury_audits[transfer.of].status = "submitting"
        /\ \A t \in Transfers \ {transfer.of} : ~UnresolvedTransfer(t)
        /\ IsSweep(transfer.of) => Cardinality(SweepsToday) < MaxSweepsPerDay

TreasuryInv ==
    /\ TreasuryTypeOK
    /\ TransferPlaced
    /\ ReceiptsHold
    /\ ReceiptTellsLedger
    /\ AuditsHold
    /\ SigningIsClear

-----------------------------------------------------------------------------
(* The operators of the model.                                             *)

\* The assumptions, in the form the steps below use them.
LEMMA TreasuryConstants ==
    /\ TreasuryKeys \subseteq Transfers /\ AutoSweeps \subseteq Transfers
    /\ \A t \in Transfers : t \in TreasuryKeys <=> t \notin AutoSweeps
    /\ "none" \notin Authorizations /\ "none" \notin Transfers
    /\ Amounts \subseteq Nat /\ 0 \notin Amounts /\ MaxSweepsPerDay \in Nat
    /\ MaxTreasuryCrashes \in Nat
    /\ \E x : x \in TreasuryKinds
    /\ \E n : n \in Amounts
  BY TreasuryAssumption DEF Transfers

\* Authorizations that were used stay so.
UsedKept == \A a \in Authorizations : authorizations[a].status = "used" =>
               /\ authorizations'[a].status = "used"
               /\ authorizations'[a].kind = authorizations[a].kind

\* No receipt is handed out or given back, nor bound to another authorization.
ReceiptsNamed == \A k \in TreasuryKeys :
    /\ treasury_receipts'[k].auth = treasury_receipts[k].auth
    /\ treasury_receipts'[k].status = "none" <=> treasury_receipts[k].status = "none"

\* What is a sweep stays one, and what is none does not become one.
LEMMA SweepsKept ==
  ASSUME ReceiptsHold, UsedKept, ReceiptsNamed
  PROVE  \A t \in Transfers : IsSweep(t)' <=> IsSweep(t)
<1> SUFFICES ASSUME NEW t \in TreasuryKeys PROVE IsSweep(t)' <=> IsSweep(t)
  BY TreasuryConstants DEF IsSweep
<1>1. t \notin AutoSweeps
  BY TreasuryConstants
<1>2. CASE treasury_receipts[t].status = "none"
  BY <1>1, <1>2 DEF IsSweep, ReceiptsNamed
<1>3. CASE treasury_receipts[t].status # "none"
  <2>1. treasury_receipts[t].auth \in Authorizations
        /\ authorizations[treasury_receipts[t].auth].status = "used"
    BY <1>3 DEF ReceiptsHold
  <2>2. authorizations'[treasury_receipts[t].auth].kind = authorizations[treasury_receipts[t].auth].kind
    BY <2>1 DEF UsedKept
  <2> QED
    BY <1>1, <1>3, <2>2 DEF IsSweep, TreasuryKind, ReceiptsNamed
<1> QED
  BY <1>2, <1>3

\* The claims of the receipts on the authorizations hold where neither changes hands.
LEMMA ReceiptsKept ==
  ASSUME ReceiptsHold, UsedKept, ReceiptsNamed,
         \A k \in TreasuryKeys : treasury_receipts[k].status = "none" =>
            ledger'[k] = ledger[k] /\ treasury_audits'[k].status = treasury_audits[k].status
  PROVE  ReceiptsHold'
BY DEF ReceiptsHold, UsedKept, ReceiptsNamed

\* So do those on the audits, where no sweep without one is sent.
LEMMA AuditsKept ==
  ASSUME AuditsHold, ReceiptsHold, UsedKept, ReceiptsNamed,
         \A t \in Transfers : treasury_audits'[t].status = "none" =>
            /\ treasury_audits[t].status = "none"
            /\ IsSweep(t) /\ ledger[t] = "unsent" => ledger'[t] = "unsent",
         \A k \in TreasuryKeys : treasury_audits'[k].status \in {"ready", "stale"} =>
            treasury_audits[k].status \in {"ready", "stale"},
         NEW x, \A t \in Transfers \ {x} :
            treasury_audits[t].status = "none" => treasury_audits'[t].status = "none"
  PROVE  AuditsHold'
<1>1. \A t \in Transfers : IsSweep(t)' <=> IsSweep(t)
  BY SweepsKept
<1>2. Audited' \subseteq Audited \cup {x}
  BY DEF Audited
<1>3. IsFiniteSet(Audited \cup {x})
  BY FS_AddElement DEF AuditsHold
<1>4. IsFiniteSet(Audited')
  BY <1>2, <1>3, FS_Subset
<1> QED
  BY <1>1, <1>4 DEF AuditsHold

\* What the preflight found is still so at the transfer.
LEMMA SigningKept ==
  ASSUME SigningIsClear, ReceiptsHold, UsedKept, ReceiptsNamed,
         transfer.step = "signing" => transfer.of \in Transfers,
         UNCHANGED transfer \/ transfer'.step # "signing",
         UNCHANGED treasury_audits \/ transfer'.step # "signing"
  PROVE  SigningIsClear'
<1>1. \A t \in Transfers : IsSweep(t)' <=> IsSweep(t)
  BY SweepsKept
<1>2. CASE transfer'.step # "signing"
  BY <1>2 DEF SigningIsClear
<1>3. CASE UNCHANGED <<transfer, treasury_audits>> /\ transfer.step = "signing"
  <2>1. SweepsToday' = SweepsToday
    BY <1>1, <1>3 DEF SweepsToday
  <2> QED
    BY <1>1, <1>3, <2>1 DEF SigningIsClear, UnresolvedTransfer
<1> QED
  BY <1>2, <1>3

-----------------------------------------------------------------------------
(* Authorizations                                                          *)

\* Authorizing, previewing and running out of time leave used rows alone.
LEMMA AuthorizationsHold ==
  ASSUME TreasuryInv, NEW a \in Authorizations, NEW row \in AuthorizationRow,
         authorizations' = [authorizations EXCEPT ![a] = row],
         authorizations[a].status = "used" => row.status = "used" /\ row.kind = authorizations[a].kind,
         UNCHANGED <<treasury_receipts, treasury_audits, transfer, ledger, treasury_crashes>>
  PROVE  TreasuryInv'
<1>1. TreasuryTypeOK'
  BY DEF TreasuryInv, TreasuryTypeOK
<1>2. UsedKept /\ ReceiptsNamed
  BY DEF TreasuryInv, TreasuryTypeOK, UsedKept, ReceiptsNamed
<1>3. TransferPlaced' /\ ReceiptTellsLedger'
  BY DEF TreasuryInv, TransferPlaced, ReceiptTellsLedger, ReceiptOutstanding
<1>4. ReceiptsHold'
  BY <1>2, ReceiptsKept DEF TreasuryInv
<1>5. AuditsHold'
  BY <1>2, AuditsKept DEF TreasuryInv
<1>6. SigningIsClear'
  BY <1>2, SigningKept, TreasuryConstants DEF TreasuryInv, TransferPlaced
<1> QED
  BY <1>1, <1>3, <1>4, <1>5, <1>6 DEF TreasuryInv

\* The four actions that do.
LEMMA AuthorizingHolds ==
  ASSUME TreasuryInv, NEW a \in Authorizations,
         \/ \E kind \in TreasuryKinds, n \in Amounts : authorize_destination(a, kind, n)
         \/ \E n \in Amounts : preview(a, n)
         \/ PreviewExpires(a) \/ AuthorizationExpires(a)
  PROVE  TreasuryInv'
<1>1. authorizations \in [Authorizations -> AuthorizationRow] /\ authorizations[a] \in AuthorizationRow
  BY DEF TreasuryInv, TreasuryTypeOK
<1>2. ASSUME NEW kind \in TreasuryKinds, NEW n \in Amounts, authorize_destination(a, kind, n)
      PROVE  TreasuryInv'
  <2> DEFINE row == [authorizations[a] EXCEPT !.status = "unused", !.fresh = TRUE,
                                              !.kind = kind, !.max = n]
  <2>1. row \in AuthorizationRow
    BY <1>1 DEF AuthorizationRow
  <2>2. authorizations' = [authorizations EXCEPT ![a] = row]
    BY <1>1, <1>2 DEF authorize_destination
  <2> HIDE DEF row
  <2> QED
    BY <1>2, <2>1, <2>2, AuthorizationsHold DEF authorize_destination
<1>3. ASSUME NEW n \in Amounts \cup {0}, authorizations' = [authorizations EXCEPT ![a].shown = n],
             UNCHANGED <<treasury_receipts, treasury_audits, transfer, ledger, treasury_crashes>>
      PROVE  TreasuryInv'
  <2> DEFINE row == [authorizations[a] EXCEPT !.shown = n]
  <2>1. row \in AuthorizationRow /\ row.status = authorizations[a].status
        /\ row.kind = authorizations[a].kind
    BY <1>1 DEF AuthorizationRow
  <2>2. authorizations' = [authorizations EXCEPT ![a] = row]
    BY <1>1, <1>3
  <2> HIDE DEF row
  <2> QED
    BY <1>3, <2>1, <2>2, AuthorizationsHold
<1>4. CASE AuthorizationExpires(a)
  <2> DEFINE row == [authorizations[a] EXCEPT !.fresh = FALSE, !.shown = 0]
  <2>1. row \in AuthorizationRow /\ row.status = authorizations[a].status
        /\ row.kind = authorizations[a].kind
    BY <1>1 DEF AuthorizationRow
  <2>2. authorizations' = [authorizations EXCEPT ![a] = row]
    BY <1>1, <1>4 DEF AuthorizationExpires
  <2> HIDE DEF row
  <2> QED
    BY <1>4, <2>1, <2>2, AuthorizationsHold DEF AuthorizationExpires
<1>5. ASSUME NEW n \in Amounts, preview(a, n) PROVE TreasuryInv'
  BY <1>3, <1>5 DEF preview, attach_mobile_destination_preview
<1>6. CASE PreviewExpires(a)
  BY <1>3, <1>6 DEF PreviewExpires
<1> QED
  BY <1>2, <1>4, <1>5, <1>6

\* A request uses up its authorization, which no other receipt names.
LEMMA RequestHolds ==
  ASSUME TreasuryInv, NEW k \in TreasuryKeys, NEW a \in Authorizations, NEW n \in Amounts,
         request_treasury(k, a, n)
  PROVE  TreasuryInv'
<1> DEFINE used == Consumed(authorizations[a])
           receipt == [status |-> "pending", auth |-> a, amount |-> n, sig |-> FALSE]
<1>1. /\ authorizations \in [Authorizations -> AuthorizationRow]
      /\ treasury_receipts \in [TreasuryKeys -> TreasuryReceiptRow]
      /\ authorizations[a] \in AuthorizationRow /\ authorizations[a].status = "unused"
      /\ treasury_receipts[k].status = "none"
      /\ k # "none" /\ k \in Transfers
  BY TreasuryConstants DEF TreasuryInv, TreasuryTypeOK, request_treasury, Reservable, Authorized
<1>2. used \in AuthorizationRow /\ used.status = "used"
  BY <1>1 DEF Consumed, AuthorizationRow
<1>3. receipt \in TreasuryReceiptRow
  BY DEF TreasuryReceiptRow, TreasuryReceiptStatus
<1>4. /\ authorizations' = [authorizations EXCEPT ![a] = used]
      /\ treasury_receipts' = [treasury_receipts EXCEPT ![k] = receipt]
      /\ transfer' = [step |-> "reserved", of |-> k]
      /\ UNCHANGED <<treasury_audits, ledger, treasury_crashes>>
  BY DEF request_treasury
<1> HIDE DEF used
<1>5. /\ treasury_receipts'[k] = receipt
      /\ \A j \in TreasuryKeys : j # k => treasury_receipts'[j] = treasury_receipts[j]
      /\ authorizations'[a].status = "used"
      /\ \A b \in Authorizations : b # a => authorizations'[b] = authorizations[b]
  BY <1>1, <1>2, <1>4
<1>6. TreasuryTypeOK'
  <2>1. transfer' \in [step: TransferStep, of: Transfers \cup {"none"}]
        /\ transfer'.step # "idle" /\ transfer'.of # "none"
    BY <1>1, <1>4 DEF TransferStep
  <2> QED
    BY <1>1, <1>2, <1>3, <1>4, <2>1 DEF TreasuryInv, TreasuryTypeOK
<1>7. \A j \in TreasuryKeys : treasury_receipts[j].auth # a
  BY <1>1, TreasuryConstants DEF TreasuryInv, ReceiptsHold
<1>8. ReceiptsHold'
  BY <1>4, <1>5, <1>7 DEF TreasuryInv, ReceiptsHold
<1>9. TransferPlaced'
  BY <1>1, <1>4, <1>5 DEF TreasuryInv, TransferPlaced, ReceiptsHold
<1>10. ReceiptTellsLedger'
  BY <1>4, <1>5 DEF TreasuryInv, ReceiptTellsLedger, ReceiptOutstanding
<1>11. AuditsHold'
  <2>1. \A t \in Transfers : t # k => (IsSweep(t)' <=> IsSweep(t))
    BY <1>1, <1>5, TreasuryConstants DEF TreasuryInv, ReceiptsHold, IsSweep, TreasuryKind
  <2>2. ledger[k] = "unsent"
    BY <1>1 DEF TreasuryInv, ReceiptsHold
  <2>3. Audited' = Audited
    BY <1>4 DEF Audited
  <2> QED
    BY <1>4, <2>1, <2>2, <2>3 DEF TreasuryInv, AuditsHold
<1>12. SigningIsClear'
  BY <1>4 DEF SigningIsClear
<1> QED
  BY <1>6, <1>8, <1>9, <1>10, <1>11, <1>12 DEF TreasuryInv

-----------------------------------------------------------------------------
(* The phone's transfer                                                    *)

\* One transfer x moves: only its audit may be made, none is taken back, a key
\* without a receipt is left alone, and no sweep without an audit is sent.
OneMoves(x) ==
    /\ \A t \in Transfers :
          /\ t # x => treasury_audits'[t] = treasury_audits[t] /\ ledger'[t] = ledger[t]
          /\ treasury_audits'[t].status = "none" => treasury_audits[t].status = "none"
    /\ IsSweep(x) /\ treasury_audits'[x].status = "none" /\ ledger[x] = "unsent" =>
          ledger'[x] = "unsent"
    /\ x \in TreasuryKeys =>
          /\ treasury_receipts[x].status # "none"
          /\ treasury_audits'[x].status \in {"ready", "stale"} =>
                treasury_audits[x].status \in {"ready", "stale"}

\* Steps that change no authorization and hand out no receipt, by what is left
\* to show of them.
LEMMA HandlerHolds ==
  ASSUME TreasuryInv, TreasuryTypeOK', TransferPlaced', ReceiptTellsLedger',
         UNCHANGED authorizations, ReceiptsNamed, NEW x, OneMoves(x),
         \/ SigningIsClear'
         \/ transfer'.step # "signing"
         \/ UNCHANGED <<transfer, treasury_audits>>
  PROVE  TreasuryInv'
<1>1. UsedKept
  BY DEF UsedKept
<1>2. ReceiptsHold'
  <2>1. \A k \in TreasuryKeys : treasury_receipts[k].status = "none" =>
           ledger'[k] = ledger[k] /\ treasury_audits'[k].status = treasury_audits[k].status
    BY TreasuryConstants DEF OneMoves
  <2> QED
    BY <1>1, <2>1, ReceiptsKept DEF TreasuryInv
<1>3. AuditsHold'
  <2>1. \A t \in Transfers : treasury_audits'[t].status = "none" =>
           /\ treasury_audits[t].status = "none"
           /\ IsSweep(t) /\ ledger[t] = "unsent" => ledger'[t] = "unsent"
    BY DEF OneMoves
  <2>2. \A k \in TreasuryKeys : treasury_audits'[k].status \in {"ready", "stale"} =>
           treasury_audits[k].status \in {"ready", "stale"}
    BY TreasuryConstants DEF OneMoves
  <2>3. \A t \in Transfers \ {x} :
           treasury_audits[t].status = "none" => treasury_audits'[t].status = "none"
    BY DEF OneMoves
  <2> QED
    BY <1>1, <2>1, <2>2, <2>3, AuditsKept DEF TreasuryInv
<1>4. SigningIsClear'
  BY <1>1, SigningKept, TreasuryConstants DEF TreasuryInv, TransferPlaced
<1> QED
  BY <1>2, <1>3, <1>4 DEF TreasuryInv

\* The request's second preflight and the audit it binds.
LEMMA ExecuteHolds == TreasuryInv /\ execute_mobile_treasury => TreasuryInv'
<1> SUFFICES ASSUME TreasuryInv, execute_mobile_treasury PROVE TreasuryInv'
  OBVIOUS
<1> DEFINE k == transfer.of
<1>1. /\ k \in TreasuryKeys /\ k \in Transfers /\ k \notin AutoSweeps /\ transfer.step = "reserved"
      /\ treasury_receipts[k].status = "pending" /\ treasury_audits[k].status = "none"
      /\ transfer \in [step: TransferStep, of: Transfers \cup {"none"}]
      /\ treasury_audits \in [Transfers -> TreasuryAuditRow]
  BY TreasuryConstants
     DEF TreasuryInv, TreasuryTypeOK, TransferPlaced, execute_mobile_treasury
<1>2. /\ transfer' = [transfer EXCEPT !.step = "signing"]
      /\ treasury_audits' = IF TreasuryKind(k) = "withdrawal" THEN treasury_audits
                            ELSE [treasury_audits EXCEPT ![k] = [status |-> "submitting", sig |-> FALSE]]
      /\ UNCHANGED <<authorizations, treasury_receipts, ledger, treasury_crashes>>
      /\ \A t \in Transfers : ~UnresolvedTransfer(t)
      /\ TreasuryKind(k) = "profit_sweep" => Cardinality(SweepsToday) < MaxSweepsPerDay
  BY DEF execute_mobile_treasury, bind_mobile_treasury_execution_audit, Preflight, SweepPolicy
<1>3. transfer'.step = "signing" /\ transfer'.of = k
      /\ transfer' \in [step: TransferStep, of: Transfers \cup {"none"}]
  BY <1>1, <1>2 DEF TransferStep
<1> HIDE DEF k
<1>4. /\ treasury_audits' \in [Transfers -> TreasuryAuditRow]
      /\ \A t \in Transfers : t # k => treasury_audits'[t] = treasury_audits[t]
      /\ treasury_audits'[k].status \in {"none", "submitting"}
      /\ TreasuryKind(k) # "withdrawal" => treasury_audits'[k].status = "submitting"
  <2>1. [status |-> "submitting", sig |-> FALSE] \in TreasuryAuditRow
    BY DEF TreasuryAuditRow, TreasuryAuditStatus
  <2> QED
    BY <1>1, <1>2, <2>1
<1>5. TreasuryTypeOK'
  BY <1>1, <1>2, <1>3, <1>4, TreasuryConstants DEF TreasuryInv, TreasuryTypeOK
<1>6. TransferPlaced' /\ ReceiptTellsLedger'
  BY <1>1, <1>2, <1>3 DEF TreasuryInv, TransferPlaced, ReceiptTellsLedger, ReceiptOutstanding
<1>7. UsedKept /\ ReceiptsNamed
  BY <1>2 DEF UsedKept, ReceiptsNamed
<1>8. \A t \in Transfers : IsSweep(t)' <=> IsSweep(t)
  BY <1>7, SweepsKept DEF TreasuryInv
<1>9. IsSweep(k) => TreasuryKind(k) = "profit_sweep"
  BY <1>1 DEF IsSweep
<1>10. SweepsToday' \subseteq SweepsToday /\ IsFiniteSet(SweepsToday)
  <2>1. SweepsToday \subseteq Audited
    BY DEF SweepsToday, Audited
  <2>2. IsFiniteSet(SweepsToday)
    BY <2>1, FS_Subset DEF TreasuryInv, AuditsHold
  <2> QED
    BY <1>4, <1>8, <2>2 DEF SweepsToday
<1>11. TreasuryKind(k) = "profit_sweep" => Cardinality(SweepsToday') < MaxSweepsPerDay
  <2>1. Cardinality(SweepsToday') <= Cardinality(SweepsToday) /\ Cardinality(SweepsToday') \in Nat
        /\ Cardinality(SweepsToday) \in Nat
    BY <1>10, FS_Subset, FS_CardinalityType
  <2> QED
    BY <1>2, <2>1, TreasuryConstants
<1>12. SigningIsClear'
  BY <1>1, <1>2, <1>3, <1>4, <1>8, <1>9, <1>11 DEF SigningIsClear, UnresolvedTransfer
<1>13. OneMoves(k)
  BY <1>1, <1>2, <1>4 DEF OneMoves
<1> QED
  BY <1>2, <1>5, <1>6, <1>7, <1>12, <1>13, HandlerHolds

\* Refusals and the transfer itself.
LEMMA SendHolds == TreasuryInv /\ (treasury_raises \/ transfer_sol) => TreasuryInv'
<1> SUFFICES ASSUME TreasuryInv, treasury_raises \/ transfer_sol PROVE TreasuryInv'
  OBVIOUS
<1> DEFINE k == transfer.of
<1>1. /\ k \in TreasuryKeys /\ k \in Transfers /\ treasury_receipts[k].status = "pending"
      /\ transfer \in [step: TransferStep, of: Transfers \cup {"none"}]
      /\ ledger \in [Transfers -> LedgerState]
  BY TreasuryConstants
     DEF TreasuryInv, TreasuryTypeOK, TransferPlaced, treasury_raises, transfer_sol
<1>2. PICK answer \in {"answered", "raised"} : transfer' = [transfer EXCEPT !.step = answer]
  BY DEF treasury_raises, transfer_sol
<1>3. transfer'.step = answer /\ transfer'.of = k
      /\ transfer' \in [step: TransferStep, of: Transfers \cup {"none"}]
  BY <1>1, <1>2 DEF TransferStep
<1>4. /\ UNCHANGED <<authorizations, treasury_receipts, treasury_audits, treasury_crashes>>
      /\ ledger' \in [Transfers -> LedgerState]
      /\ \A t \in Transfers : t # k => ledger'[t] = ledger[t]
      /\ ledger'[k] = ledger[k] \/ transfer.step = "signing"
  BY <1>1 DEF treasury_raises, transfer_sol, LedgerState
<1> HIDE DEF k
<1>5. TreasuryTypeOK'
  BY <1>1, <1>3, <1>4, TreasuryConstants DEF TreasuryInv, TreasuryTypeOK
<1>6. TransferPlaced' /\ ReceiptsNamed
  BY <1>1, <1>3, <1>4 DEF TransferPlaced, ReceiptsNamed
<1>7. ReceiptTellsLedger'
  BY <1>1, <1>4, TreasuryConstants DEF TreasuryInv, ReceiptTellsLedger, ReceiptOutstanding
<1>8. transfer.step = "signing" /\ IsSweep(k) => treasury_audits[k].status # "none"
  BY DEF TreasuryInv, SigningIsClear, k
<1>9. OneMoves(k)
  BY <1>1, <1>4, <1>8 DEF OneMoves
<1> QED
  BY <1>3, <1>4, <1>5, <1>6, <1>7, <1>9, HandlerHolds

\* The answer is written to the audit, then to the receipt.
LEMMA AnswerHolds == TreasuryInv /\ complete_mobile_treasury_audit => TreasuryInv'
<1> SUFFICES ASSUME TreasuryInv, complete_mobile_treasury_audit PROVE TreasuryInv'
  OBVIOUS
<1> DEFINE k == transfer.of
<1>1. /\ k \in TreasuryKeys /\ k \in Transfers /\ treasury_receipts[k].status = "pending"
      /\ transfer \in [step: TransferStep, of: Transfers \cup {"none"}]
      /\ treasury_audits \in [Transfers -> TreasuryAuditRow]
  BY TreasuryConstants
     DEF TreasuryInv, TreasuryTypeOK, TransferPlaced, complete_mobile_treasury_audit
<1>2. /\ transfer' = [transfer EXCEPT !.step = "audited"]
      /\ \/ UNCHANGED treasury_audits
         \/ treasury_audits' = [treasury_audits EXCEPT ![k] = [status |-> "submitted", sig |-> TRUE]]
      /\ UNCHANGED <<authorizations, treasury_receipts, ledger, treasury_crashes>>
  BY DEF complete_mobile_treasury_audit
<1>3. transfer'.step = "audited" /\ transfer'.of = k
      /\ transfer' \in [step: TransferStep, of: Transfers \cup {"none"}]
  BY <1>1, <1>2 DEF TransferStep
<1> HIDE DEF k
<1>4. /\ treasury_audits' \in [Transfers -> TreasuryAuditRow]
      /\ \A t \in Transfers : t # k => treasury_audits'[t] = treasury_audits[t]
      /\ treasury_audits'[k] = treasury_audits[k] \/ treasury_audits'[k].status = "submitted"
  <2> DEFINE row == [status |-> "submitted", sig |-> TRUE]
  <2>1. row \in TreasuryAuditRow /\ row.status = "submitted"
    BY DEF TreasuryAuditRow, TreasuryAuditStatus
  <2>2. UNCHANGED treasury_audits \/ treasury_audits' = [treasury_audits EXCEPT ![k] = row]
    BY <1>2
  <2> HIDE DEF row
  <2> QED
    BY <1>1, <2>1, <2>2
<1>5. TreasuryTypeOK'
  BY <1>1, <1>2, <1>3, <1>4, TreasuryConstants DEF TreasuryInv, TreasuryTypeOK
<1>6. TransferPlaced' /\ ReceiptTellsLedger' /\ ReceiptsNamed
  BY <1>1, <1>2, <1>3
     DEF TreasuryInv, TransferPlaced, ReceiptTellsLedger, ReceiptOutstanding, ReceiptsNamed
<1>7. OneMoves(k)
  BY <1>1, <1>2, <1>4 DEF OneMoves
<1> QED
  BY <1>2, <1>3, <1>5, <1>6, <1>7, HandlerHolds

\* The receipt of a request that is over is still outstanding.
LEMMA SaveHolds == TreasuryInv /\ save_treasury_receipt => TreasuryInv'
<1> SUFFICES ASSUME TreasuryInv, save_treasury_receipt PROVE TreasuryInv'
  OBVIOUS
<1> DEFINE k == transfer.of
           row == [treasury_receipts[k] EXCEPT !.status = "verifying",
                                               !.sig = (transfer.step = "audited")]
<1>1. /\ k \in TreasuryKeys /\ treasury_receipts[k].status = "pending"
      /\ treasury_receipts \in [TreasuryKeys -> TreasuryReceiptRow]
      /\ treasury_receipts[k] \in TreasuryReceiptRow
  BY DEF TreasuryInv, TreasuryTypeOK, TransferPlaced, save_treasury_receipt
<1>2. row \in TreasuryReceiptRow /\ row.status = "verifying" /\ row.auth = treasury_receipts[k].auth
  BY <1>1 DEF TreasuryReceiptRow, TreasuryReceiptStatus
<1>3. /\ treasury_receipts' = [treasury_receipts EXCEPT ![k] = row]
      /\ transfer' = NoTransfer
      /\ UNCHANGED <<authorizations, treasury_audits, ledger, treasury_crashes>>
  BY <1>1 DEF save_treasury_receipt
<1> HIDE DEF row, k
<1>4. /\ treasury_receipts' \in [TreasuryKeys -> TreasuryReceiptRow]
      /\ treasury_receipts'[k] = row
      /\ \A j \in TreasuryKeys : j # k => treasury_receipts'[j] = treasury_receipts[j]
  BY <1>1, <1>2, <1>3
<1>5. transfer'.step = "idle" /\ transfer'.of = "none"
      /\ transfer' \in [step: TransferStep, of: Transfers \cup {"none"}]
  BY <1>3 DEF NoTransfer, TransferStep
<1>6. TreasuryTypeOK'
  BY <1>3, <1>4, <1>5 DEF TreasuryInv, TreasuryTypeOK
<1>7. ReceiptsNamed
  BY <1>1, <1>2, <1>4 DEF ReceiptsNamed
<1>8. ReceiptTellsLedger'
  BY <1>1, <1>2, <1>3, <1>4 DEF TreasuryInv, ReceiptTellsLedger, ReceiptOutstanding
<1>9. TransferPlaced'
  BY <1>5 DEF TransferPlaced
<1>10. OneMoves(k)
  BY <1>1, <1>3 DEF OneMoves
<1> QED
  BY <1>3, <1>5, <1>6, <1>7, <1>8, <1>9, <1>10, HandlerHolds

-----------------------------------------------------------------------------
(* Finding out, the autonomous sweep and the chain                         *)

\* The phone's poll says confirmed or failed when the chain does.
LEMMA PollHolds ==
  ASSUME TreasuryInv, NEW k \in TreasuryKeys, NEW answer \in LedgerState \cup {"unavailable"},
         treasury_action(k, answer)
  PROVE  TreasuryInv'
<1> DEFINE verdict == TreasuryVerdict(k, answer)
           row == [treasury_receipts[k] EXCEPT !.status = verdict]
<1>1. /\ k \in Transfers /\ transfer.step = "idle" /\ ReceiptOutstanding(k)
      /\ answer = ledger[k] \/ answer = "unavailable"
      /\ treasury_receipts \in [TreasuryKeys -> TreasuryReceiptRow]
      /\ treasury_receipts[k] \in TreasuryReceiptRow
      /\ treasury_audits \in [Transfers -> TreasuryAuditRow]
      /\ ledger[k] \in LedgerState
  BY TreasuryConstants DEF TreasuryInv, TreasuryTypeOK, treasury_action
<1>2. /\ verdict \in {"confirmed", "failed", "review_required", "verifying"}
      /\ verdict = "confirmed" => ledger[k] = "landed"
      /\ verdict = "failed" => ledger[k] = "failed"
      /\ verdict \in {"confirmed", "failed"} /\ TreasuryKind(k) # "withdrawal" =>
            treasury_audits[k].status # "none"
  BY <1>1 DEF TreasuryVerdict, treasury_receipt_status
<1>3. /\ treasury_receipts' = [treasury_receipts EXCEPT ![k] = row]
      /\ \/ UNCHANGED treasury_audits
         \/ /\ treasury_audits' = [treasury_audits EXCEPT ![k].status = verdict]
            /\ verdict \in {"confirmed", "failed"} /\ treasury_audits[k].status # "none"
      /\ UNCHANGED <<authorizations, transfer, ledger, treasury_crashes>>
  BY <1>1, <1>2 DEF treasury_action
<1> HIDE DEF verdict
<1>4. row \in TreasuryReceiptRow /\ row.status = verdict /\ row.auth = treasury_receipts[k].auth
  BY <1>1, <1>2 DEF TreasuryReceiptRow, TreasuryReceiptStatus
<1> HIDE DEF row
<1>5. /\ treasury_receipts' \in [TreasuryKeys -> TreasuryReceiptRow]
      /\ treasury_receipts'[k] = row
      /\ \A j \in TreasuryKeys : j # k => treasury_receipts'[j] = treasury_receipts[j]
  BY <1>1, <1>3, <1>4
<1>6. /\ treasury_audits' \in [Transfers -> TreasuryAuditRow]
      /\ \A t \in Transfers : t # k => treasury_audits'[t] = treasury_audits[t]
      /\ treasury_audits'[k] = treasury_audits[k] \/ treasury_audits'[k].status \in {"confirmed", "failed"}
  <2>1. CASE UNCHANGED treasury_audits
    BY <1>1, <2>1
  <2>2. CASE /\ treasury_audits' = [treasury_audits EXCEPT ![k].status = verdict]
             /\ verdict \in {"confirmed", "failed"}
    <3> DEFINE audit == [treasury_audits[k] EXCEPT !.status = verdict]
    <3>1. audit \in TreasuryAuditRow /\ audit.status = verdict
      BY <1>1, <2>2 DEF TreasuryAuditRow, TreasuryAuditStatus
    <3>2. treasury_audits' = [treasury_audits EXCEPT ![k] = audit]
      BY <1>1, <2>2
    <3> HIDE DEF audit
    <3> QED
      BY <1>1, <2>2, <3>1, <3>2
  <2> QED
    BY <1>3, <2>1, <2>2
<1>7. TreasuryTypeOK'
  BY <1>3, <1>5, <1>6 DEF TreasuryInv, TreasuryTypeOK
<1>8. ReceiptsNamed
  BY <1>1, <1>2, <1>4, <1>5 DEF ReceiptsNamed, ReceiptOutstanding
<1>9. ReceiptTellsLedger'
  BY <1>1, <1>2, <1>3, <1>4, <1>5 DEF TreasuryInv, ReceiptTellsLedger, ReceiptOutstanding
<1>10. TransferPlaced'
  BY <1>1, <1>3 DEF TransferPlaced
<1>11. OneMoves(k)
  BY <1>1, <1>3, <1>6 DEF OneMoves, ReceiptOutstanding
<1> QED
  BY <1>1, <1>3, <1>7, <1>8, <1>9, <1>10, <1>11, HandlerHolds

\* A step of an audit that exists, or of the autonomous sweep's, which leaves no
\* transfer of the phone in flight.
LEMMA AuditStepHolds ==
  ASSUME TreasuryInv, NEW t \in Transfers, NEW row \in TreasuryAuditRow,
         UNCHANGED treasury_audits \/ treasury_audits' = [treasury_audits EXCEPT ![t] = row],
         ledger' \in [Transfers -> LedgerState], \A u \in Transfers : u # t => ledger'[u] = ledger[u],
         t \in TreasuryKeys => /\ ledger'[t] = ledger[t] /\ row.status \notin {"ready", "stale"}
                               /\ treasury_audits[t].status # "none",
         row.status # "none", ledger'[t] # ledger[t] => treasury_audits[t].status # "none",
         transfer' \in [step: TransferStep, of: Transfers \cup {"none"}],
         (transfer'.step = "idle") <=> (transfer'.of = "none"),
         \/ transfer'.step = "idle"
         \/ /\ transfer'.step = "sweeping" /\ transfer'.of \in AutoSweeps
            /\ treasury_audits'[transfer'.of].status # "none",
         treasury_crashes' \in 0..MaxTreasuryCrashes,
         UNCHANGED <<authorizations, treasury_receipts>>
  PROVE  TreasuryInv'
<1>1. /\ treasury_audits' \in [Transfers -> TreasuryAuditRow]
      /\ \A u \in Transfers : u # t => treasury_audits'[u] = treasury_audits[u]
      /\ treasury_audits'[t] = treasury_audits[t] \/ treasury_audits'[t] = row
  BY DEF TreasuryInv, TreasuryTypeOK
<1>2. TreasuryTypeOK'
  BY <1>1 DEF TreasuryInv, TreasuryTypeOK
<1>3. TransferPlaced' /\ ReceiptsNamed
  BY DEF TransferPlaced, ReceiptsNamed
<1>4. ReceiptTellsLedger'
  BY TreasuryConstants DEF TreasuryInv, ReceiptTellsLedger, ReceiptOutstanding
<1>5. t \in TreasuryKeys => treasury_receipts[t].status # "none"
  BY DEF TreasuryInv, ReceiptsHold
<1>6. OneMoves(t)
  BY <1>1, <1>5 DEF OneMoves
<1> QED
  BY <1>2, <1>3, <1>4, <1>6, HandlerHolds

\* The recovery of an audit.
LEMMA RecoverHolds ==
  ASSUME TreasuryInv, NEW t \in Transfers, NEW answer \in LedgerState \cup {"unavailable"},
         recover_treasury_audit(t, answer)
  PROVE  TreasuryInv'
<1>1. PICK s \in RecoveredTransfer(t, answer) :
         treasury_audits' = [treasury_audits EXCEPT ![t].status = s]
  BY DEF recover_treasury_audit
<1>2. treasury_audits[t] \in TreasuryAuditRow /\ treasury_audits[t].status # "none"
  BY DEF recover_treasury_audit, TreasuryInv, TreasuryTypeOK
<1>3. /\ s \in {"stale", "needs_review", "failed", "reconciled", "submitted"}
      /\ s = "stale" => treasury_audits[t].status = "ready"
  BY DEF RecoveredTransfer
<1> DEFINE row == [treasury_audits[t] EXCEPT !.status = s]
<1>4. row \in TreasuryAuditRow /\ row.status = s
  BY <1>2, <1>3 DEF TreasuryAuditRow, TreasuryAuditStatus
<1>5. treasury_audits' = [treasury_audits EXCEPT ![t] = row]
  BY <1>1 DEF TreasuryInv, TreasuryTypeOK
<1> HIDE DEF row
<1>6. t \in TreasuryKeys => s # "stale"
  BY <1>3 DEF TreasuryInv, AuditsHold
<1> QED
  BY <1>2, <1>3, <1>4, <1>5, <1>6, AuditStepHolds
     DEF recover_treasury_audit, TreasuryInv, TreasuryTypeOK

\* The autonomous sweep begins.
LEMMA SweepHolds ==
  ASSUME TreasuryInv, NEW t \in AutoSweeps, maybe_run_profit_sweep(t)
  PROVE  TreasuryInv'
<1>1. t \in Transfers /\ t \notin TreasuryKeys /\ t # "none"
  BY TreasuryConstants
<1> DEFINE row == [treasury_audits[t] EXCEPT !.status = "ready"]
<1>2. row \in TreasuryAuditRow /\ row.status = "ready"
  BY <1>1 DEF TreasuryInv, TreasuryTypeOK, TreasuryAuditRow, TreasuryAuditStatus
<1>3. treasury_audits' = [treasury_audits EXCEPT ![t] = row]
  BY <1>1 DEF maybe_run_profit_sweep, TreasuryInv, TreasuryTypeOK
<1> HIDE DEF row
<1>4. /\ transfer' \in [step: TransferStep, of: Transfers \cup {"none"}]
      /\ transfer'.step = "sweeping" /\ transfer'.of = t
      /\ treasury_audits'[t].status # "none"
  BY <1>1, <1>2, <1>3 DEF maybe_run_profit_sweep, TransferStep, TreasuryInv, TreasuryTypeOK
<1> QED
  BY <1>1, <1>2, <1>3, <1>4, AuditStepHolds DEF maybe_run_profit_sweep, TreasuryInv, TreasuryTypeOK

\* The autonomous sweep ends, or the process does.
LEMMA SweepEndHolds == TreasuryInv /\ finish_profit_sweep => TreasuryInv'
<1> SUFFICES ASSUME TreasuryInv, finish_profit_sweep PROVE TreasuryInv'
  OBVIOUS
<1> DEFINE t == transfer.of
           sent == [status |-> "submitted", sig |-> TRUE]
           failed == [status |-> "failed", sig |-> FALSE]
<1>1. t \in AutoSweeps /\ t \in Transfers /\ t \notin TreasuryKeys /\ treasury_audits[t].status # "none"
  BY TreasuryConstants DEF TreasuryInv, TransferPlaced, finish_profit_sweep
<1>2. /\ sent \in TreasuryAuditRow /\ sent.status = "submitted"
      /\ failed \in TreasuryAuditRow /\ failed.status = "failed"
  BY DEF TreasuryAuditRow, TreasuryAuditStatus
<1>3. /\ \/ UNCHANGED treasury_audits
         \/ treasury_audits' = [treasury_audits EXCEPT ![t] = sent]
         \/ treasury_audits' = [treasury_audits EXCEPT ![t] = failed]
      /\ UNCHANGED <<authorizations, treasury_receipts>>
      /\ transfer' = NoTransfer
      /\ \/ UNCHANGED treasury_crashes
         \/ treasury_crashes < MaxTreasuryCrashes /\ treasury_crashes' = treasury_crashes + 1
      /\ \/ UNCHANGED ledger
         \/ ledger' = [ledger EXCEPT ![t] = "sent"]
  BY DEF finish_profit_sweep, TreasuryInv, TreasuryTypeOK
<1> HIDE DEF t, sent, failed
<1>4. /\ transfer' \in [step: TransferStep, of: Transfers \cup {"none"}]
      /\ transfer'.step = "idle" /\ transfer'.of = "none"
  BY <1>3 DEF NoTransfer, TransferStep
<1>5. ledger' \in [Transfers -> LedgerState] /\ \A u \in Transfers : u # t => ledger'[u] = ledger[u]
  BY <1>3 DEF TreasuryInv, TreasuryTypeOK, LedgerState
<1>6. treasury_crashes' \in 0..MaxTreasuryCrashes
  BY <1>3, TreasuryConstants DEF TreasuryInv, TreasuryTypeOK
<1>7. PICK row \in TreasuryAuditRow :
         /\ row.status # "none"
         /\ UNCHANGED treasury_audits \/ treasury_audits' = [treasury_audits EXCEPT ![t] = row]
  BY <1>2, <1>3
<1> QED
  BY <1>1, <1>3, <1>4, <1>5, <1>6, <1>7, AuditStepHolds

\* The chain decides what was sent.
LEMMA DecidedHolds ==
  ASSUME TreasuryInv, NEW t \in Transfers, TransferDecided(t)
  PROVE  TreasuryInv'
<1>1. PICK d \in {"landed", "failed", "dropped"} : ledger' = [ledger EXCEPT ![t] = d]
  BY DEF TransferDecided
<1>2. /\ ledger' \in [Transfers -> LedgerState] /\ ledger[t] = "sent" /\ ledger'[t] = d
      /\ \A u \in Transfers : u # t => ledger'[u] = ledger[u]
      /\ UNCHANGED <<authorizations, treasury_receipts, treasury_audits, transfer, treasury_crashes>>
  BY <1>1 DEF TransferDecided, TreasuryInv, TreasuryTypeOK, LedgerState
<1>3. TreasuryTypeOK'
  BY <1>2 DEF TreasuryInv, TreasuryTypeOK
<1>4. TransferPlaced' /\ ReceiptsNamed
  <2>1. transfer.step \in {"reserved", "signing"} => ledger'[transfer.of] = "unsent"
    BY <1>2, TreasuryConstants DEF TreasuryInv, TransferPlaced
  <2> QED
    BY <1>2, <2>1 DEF TreasuryInv, TransferPlaced, ReceiptsNamed
<1>5. ReceiptTellsLedger'
  BY <1>2, TreasuryConstants DEF TreasuryInv, ReceiptTellsLedger, ReceiptOutstanding
<1>6. OneMoves(t)
  BY <1>2 DEF TreasuryInv, ReceiptsHold, AuditsHold, OneMoves
<1> QED
  BY <1>2, <1>3, <1>4, <1>5, <1>6, HandlerHolds

\* A restart cuts the phone's request off; its receipt stays pending.
LEMMA CrashHolds == TreasuryInv /\ TreasuryCrash => TreasuryInv'
<1> SUFFICES ASSUME TreasuryInv, TreasuryCrash PROVE TreasuryInv'
  OBVIOUS
<1>1. /\ transfer' \in [step: TransferStep, of: Transfers \cup {"none"}]
      /\ transfer'.step = "idle" /\ transfer'.of = "none"
      /\ UNCHANGED <<authorizations, treasury_receipts, treasury_audits, ledger>>
  BY DEF TreasuryCrash, NoTransfer, TransferStep
<1>2. treasury_crashes' \in 0..MaxTreasuryCrashes
  BY TreasuryConstants DEF TreasuryCrash, TreasuryInv, TreasuryTypeOK
<1>3. TreasuryTypeOK'
  BY <1>1, <1>2 DEF TreasuryInv, TreasuryTypeOK
<1>4. TransferPlaced' /\ ReceiptsNamed /\ ReceiptTellsLedger'
  BY <1>1 DEF TreasuryInv, TransferPlaced, ReceiptsNamed, ReceiptTellsLedger, ReceiptOutstanding
<1>5. OneMoves("none")
  BY <1>1, TreasuryConstants DEF TreasuryInv, OneMoves
<1> QED
  BY <1>1, <1>3, <1>4, <1>5, HandlerHolds

-----------------------------------------------------------------------------
(* The invariant, payment and the day's cap.                               *)

\* Nothing was authorized, asked for or sent in the beginning.
LEMMA TreasuryInitially == TreasuryInit => TreasuryInv
<1> SUFFICES ASSUME TreasuryInit PROVE TreasuryInv
  OBVIOUS
<1>1. (CHOOSE x \in TreasuryKinds : TRUE) \in TreasuryKinds /\ (CHOOSE n \in Amounts : TRUE) \in Amounts
  BY TreasuryConstants
<1>2. authorizations \in [Authorizations -> AuthorizationRow]
  BY <1>1 DEF TreasuryInit, AuthorizationRow
<1>3. /\ treasury_receipts \in [TreasuryKeys -> TreasuryReceiptRow]
      /\ treasury_audits \in [Transfers -> TreasuryAuditRow]
      /\ ledger \in [Transfers -> LedgerState]
  BY DEF TreasuryInit, TreasuryReceiptRow, TreasuryReceiptStatus, TreasuryAuditRow,
     TreasuryAuditStatus, LedgerState
<1>4. /\ transfer \in [step: TransferStep, of: Transfers \cup {"none"}]
      /\ transfer.step = "idle" /\ transfer.of = "none"
  BY DEF TreasuryInit, NoTransfer, TransferStep
<1>5. TreasuryTypeOK
  BY <1>2, <1>3, <1>4, TreasuryConstants DEF TreasuryInit, TreasuryTypeOK
<1>6. TransferPlaced /\ SigningIsClear
  BY <1>4 DEF TransferPlaced, SigningIsClear
<1>7. ReceiptsHold /\ ReceiptTellsLedger
  BY TreasuryConstants DEF TreasuryInit, ReceiptsHold, ReceiptTellsLedger
<1>8. AuditsHold
  <2>1. Audited = {}
    BY DEF TreasuryInit, Audited
  <2> QED
    BY <2>1, FS_EmptySet, TreasuryConstants DEF TreasuryInit, AuditsHold
<1> QED
  BY <1>5, <1>6, <1>7, <1>8 DEF TreasuryInv

\* The invariant is inductive.
LEMMA TreasuryStep == TreasuryInv /\ [TreasuryNext]_treasuryVars => TreasuryInv'
<1> SUFFICES ASSUME TreasuryInv, [TreasuryNext]_treasuryVars PROVE TreasuryInv'
  OBVIOUS
<1>1. CASE UNCHANGED treasuryVars
  <2>1. TreasuryTypeOK' /\ TransferPlaced' /\ ReceiptsNamed /\ ReceiptTellsLedger'
    BY <1>1 DEF treasuryVars, TreasuryInv, TreasuryTypeOK, TransferPlaced, ReceiptsNamed,
       ReceiptTellsLedger, ReceiptOutstanding
  <2>2. OneMoves("none")
    BY <1>1, TreasuryConstants DEF treasuryVars, OneMoves
  <2> QED
    BY <1>1, <2>1, <2>2, HandlerHolds DEF treasuryVars
<1>2. CASE TreasuryHandlerStep
  BY <1>2, ExecuteHolds, SendHolds, AnswerHolds, SaveHolds DEF TreasuryHandlerStep
<1>3. CASE TreasuryNext
  BY <1>2, <1>3, AuthorizingHolds, RequestHolds, PollHolds, RecoverHolds, SweepHolds,
     SweepEndHolds, DecidedHolds, CrashHolds DEF TreasuryNext
<1> QED
  BY <1>1, <1>3

\* No two keys that sent anything name the same authorization.
LEMMA PaidOnce == TreasuryInv => TreasuryPaysOnce
<1> SUFFICES ASSUME TreasuryInv, NEW a \in Authorizations
             PROVE  Cardinality({k \in TreasuryKeys : /\ treasury_receipts[k].auth = a
                                                      /\ ledger[k] # "unsent"}) <= 1
  BY DEF TreasuryPaysOnce
<1> DEFINE paid == {k \in TreasuryKeys : treasury_receipts[k].auth = a /\ ledger[k] # "unsent"}
<1>1. CASE paid = {}
  <2>1. Cardinality(paid) = 0
    BY <1>1, FS_EmptySet
  <2> QED
    BY <2>1
<1>2. CASE paid # {}
  <2>1. PICK k : k \in paid
    BY <1>2
  <2>2. paid = {k}
    BY <2>1, TreasuryConstants DEF TreasuryInv, ReceiptsHold
  <2>3. Cardinality(paid) = 1
    BY <2>2, FS_Singleton
  <2> QED
    BY <2>3
<1> QED
  BY <1>1, <1>2

\* Only the handler in flight sends for a key, when it signs.
LEMMA SigningSends ==
  ASSUME TreasuryInv, [TreasuryNext]_treasuryVars, NEW k \in TreasuryKeys, Sends(k)
  PROVE  transfer.step = "signing" /\ transfer.of = k
<1>1. k \in Transfers /\ k \notin AutoSweeps /\ ledger' # ledger /\ ledger \in [Transfers -> LedgerState]
  BY TreasuryConstants DEF Sends, TreasuryInv, TreasuryTypeOK
<1>2. \/ transfer_sol
      \/ finish_profit_sweep
      \/ \E t \in Transfers : TransferDecided(t)
  BY <1>1 DEF TreasuryNext, treasuryVars, TreasuryHandlerStep, authorize_destination, preview,
     PreviewExpires, AuthorizationExpires, request_treasury, execute_mobile_treasury,
     treasury_raises, complete_mobile_treasury_audit, save_treasury_receipt, treasury_action,
     recover_treasury_audit, maybe_run_profit_sweep, TreasuryCrash
<1>3. CASE transfer_sol
  BY <1>1, <1>3 DEF transfer_sol, Sends
<1>4. CASE finish_profit_sweep
  <2>1. transfer.of \in AutoSweeps
    BY <1>4 DEF finish_profit_sweep, TreasuryInv, TransferPlaced
  <2> QED
    BY <1>1, <1>4, <2>1 DEF finish_profit_sweep, Sends
<1>5. ASSUME NEW t \in Transfers, TransferDecided(t) PROVE FALSE
  BY <1>1, <1>5 DEF TransferDecided, Sends
<1> QED
  BY <1>2, <1>3, <1>4, <1>5

\* The sweeps of the day that were sent are among those the preflight counted.
LEMMA CapHeld ==
  ASSUME TreasuryInv, [TreasuryNext]_treasuryVars, NEW k \in TreasuryKeys,
         Sends(k), IsSweep(k), ~SweepCutOff
  PROVE  Cardinality({t \in Transfers \ {k} : IsSweep(t) /\ ledger[t] \in {"sent", "landed"}})
           < MaxSweepsPerDay
<1> DEFINE before == {t \in Transfers \ {k} : IsSweep(t) /\ ledger[t] \in {"sent", "landed"}}
<1>1. transfer.step = "signing" /\ transfer.of = k
  BY SigningSends
<1>3. before \subseteq SweepsToday
  <2> SUFFICES ASSUME NEW t \in Transfers, t # k, IsSweep(t), ledger[t] \in {"sent", "landed"}
               PROVE  treasury_audits[t].status \in {"submitted", "confirmed", "reconciled"}
    BY DEF SweepsToday
  <2>1. ~UnresolvedTransfer(t)
    BY <1>1 DEF TreasuryInv, SigningIsClear
  <2>2. treasury_audits[t].status # "none"
    BY DEF TreasuryInv, AuditsHold
  <2>3. treasury_audits[t].status \notin {"ready", "stale"}
    BY TreasuryConstants DEF TreasuryInv, AuditsHold, SweepCutOff
  <2>4. treasury_audits[t].status \in TreasuryAuditStatus
    BY DEF TreasuryInv, TreasuryTypeOK, TreasuryAuditRow
  <2> QED
    BY <2>1, <2>2, <2>3, <2>4 DEF UnresolvedTransfer, TreasuryAuditStatus
<1>4. Cardinality(SweepsToday) < MaxSweepsPerDay
  BY <1>1 DEF TreasuryInv, SigningIsClear
<1>5. IsFiniteSet(SweepsToday)
  <2>1. SweepsToday \subseteq Audited
    BY DEF SweepsToday, Audited
  <2> QED
    BY <2>1, FS_Subset DEF TreasuryInv, AuditsHold
<1>6. /\ Cardinality(before) <= Cardinality(SweepsToday)
      /\ Cardinality(before) \in Nat /\ Cardinality(SweepsToday) \in Nat
  <2> HIDE DEF before
  <2> QED
    BY <1>3, <1>5, FS_Subset, FS_CardinalityType
<1> HIDE DEF before
<1>7. Cardinality(before) < MaxSweepsPerDay
  BY <1>4, <1>6, TreasuryConstants
<1> QED
  BY <1>7 DEF before

-----------------------------------------------------------------------------
(***************************************************************************)
(* The reserve.  What the preflight subtracts for the receipts that are    *)
(* outstanding covers every transfer on its way, whatever becomes of it    *)
(* until the one that passed is sent.                                      *)
(***************************************************************************)

\* The keys that have a receipt, and what those and the audits make: every transfer
\* that can be on its way.
Requested == {k \in TreasuryKeys : treasury_receipts[k].status # "none"}
Made == Requested \cup Audited

OutflowOf(S) == MapThenSumSet(Outflow, S)
ReservedOf(S) == MapThenSumSet(Reserved, S)

OnTheirWay(k) == {t \in Transfers \ {k} : ledger[t] = "sent"}

\* Only so many receipts were handed out.  Nothing was sent for the handler before it
\* signs, the autonomous sweep's audit is ready until its end, and one that is settled
\* has landed.  When the phone's transfer is signed, the wallet has enough for it and
\* for all on their way.
FundsHold ==
    /\ IsFiniteSet(Requested)
    /\ transfer.step \in {"reserved", "signing"} => ledger[transfer.of] = "unsent"
    /\ transfer.step = "sweeping" => treasury_audits[transfer.of].status = "ready"
    /\ \A t \in AutoSweeps :
          treasury_audits[t].status \in {"confirmed", "reconciled"} => ledger[t] = "landed"
    /\ /\ transfer.step = "signing" /\ TreasuryKind(transfer.of) # "rent_recovery"
       /\ ~SweepCutOff
       => WalletBalance - ReservedOf(OnTheirWay(transfer.of)) - Reserved(transfer.of)
            >= SweepReserve

\* MapThenSumSet adds up what a total does.
SumsFollow ==
    \A S, w, R : IsFiniteSet(S) /\ w \in [S -> Int] /\ R \in SUBSET S =>
        /\ (\A x \in R : Outflow(x) = w[x]) => OutflowOf(R) = Total(w, S)[R]
        /\ (\A x \in R : Reserved(x) = w[x]) => ReservedOf(R) = Total(w, S)[R]

\* It does, since it chooses the same elements in the same order.
LEMMA SumsDoFollow == SumsFollow
<1> SUFFICES ASSUME NEW S, IsFiniteSet(S), NEW w \in [S -> Int], NEW R \in SUBSET S
             PROVE  /\ (\A x \in R : Outflow(x) = w[x]) => OutflowOf(R) = Total(w, S)[R]
                    /\ (\A x \in R : Reserved(x) = w[x]) => ReservedOf(R) = Total(w, S)[R]
  BY DEF SumsFollow
<1>1. \A s \in SUBSET R : s # {} => Pick(s) \in R
  BY DEF Pick
<1>2. PICK total \in [SUBSET S -> Int] : total = Total(w, S) /\ Sums(total, w, S)
  BY TotalSums
<1>3. \A part : Sums(part, w, R) => part[R] = total[R]
  BY <1>2, SumsAgree
<1>4. PICK known : Sums(known, w, R)
  BY PartOfTotal
<1>5. ASSUME \A x \in R : Outflow(x) = w[x] PROVE OutflowOf(R) = Total(w, S)[R]
  <2>1. ASSUME NEW part
        PROVE  [s \in SUBSET R |->
                   IF s = {} THEN 0 ELSE Outflow(Pick(s)) + part[s \ {Pick(s)}]]
               = [s \in SUBSET R |->
                   IF s = {} THEN 0 ELSE w[Pick(s)] + part[s \ {Pick(s)}]]
    BY <1>1, <1>5
  <2>2. known = [s \in SUBSET R |->
                    IF s = {} THEN 0 ELSE Outflow(Pick(s)) + known[s \ {Pick(s)}]]
    BY <1>4, <2>1 DEF Sums
  <2>3. PICK part : /\ part = [s \in SUBSET R |->
                         IF s = {} THEN 0 ELSE Outflow(Pick(s)) + part[s \ {Pick(s)}]]
                    /\ OutflowOf(R) = part[R]
    BY <2>2 DEF OutflowOf, MapThenSumSet, MapThenFoldSet, Pick
  <2>4. Sums(part, w, R)
    BY <2>1, <2>3 DEF Sums
  <2> QED
    BY <1>2, <1>3, <2>3, <2>4
<1>6. ASSUME \A x \in R : Reserved(x) = w[x] PROVE ReservedOf(R) = Total(w, S)[R]
  <2>1. ASSUME NEW part
        PROVE  [s \in SUBSET R |->
                   IF s = {} THEN 0 ELSE Reserved(Pick(s)) + part[s \ {Pick(s)}]]
               = [s \in SUBSET R |->
                   IF s = {} THEN 0 ELSE w[Pick(s)] + part[s \ {Pick(s)}]]
    BY <1>1, <1>6
  <2>2. known = [s \in SUBSET R |->
                    IF s = {} THEN 0 ELSE Reserved(Pick(s)) + known[s \ {Pick(s)}]]
    BY <1>4, <2>1 DEF Sums
  <2>3. PICK part : /\ part = [s \in SUBSET R |->
                         IF s = {} THEN 0 ELSE Reserved(Pick(s)) + part[s \ {Pick(s)}]]
                    /\ ReservedOf(R) = part[R]
    BY <2>2 DEF ReservedOf, MapThenSumSet, MapThenFoldSet, Pick
  <2>4. Sums(part, w, R)
    BY <2>1, <2>3 DEF Sums
  <2> QED
    BY <1>2, <1>3, <2>3, <2>4
<1> QED
  BY <1>5, <1>6

\* ... before and after a step.
LEMMA SumsFollowOn == SumsFollow /\ SumsFollow'
  BY SumsDoFollow, PTL

\* The wallet, what the preflight counts as reserved, and what the property adds up.
LEMMA SumsNamed ==
    /\ WalletBalance = StartBalance - OutflowOf({t \in Transfers : ledger[t] = "landed"})
                         - Fee * Cardinality({t \in Transfers : ledger[t] = "failed"})
    /\ \A e : pending_mobile_treasury_reservation(e)
                = ReservedOf({k \in TreasuryKeys \ e : ReceiptOutstanding(k)})
    /\ \A k : MapThenSumSet(Outflow, {t \in Transfers \ {k} :
                                         ledger[t] = "sent" /\ Outflow(t) > 0})
                = OutflowOf({t \in Transfers \ {k} : ledger[t] = "sent" /\ Outflow(t) > 0})
  BY DEF WalletBalance, pending_mobile_treasury_reservation, OutflowOf, ReservedOf

\* Amounts are natural numbers.
LEMMA AmountsTyped ==
  ASSUME TreasuryInv, NEW k \in TreasuryKeys
  PROVE  treasury_receipts[k].amount \in Nat
<1>1. \A n \in Amounts \cup {0} : n \in Nat
  <2>1. Amounts \subseteq Nat
    BY TreasuryConstants
  <2> QED
    BY <2>1
<1>2. treasury_receipts[k] \in TreasuryReceiptRow
  BY DEF TreasuryInv, TreasuryTypeOK
<1>3. treasury_receipts[k].amount \in Amounts \cup {0}
  BY <1>2 DEF TreasuryReceiptRow
<1> QED
  BY <1>1, <1>3

\* What a transfer takes out of the wallet, and what is reserved for it.
LEMMA MoneyTyped ==
  ASSUME TreasuryInv
  PROVE  /\ StartBalance \in Int /\ SweepReserve \in Int /\ Fee \in Nat
         /\ \A t \in Transfers :
               /\ Outflow(t) \in Int /\ Reserved(t) \in Int /\ 0 <= Reserved(t)
               /\ Outflow(t) <= Reserved(t) /\ Fee <= Reserved(t)
               /\ TreasuryKind(t) # "rent_recovery" =>
                     Outflow(t) = Fee + TransferAmount(t) /\ Reserved(t) = Outflow(t)
<1>1. {StartBalance, SweepReserve, SweepAmount, Fee, Rent} \subseteq Nat
  BY TreasuryAssumption
<1>2. ASSUME NEW t \in Transfers PROVE TransferAmount(t) \in Nat
  <2>1. CASE t \in AutoSweeps
    BY <1>1, <2>1 DEF TransferAmount
  <2>2. CASE t \in TreasuryKeys /\ t \notin AutoSweeps
    BY <2>2, AmountsTyped DEF TransferAmount
  <2> QED
    BY <2>1, <2>2, TreasuryConstants
<1>3. ASSUME NEW t \in Transfers
      PROVE  /\ Outflow(t) \in Int /\ Reserved(t) \in Int /\ 0 <= Reserved(t)
             /\ Outflow(t) <= Reserved(t) /\ Fee <= Reserved(t)
             /\ TreasuryKind(t) # "rent_recovery" =>
                   Outflow(t) = Fee + TransferAmount(t) /\ Reserved(t) = Outflow(t)
  BY <1>1, <1>2 DEF Outflow, Reserved
<1> QED
  BY <1>1, <1>3

\* What was sent had been made, by finitely many.
LEMMA MadeAreFew ==
  ASSUME TreasuryInv, IsFiniteSet(Requested)
  PROVE  /\ IsFiniteSet(Made) /\ Made \subseteq Transfers
         /\ \A t \in Transfers : ledger[t] # "unsent" => t \in Made
         /\ \A k \in TreasuryKeys : k \in Made => k \in Requested
<1>1. IsFiniteSet(Made)
  BY FS_Union DEF Made, TreasuryInv, AuditsHold
<1>2. Made \subseteq Transfers
  BY TreasuryConstants DEF Made, Requested, Audited
<1>3. ASSUME NEW t \in Transfers, ledger[t] # "unsent" PROVE t \in Made
  <2>1. CASE t \in AutoSweeps
    BY <1>3, <2>1 DEF TreasuryInv, AuditsHold, IsSweep, Made, Audited
  <2>2. CASE t \in TreasuryKeys
    BY <1>3, <2>2 DEF TreasuryInv, ReceiptsHold, Made, Requested
  <2> QED
    BY <2>1, <2>2, TreasuryConstants
<1>4. \A k \in TreasuryKeys : k \in Made => k \in Requested
  BY TreasuryConstants DEF TreasuryInv, ReceiptsHold, Made, Requested, Audited
<1> QED
  BY <1>1, <1>2, <1>3, <1>4

\* The sums over what was made: integers, which one transfer more raises by its own,
\* and which grow with the set.
LEMMA MoneyAddsUp ==
  ASSUME TreasuryInv, IsFiniteSet(Requested)
  PROVE  /\ \A S \in SUBSET Made :
               /\ OutflowOf(S) \in Int /\ ReservedOf(S) \in Int
               /\ \A t \in S : /\ OutflowOf(S) = Outflow(t) + OutflowOf(S \ {t})
                               /\ ReservedOf(S) = Reserved(t) + ReservedOf(S \ {t})
         /\ \A B \in SUBSET Made : \A A \in SUBSET B :
               OutflowOf(A) <= ReservedOf(B) /\ ReservedOf(A) <= ReservedOf(B)
<1>1. PICK M : M = Made
  OBVIOUS
<1>2. IsFiniteSet(M) /\ \A t \in M : t \in Transfers
  BY <1>1, MadeAreFew
<1>3. PICK w : w = [t \in M |-> Outflow(t)]
  OBVIOUS
<1>4. PICK v : v = [t \in M |-> Reserved(t)]
  OBVIOUS
<1>5. w \in [M -> Int] /\ v \in [M -> Int] /\ \A t \in M : w[t] <= v[t] /\ 0 <= v[t]
  BY <1>2, <1>3, <1>4, MoneyTyped
<1>6. PICK out \in [SUBSET M -> Int] : out = Total(w, M) /\ AddsUp(out, w, M)
  BY <1>2, <1>5, TotalSums
<1>7. PICK res \in [SUBSET M -> Int] : res = Total(v, M) /\ AddsUp(res, v, M)
  BY <1>2, <1>5, TotalSums
<1>8. ASSUME NEW S \in SUBSET M PROVE OutflowOf(S) = out[S] /\ ReservedOf(S) = res[S]
  <2>1. (\A x \in S : Outflow(x) = w[x]) /\ (\A x \in S : Reserved(x) = v[x])
    BY <1>3, <1>4
  <2> QED
    BY <1>2, <1>5, <1>6, <1>7, <2>1, SumsFollowOn DEF SumsFollow
<1>9. ASSUME NEW S \in SUBSET M, NEW t \in S
      PROVE  /\ OutflowOf(S) = Outflow(t) + OutflowOf(S \ {t})
             /\ ReservedOf(S) = Reserved(t) + ReservedOf(S \ {t})
  <2>1. S \ {t} \in SUBSET M /\ w[t] = Outflow(t) /\ v[t] = Reserved(t)
    BY <1>3, <1>4
  <2>2. out[S] = w[t] + out[S \ {t}] /\ res[S] = v[t] + res[S \ {t}]
    BY <1>6, <1>7 DEF AddsUp
  <2> QED
    BY <1>8, <2>1, <2>2
<1>10. ASSUME NEW B \in SUBSET M, NEW A \in SUBSET B
       PROVE  OutflowOf(A) <= ReservedOf(B) /\ ReservedOf(A) <= ReservedOf(B)
  <2>1. A \in SUBSET M
    OBVIOUS
  <2>2. NoHeavier(w, A, v, B) /\ NoHeavier(v, A, v, B)
    BY <1>5 DEF NoHeavier
  <2>3. out[A] <= res[B] /\ res[A] <= res[B]
    BY <1>2, <1>5, <1>6, <1>7, <2>1, <2>2, TotalsGrow
  <2> QED
    BY <1>8, <2>1, <2>3
<1>11. ASSUME NEW S \in SUBSET M PROVE OutflowOf(S) \in Int /\ ReservedOf(S) \in Int
  BY <1>6, <1>7, <1>8
<1> QED
  BY <1>1, <1>9, <1>10, <1>11

\* The wallet holds an integer.
LEMMA BalanceTyped ==
  ASSUME TreasuryInv, IsFiniteSet(Requested)
  PROVE  WalletBalance \in Int
<1>1. PICK landed : landed = {t \in Transfers : ledger[t] = "landed"}
  OBVIOUS
<1>2. PICK failed : failed = {t \in Transfers : ledger[t] = "failed"}
  OBVIOUS
<1>3. landed \in SUBSET Made /\ failed \in SUBSET Made /\ IsFiniteSet(Made)
  BY <1>1, <1>2, MadeAreFew
<1>4. OutflowOf(landed) \in Int /\ Cardinality(failed) \in Nat
  BY <1>3, MoneyAddsUp, FS_Subset, FS_CardinalityType
<1>5. Fee * Cardinality(failed) \in Int
  BY <1>4, MoneyTyped
<1> QED
  BY <1>1, <1>2, <1>4, <1>5, SumsNamed, MoneyTyped

\* A step that gives no receipt and takes back no authorization leaves each its money.
LEMMA MoneyKept ==
  ASSUME TreasuryInv, IsFiniteSet(Requested), UsedKept, UNCHANGED treasury_receipts
  PROVE  /\ \A t \in Made : Outflow(t)' = Outflow(t) /\ Reserved(t)' = Reserved(t)
                            /\ TreasuryKind(t)' = TreasuryKind(t)
         /\ \A S \in SUBSET Made : OutflowOf(S)' = OutflowOf(S) /\ ReservedOf(S)' = ReservedOf(S)
<1>1. PICK M : M = Made
  OBVIOUS
<1>2. IsFiniteSet(M) /\ \A t \in M : t \in Transfers
  BY <1>1, MadeAreFew
<1>3. ASSUME NEW t \in M
      PROVE  /\ TreasuryKind(t)' = TreasuryKind(t) /\ TransferAmount(t)' = TransferAmount(t)
             /\ Outflow(t)' = Outflow(t) /\ Reserved(t)' = Reserved(t)
  <2>1. CASE t \in AutoSweeps
    BY <2>1 DEF TreasuryKind, TransferAmount, Outflow, Reserved
  <2>2. CASE t \notin AutoSweeps
    <3>1. t \in TreasuryKeys /\ treasury_receipts[t].status # "none"
      BY <1>1, <1>2, <2>2, MadeAreFew, TreasuryConstants DEF Requested
    <3>2. authorizations'[treasury_receipts[t].auth].kind = authorizations[treasury_receipts[t].auth].kind
      BY <3>1 DEF TreasuryInv, ReceiptsHold, UsedKept
    <3> QED
      BY <2>2, <3>2 DEF TreasuryKind, TransferAmount, Outflow, Reserved
  <2> QED
    BY <2>1, <2>2
<1>4. PICK w : w = [t \in M |-> Outflow(t)]
  OBVIOUS
<1>5. PICK v : v = [t \in M |-> Reserved(t)]
  OBVIOUS
<1>6. w \in [M -> Int] /\ v \in [M -> Int]
  BY <1>2, <1>4, <1>5, MoneyTyped
<1>7. ASSUME NEW S \in SUBSET M
      PROVE  OutflowOf(S)' = OutflowOf(S) /\ ReservedOf(S)' = ReservedOf(S)
  <2>1. /\ \A x \in S : Outflow(x) = w[x]
        /\ \A x \in S : Outflow(x)' = w[x]
        /\ \A x \in S : Reserved(x) = v[x]
        /\ \A x \in S : Reserved(x)' = v[x]
    BY <1>3, <1>4, <1>5
  <2>2. OutflowOf(S) = Total(w, M)[S] /\ ReservedOf(S) = Total(v, M)[S]
    BY <1>2, <1>6, <2>1, SumsFollowOn DEF SumsFollow
  <2>3. OutflowOf(S)' = Total(w, M)[S] /\ ReservedOf(S)' = Total(v, M)[S]
    BY <1>2, <1>6, <2>1, SumsFollowOn DEF SumsFollow
  <2> QED
    BY <2>2, <2>3
<1> QED
  BY <1>1, <1>3, <1>7

\* Landing takes no more than was reserved, a failure the fee: the wallet keeps what
\* it has beyond what is on its way.
LEMMA WalletKeepsUp ==
  ASSUME TreasuryInv, IsFiniteSet(Requested), NEW k \in TreasuryKeys,
         UsedKept, UNCHANGED treasury_receipts,
         UNCHANGED ledger \/ \E t \in Transfers \ {k} : TransferDecided(t)
  PROVE  /\ WalletBalance \in Int /\ ReservedOf(OnTheirWay(k)) \in Int
         /\ WalletBalance' \in Int /\ ReservedOf(OnTheirWay(k))' \in Int
         /\ WalletBalance' - ReservedOf(OnTheirWay(k))'
              >= WalletBalance - ReservedOf(OnTheirWay(k))
<1>1. PICK M : M = Made
  OBVIOUS
<1>2. /\ IsFiniteSet(M) /\ M \subseteq Transfers
      /\ \A t \in Transfers : ledger[t] # "unsent" => t \in M
  BY <1>1, MadeAreFew
<1>3. PICK landed : landed = {t \in Transfers : ledger[t] = "landed"}
  OBVIOUS
<1>4. PICK failed : failed = {t \in Transfers : ledger[t] = "failed"}
  OBVIOUS
<1>5. PICK way : way = OnTheirWay(k)
  OBVIOUS
<1>6. landed \in SUBSET M /\ failed \in SUBSET M /\ way \in SUBSET M
  BY <1>2, <1>3, <1>4, <1>5 DEF OnTheirWay
<1>7. \A S \in SUBSET M : /\ OutflowOf(S) \in Int /\ OutflowOf(S)' = OutflowOf(S)
                          /\ ReservedOf(S) \in Int /\ ReservedOf(S)' = ReservedOf(S)
  BY <1>1, MoneyAddsUp, MoneyKept
<1>8. IsFiniteSet(failed) /\ Cardinality(failed) \in Nat
  BY <1>2, <1>6, FS_Subset, FS_CardinalityType
<1>9. WalletBalance = StartBalance - OutflowOf(landed) - Fee * Cardinality(failed)
  BY <1>3, <1>4, SumsNamed
<1>10. PICK landed2 : landed2 = {t \in Transfers : ledger'[t] = "landed"}
  OBVIOUS
<1>11. PICK failed2 : failed2 = {t \in Transfers : ledger'[t] = "failed"}
  OBVIOUS
<1>12. PICK way2 : way2 = OnTheirWay(k)'
  OBVIOUS
<1>13. WalletBalance' = StartBalance - OutflowOf(landed2)' - Fee * Cardinality(failed2)
  BY <1>10, <1>11 DEF WalletBalance, OutflowOf
<1>14. CASE UNCHANGED ledger
  <2>1. landed2 = landed /\ failed2 = failed /\ way2 = way
    BY <1>3, <1>4, <1>5, <1>10, <1>11, <1>12, <1>14 DEF OnTheirWay
  <2>2. PICK wallet \in Int : wallet = WalletBalance
    BY <1>6, <1>7, <1>8, <1>9, MoneyTyped
  <2>3. WalletBalance' = wallet
    BY <1>6, <1>7, <1>9, <1>13, <2>1, <2>2
  <2>4. ReservedOf(OnTheirWay(k))' = ReservedOf(way)
    BY <1>6, <1>7, <1>12, <2>1
  <2>5. ReservedOf(way) \in Int
    BY <1>6, <1>7
  <2> QED
    BY <1>5, <2>2, <2>3, <2>4, <2>5
<1>15. ASSUME NEW t \in Transfers \ {k}, TransferDecided(t)
       PROVE  /\ WalletBalance \in Int /\ ReservedOf(OnTheirWay(k)) \in Int
              /\ WalletBalance' \in Int /\ ReservedOf(OnTheirWay(k))' \in Int
              /\ WalletBalance' - ReservedOf(OnTheirWay(k))'
                   >= WalletBalance - ReservedOf(OnTheirWay(k))
  <2>1. PICK d \in {"landed", "failed", "dropped"} : ledger' = [ledger EXCEPT ![t] = d]
    BY <1>15 DEF TransferDecided
  <2>2. /\ ledger[t] = "sent" /\ ledger'[t] = d
        /\ \A u \in Transfers : u # t => ledger'[u] = ledger[u]
    BY <1>15, <2>1 DEF TransferDecided, TreasuryInv, TreasuryTypeOK
  <2>3. t \in way /\ t \in M /\ t \notin landed /\ t \notin failed /\ way2 = way \ {t}
    BY <1>2, <1>3, <1>4, <1>5, <1>12, <2>2 DEF OnTheirWay
  <2>4. PICK rest \in Int : rest = ReservedOf(way2)
    BY <1>6, <1>7, <2>3
  <2>5. PICK res \in Int : res = Reserved(t)
    BY <1>15, MoneyTyped
  <2>6. ReservedOf(way) = res + rest /\ ReservedOf(way2)' = rest
    BY <1>1, <1>6, <1>7, <2>3, <2>4, <2>5, MoneyAddsUp
  <2>7. Outflow(t) \in Int /\ Outflow(t) <= res /\ Fee \in Nat /\ Fee <= res /\ 0 <= res
        /\ StartBalance \in Int
    BY <1>15, <2>5, MoneyTyped
  <2>8. PICK out \in Int : out = OutflowOf(landed)
    BY <1>6, <1>7
  <2>9. PICK fees \in Int : fees = Fee * Cardinality(failed)
    BY <1>8, <2>7
  <2>10. WalletBalance = StartBalance - out - fees
    BY <1>9, <2>8, <2>9
  <2>11. WalletBalance' \in Int /\ WalletBalance' >= WalletBalance - res
    <3>1. CASE d = "landed"
      <4>1. landed2 = landed \cup {t} /\ failed2 = failed
        BY <1>3, <1>4, <1>10, <1>11, <2>2, <3>1
      <4>2. landed2 \in SUBSET M /\ t \in landed2 /\ landed2 \ {t} = landed
        BY <1>6, <2>3, <4>1
      <4>3. OutflowOf(landed2) = Outflow(t) + out
        BY <1>1, <2>8, <4>2, MoneyAddsUp
      <4>4. OutflowOf(landed2)' = Outflow(t) + out
        BY <1>7, <4>2, <4>3
      <4>5. WalletBalance' = StartBalance - (Outflow(t) + out) - fees
        BY <1>13, <2>9, <4>1, <4>4
      <4> QED
        BY <2>7, <2>10, <4>5
    <3>2. CASE d = "failed"
      <4>1. failed2 = failed \cup {t} /\ landed2 = landed
        BY <1>3, <1>4, <1>10, <1>11, <2>2, <3>2
      <4>2. Cardinality(failed2) = Cardinality(failed) + 1
        BY <1>8, <2>3, <4>1, FS_AddElement
      <4>3. Fee * Cardinality(failed2) = fees + Fee
        BY <1>8, <2>7, <2>9, <4>2
      <4>4. OutflowOf(landed2)' = out
        BY <1>6, <1>7, <2>8, <4>1
      <4>5. WalletBalance' = StartBalance - out - (fees + Fee)
        BY <1>13, <4>3, <4>4
      <4> QED
        BY <2>7, <2>10, <4>5
    <3>3. CASE d = "dropped"
      <4>1. failed2 = failed /\ landed2 = landed
        BY <1>3, <1>4, <1>10, <1>11, <2>2, <3>3
      <4>2. OutflowOf(landed2)' = out
        BY <1>6, <1>7, <2>8, <4>1
      <4>3. WalletBalance' = StartBalance - out - fees
        BY <1>13, <2>9, <4>1, <4>2
      <4> QED
        BY <2>7, <2>10, <4>3
    <3> QED
      BY <3>1, <3>2, <3>3
  <2>12. WalletBalance \in Int
    BY <2>7, <2>10
  <2>13. ReservedOf(OnTheirWay(k))' = rest
    BY <1>12, <2>6
  <2>14. ReservedOf(OnTheirWay(k)) = res + rest
    BY <1>5, <2>6
  <2>15. PICK b \in Int : b = WalletBalance
    BY <2>12
  <2>16. PICK c \in Int : c = WalletBalance' /\ c >= b - res
    BY <2>11, <2>15
  <2>17. res + rest \in Int
    OBVIOUS
  <2>18. \A x, y, z, n \in Int : x >= y - z => x - n >= y - (z + n)
    OBVIOUS
  <2>19. c - rest >= b - (res + rest)
    BY <2>16, <2>18
  <2> QED
    BY <2>13, <2>14, <2>15, <2>16, <2>17, <2>19
<1> QED
  BY <1>14, <1>15

\* A step while nothing else is signed: the chain decides, time passes.
Meanwhile ==
    /\ UNCHANGED <<treasury_receipts, treasury_audits, transfer>> /\ UsedKept
    /\ UNCHANGED ledger \/ \E t \in Transfers : TransferDecided(t)

\* A step after which nothing waits to be sent, and which hands out no receipt.
NothingWaits ==
    /\ transfer'.step \notin {"reserved", "signing"}
    /\ \A k \in TreasuryKeys : treasury_receipts'[k].status = "none"
                                 => treasury_receipts[k].status = "none"
    /\ \A k \in TreasuryKeys : treasury_receipts[k].status = "none"
                                 => treasury_receipts'[k].status = "none"

\* Every step is one of these, a request, or its execution.
LEMMA StepsOfFunds ==
  ASSUME TreasuryInv, [TreasuryNext]_treasuryVars
  PROVE  \/ Meanwhile \/ NothingWaits \/ execute_mobile_treasury
         \/ \E a \in Authorizations, k \in TreasuryKeys, n \in Amounts : request_treasury(k, a, n)
<1>1. /\ authorizations \in [Authorizations -> AuthorizationRow]
      /\ treasury_receipts \in [TreasuryKeys -> TreasuryReceiptRow]
      /\ \A a \in Authorizations : authorizations[a] \in AuthorizationRow
      /\ \A k \in TreasuryKeys : treasury_receipts[k] \in TreasuryReceiptRow
      /\ transfer \in [step: TransferStep, of: Transfers \cup {"none"}]
  BY DEF TreasuryInv, TreasuryTypeOK
<1>2. CASE UNCHANGED treasuryVars
  BY <1>2 DEF treasuryVars, Meanwhile, UsedKept
<1>3. ASSUME NEW a \in Authorizations, PreviewExpires(a) \/ AuthorizationExpires(a) PROVE Meanwhile
  <2>1. \A b \in Authorizations : /\ authorizations'[b].status = authorizations[b].status
                                  /\ authorizations'[b].kind = authorizations[b].kind
    <3>1. PICK row : authorizations' = [authorizations EXCEPT ![a] = row]
                     /\ row.status = authorizations[a].status /\ row.kind = authorizations[a].kind
      <4>1. CASE PreviewExpires(a)
        <5>1. PICK row : row = [authorizations[a] EXCEPT !.shown = 0]
          OBVIOUS
        <5>2. row.status = authorizations[a].status /\ row.kind = authorizations[a].kind
          BY <1>1, <5>1 DEF AuthorizationRow
        <5>3. authorizations' = [authorizations EXCEPT ![a] = row]
          BY <1>1, <4>1, <5>1 DEF PreviewExpires
        <5> QED
          BY <5>2, <5>3
      <4>2. CASE AuthorizationExpires(a)
        <5>1. PICK row : row = [authorizations[a] EXCEPT !.fresh = FALSE, !.shown = 0]
          OBVIOUS
        <5>2. row.status = authorizations[a].status /\ row.kind = authorizations[a].kind
          BY <1>1, <5>1 DEF AuthorizationRow
        <5>3. authorizations' = [authorizations EXCEPT ![a] = row]
          BY <1>1, <4>2, <5>1 DEF AuthorizationExpires
        <5> QED
          BY <5>2, <5>3
      <4> QED
        BY <1>3, <4>1, <4>2
    <3>2. ASSUME NEW b \in Authorizations
          PROVE  /\ authorizations'[b].status = authorizations[b].status
                 /\ authorizations'[b].kind = authorizations[b].kind
      BY <1>1, <3>1
    <3> QED
      BY <3>2
  <2> QED
    BY <1>3, <2>1 DEF Meanwhile, UsedKept, PreviewExpires, AuthorizationExpires
<1>4. ASSUME NEW a \in Authorizations, NEW n \in Amounts,
             preview(a, n) \/ \E kind \in TreasuryKinds : authorize_destination(a, kind, n)
      PROVE  NothingWaits
  BY <1>4 DEF preview, authorize_destination, NothingWaits
<1>5. ASSUME NEW t \in Transfers, TransferDecided(t) PROVE Meanwhile
  BY <1>5 DEF Meanwhile, TransferDecided, UsedKept
<1>6. CASE TreasuryCrash
  BY <1>6 DEF TreasuryCrash, NoTransfer, NothingWaits
<1>7. CASE finish_profit_sweep
  BY <1>7 DEF finish_profit_sweep, NoTransfer, NothingWaits
<1>8. ASSUME NEW t \in AutoSweeps, maybe_run_profit_sweep(t) PROVE NothingWaits
  BY <1>8 DEF maybe_run_profit_sweep, NothingWaits
<1>9. ASSUME NEW t \in Transfers, NEW answer, recover_treasury_audit(t, answer) PROVE NothingWaits
  BY <1>9 DEF recover_treasury_audit, NothingWaits
<1>10. ASSUME NEW k \in TreasuryKeys, NEW answer, treasury_action(k, answer) PROVE NothingWaits
  <2>1. PICK verdict : verdict = TreasuryVerdict(k, answer)
    OBVIOUS
  <2>2. verdict # "none"
    <3>1. ledger[k] \in LedgerState
      BY TreasuryConstants DEF TreasuryInv, TreasuryTypeOK
    <3>2. answer \in LedgerState \cup {"unavailable"}
      BY <1>10, <3>1 DEF treasury_action
    <3> QED
      BY <2>1, <3>2 DEF TreasuryVerdict, treasury_receipt_status, LedgerState
  <2>3. /\ treasury_receipts' = [treasury_receipts EXCEPT ![k].status = verdict]
        /\ treasury_receipts[k].status # "none"
        /\ transfer' = transfer /\ transfer.step = "idle"
    BY <1>10, <2>1 DEF treasury_action, ReceiptOutstanding
  <2> QED
    BY <1>1, <2>2, <2>3 DEF NothingWaits, TreasuryReceiptRow
<1>11. CASE save_treasury_receipt
  <2>1. /\ \A k \in TreasuryKeys : k # transfer.of => treasury_receipts'[k] = treasury_receipts[k]
        /\ transfer.of \in TreasuryKeys /\ treasury_receipts[transfer.of].status # "none"
        /\ treasury_receipts'[transfer.of].status # "none"
        /\ transfer' = NoTransfer
    BY <1>1, <1>11 DEF save_treasury_receipt, TreasuryInv, TransferPlaced, TreasuryReceiptRow
  <2> QED
    BY <2>1 DEF NothingWaits, NoTransfer
<1>12. CASE complete_mobile_treasury_audit
  BY <1>1, <1>12 DEF complete_mobile_treasury_audit, NothingWaits
<1>13. CASE transfer_sol \/ treasury_raises
  BY <1>1, <1>13 DEF transfer_sol, treasury_raises, NothingWaits
<1>14. CASE TreasuryHandlerStep
  BY <1>11, <1>12, <1>13, <1>14 DEF TreasuryHandlerStep
<1>15. CASE TreasuryNext
  BY <1>3, <1>4, <1>5, <1>6, <1>7, <1>8, <1>9, <1>10, <1>14, <1>15 DEF TreasuryNext
<1> QED
  BY <1>2, <1>15

\* One receipt more at most.
LEMMA RequestedStaysFinite ==
  ASSUME IsFiniteSet(Requested), NEW x,
         \A k \in TreasuryKeys \ {x} : treasury_receipts[k].status = "none"
                                         => treasury_receipts'[k].status = "none"
  PROVE  IsFiniteSet(Requested')
<1>1. Requested' \subseteq Requested \cup {x}
  BY DEF Requested
<1> QED
  BY <1>1, FS_AddElement, FS_Subset

\* The preflight of an execution counts what is on its way, and leaves the reserve.
LEMMA ExecutionIsFunded ==
  ASSUME TreasuryInv, TreasuryInv', FundsHold, execute_mobile_treasury
  PROVE  FundsHold'
<1>1. PICK k : k = transfer.of
  OBVIOUS
<1>2. /\ k \in TreasuryKeys /\ k \in Transfers /\ transfer.step = "reserved"
      /\ transfer'.of = k /\ transfer'.step = "signing"
      /\ UNCHANGED <<authorizations, treasury_receipts, ledger, treasury_crashes>>
      /\ Preflight(TreasuryKind(k), treasury_receipts[k].amount, {k})
      /\ TreasuryKind(k) = "withdrawal" => treasury_audits' = treasury_audits
      /\ TreasuryKind(k) # "withdrawal" =>
            treasury_audits' = [treasury_audits EXCEPT ![k] = [status |-> "submitting", sig |-> FALSE]]
  BY <1>1, TreasuryConstants DEF TreasuryInv, TreasuryTypeOK, TransferPlaced,
     execute_mobile_treasury, bind_mobile_treasury_execution_audit
<1>3. IsFiniteSet(Requested) /\ Requested' = Requested /\ ledger[k] = "unsent"
  BY <1>1, <1>2 DEF FundsHold, Requested
<1>4. ASSUME TreasuryKind(k)' # "rent_recovery", ~SweepCutOff'
      PROVE  (WalletBalance - ReservedOf(OnTheirWay(k)) - Reserved(k))' >= SweepReserve
  <2>1. TreasuryKind(k) # "rent_recovery"
    BY <1>2, <1>4 DEF TreasuryKind
  <2>2. ~SweepCutOff
    <3>1. \A t \in AutoSweeps : treasury_audits'[t] = treasury_audits[t]
      BY <1>2, TreasuryConstants DEF TreasuryInv, TreasuryTypeOK
    <3> QED
      BY <1>2, <1>4, <3>1 DEF SweepCutOff
  <2>3. k \in Requested
    BY <1>1, <1>2 DEF Requested, TreasuryInv, TransferPlaced
  <2>4. PICK pending : pending = {j \in TreasuryKeys \ {k} : ReceiptOutstanding(j)}
    OBVIOUS
  <2>5. OnTheirWay(k) \subseteq pending
    <3> SUFFICES ASSUME NEW t \in Transfers, t # k, ledger[t] = "sent"
                 PROVE  t \in TreasuryKeys /\ ReceiptOutstanding(t)
      BY <2>4 DEF OnTheirWay
    <3>1. CASE t \in AutoSweeps
      <4>1. ~UnresolvedTransfer(t)
        BY <1>2 DEF Preflight
      <4>2. treasury_audits[t].status \notin {"ready", "stale"}
        BY <2>2, <3>1 DEF SweepCutOff
      <4>3. treasury_audits[t].status # "none"
        BY <3>1 DEF TreasuryInv, AuditsHold, IsSweep
      <4>4. treasury_audits[t].status \in TreasuryAuditStatus
        BY DEF TreasuryInv, TreasuryTypeOK, TreasuryAuditRow
      <4>5. treasury_audits[t].status \notin {"confirmed", "reconciled"}
        BY <3>1 DEF FundsHold
      <4> QED
        BY <4>1, <4>2, <4>3, <4>4, <4>5 DEF UnresolvedTransfer, TreasuryAuditStatus
    <3>2. CASE t \in TreasuryKeys
      BY <3>2 DEF TreasuryInv, ReceiptTellsLedger
    <3> QED
      BY <3>1, <3>2, TreasuryConstants
  <2>6. pending \subseteq Made
    <3>1. pending \subseteq Requested
      BY <2>4 DEF Requested, ReceiptOutstanding
    <3> QED
      BY <3>1 DEF Made
  <2>7. PICK sent : sent = OnTheirWay(k)
    OBVIOUS
  <2>8. ReservedOf(sent) <= ReservedOf(pending) /\ ReservedOf(sent) \in Int
        /\ ReservedOf(pending) \in Int
    <3>1. sent \in SUBSET pending /\ pending \in SUBSET Made /\ sent \in SUBSET Made
      BY <2>5, <2>6, <2>7
    <3> QED
      BY <1>3, <3>1, MoneyAddsUp
  <2>9. PICK res \in Int : res = Reserved(k) /\ res = Fee + treasury_receipts[k].amount
    <3>1. TransferAmount(k) = treasury_receipts[k].amount
      BY <1>2, TreasuryConstants DEF TransferAmount
    <3> QED
      BY <1>2, <2>1, <3>1, MoneyTyped
  <2>10. WalletBalance - ReservedOf(pending) - treasury_receipts[k].amount - Fee >= SweepReserve
    <3>1. pending_mobile_treasury_reservation({k}) = ReservedOf(pending)
      BY <2>4, SumsNamed
    <3>2. CASE TreasuryKind(k) = "withdrawal"
      BY <1>2, <3>1, <3>2 DEF Preflight
    <3>3. CASE TreasuryKind(k) = "profit_sweep"
      BY <1>2, <3>1, <3>3 DEF Preflight, SweepPolicy
    <3>4. TreasuryKind(k) \in TreasuryKinds
      <4>1. authorizations[treasury_receipts[k].auth] \in AuthorizationRow
        BY <1>2, <2>3 DEF TreasuryInv, TreasuryTypeOK, ReceiptsHold, Requested
      <4>2. TreasuryKind(k) = authorizations[treasury_receipts[k].auth].kind
        BY <1>2, TreasuryConstants DEF TreasuryKind
      <4> QED
        BY <4>1, <4>2 DEF AuthorizationRow
    <3> QED
      BY <2>1, <3>2, <3>3, <3>4, TreasuryAssumption
  <2>11. UsedKept
    BY <1>2 DEF UsedKept
  <2>12. Reserved(k)' = res
    BY <1>2, <2>9 DEF Reserved, TreasuryKind, TransferAmount
  <2>13. /\ WalletBalance \in Int /\ WalletBalance' \in Int
         /\ ReservedOf(OnTheirWay(k))' \in Int
         /\ WalletBalance' - ReservedOf(OnTheirWay(k))' >= WalletBalance - ReservedOf(sent)
    BY <1>2, <1>3, <2>7, <2>11, WalletKeepsUp
  <2>15. treasury_receipts[k].amount \in Int
    BY <1>2, AmountsTyped
  <2>14. PICK b \in Int, p \in Int, m \in Int :
            /\ b = WalletBalance /\ p = ReservedOf(pending)
            /\ m = treasury_receipts[k].amount
    BY <2>8, <2>13, <2>15
  <2>16. PICK c \in Int, q \in Int, r \in Int :
            /\ c = WalletBalance' /\ q = ReservedOf(OnTheirWay(k))' /\ r = ReservedOf(sent)
    BY <2>8, <2>13
  <2>17. /\ c - q >= b - r /\ r <= p /\ b - p - m - Fee >= SweepReserve /\ res = Fee + m
         /\ Fee \in Int /\ SweepReserve \in Int
    BY <2>8, <2>9, <2>10, <2>13, <2>14, <2>16, MoneyTyped
  <2>18. \A u, v, w, x, y, z, f, s \in Int :
            u - v >= w - x /\ x <= y /\ w - y - z - f >= s => u - v - (f + z) >= s
    OBVIOUS
  <2>19. c - q - (Fee + m) >= SweepReserve
    BY <2>17, <2>18
  <2> QED
    BY <2>12, <2>16, <2>17, <2>19
<1>5. \A t \in AutoSweeps : treasury_audits'[t].status \in {"confirmed", "reconciled"}
                               => ledger'[t] = "landed"
  <2>1. \A t \in AutoSweeps : treasury_audits'[t] = treasury_audits[t]
    BY <1>2, TreasuryConstants DEF TreasuryInv, TreasuryTypeOK
  <2> QED
    BY <1>2, <2>1 DEF FundsHold
<1>6. IsFiniteSet(Requested') /\ ledger'[k] = "unsent"
  BY <1>2, <1>3
<1> QED
  BY <1>2, <1>4, <1>5, <1>6 DEF FundsHold

\* While the phone's transfer is signed, the chain decides of others.
LEMMA FundsStay ==
  ASSUME TreasuryInv, FundsHold, Meanwhile
  PROVE  FundsHold'
<1>1. PICK k : k = transfer.of
  OBVIOUS
<1>2. /\ UNCHANGED <<treasury_receipts, treasury_audits, transfer>> /\ UsedKept
      /\ IsFiniteSet(Requested)
  BY DEF Meanwhile, FundsHold
<1>3. \/ UNCHANGED ledger
      \/ \E t \in Transfers : /\ ledger[t] = "sent"
                              /\ \A u \in Transfers : u # t => ledger'[u] = ledger[u]
                              /\ ledger'[t] # "unsent"
  BY DEF Meanwhile, TransferDecided, TreasuryInv, TreasuryTypeOK
<1>4. \A t \in Transfers : /\ ledger'[t] = "unsent" <=> ledger[t] = "unsent"
                           /\ ledger[t] = "landed" => ledger'[t] = "landed"
  BY <1>3
<1>5. IsFiniteSet(Requested')
  BY <1>2 DEF Requested
<1>6. transfer'.step \in {"reserved", "signing"} => ledger'[transfer'.of] = "unsent"
  BY <1>2, <1>4, TreasuryConstants DEF FundsHold, TreasuryInv, TransferPlaced
<1>7. transfer'.step = "sweeping" => treasury_audits'[transfer'.of].status = "ready"
  BY <1>2 DEF FundsHold
<1>8. \A t \in AutoSweeps : treasury_audits'[t].status \in {"confirmed", "reconciled"}
                               => ledger'[t] = "landed"
  BY <1>2, <1>4, TreasuryConstants DEF FundsHold
<1>9. ASSUME transfer.step = "signing", TreasuryKind(k)' # "rent_recovery", ~SweepCutOff'
      PROVE  (WalletBalance - ReservedOf(OnTheirWay(k)) - Reserved(k))' >= SweepReserve
  <2>1. k \in TreasuryKeys /\ k \in Requested /\ k \in Made /\ ledger[k] = "unsent"
    BY <1>1, <1>9 DEF TreasuryInv, TransferPlaced, Requested, Made, FundsHold
  <2>2. TreasuryKind(k)' = TreasuryKind(k) /\ Reserved(k)' = Reserved(k)
    BY <1>2, <2>1, MoneyKept
  <2>3. ~SweepCutOff
    BY <1>2, <1>4, <1>9, TreasuryConstants DEF SweepCutOff
  <2>4. WalletBalance - ReservedOf(OnTheirWay(k)) - Reserved(k) >= SweepReserve
    BY <1>1, <1>9, <2>2, <2>3 DEF FundsHold
  <2>5. UNCHANGED ledger \/ \E t \in Transfers \ {k} : TransferDecided(t)
    BY <2>1 DEF Meanwhile, TransferDecided
  <2>6. /\ WalletBalance \in Int /\ ReservedOf(OnTheirWay(k)) \in Int
        /\ WalletBalance' \in Int /\ ReservedOf(OnTheirWay(k))' \in Int
        /\ WalletBalance' - ReservedOf(OnTheirWay(k))'
             >= WalletBalance - ReservedOf(OnTheirWay(k))
    BY <1>2, <2>1, <2>5, WalletKeepsUp
  <2>7. PICK b \in Int, r \in Int, c \in Int, q \in Int :
           /\ b = WalletBalance /\ r = ReservedOf(OnTheirWay(k))
           /\ c = WalletBalance' /\ q = ReservedOf(OnTheirWay(k))'
    BY <2>6
  <2>8. PICK res \in Int : res = Reserved(k)
    BY <2>1, TreasuryConstants, MoneyTyped
  <2>9. c - q >= b - r /\ b - r - res >= SweepReserve /\ SweepReserve \in Int
    BY <2>4, <2>6, <2>7, <2>8, MoneyTyped
  <2>10. c - q - res >= SweepReserve
    BY <2>9
  <2> QED
    BY <2>2, <2>7, <2>8, <2>10
<1> QED
  BY <1>1, <1>2, <1>5, <1>6, <1>7, <1>8, <1>9 DEF FundsHold


\* What FundsHold says of the autonomous sweep.
SweepsSettled ==
    /\ transfer.step = "sweeping" => treasury_audits[transfer.of].status = "ready"
    /\ \A t \in AutoSweeps :
          treasury_audits[t].status \in {"confirmed", "reconciled"} => ledger[t] = "landed"

\* Its audits are made ready, sent, and settled by what the chain says.
LEMMA SweepsSettle ==
  ASSUME TreasuryInv, SweepsSettled, [TreasuryNext]_treasuryVars
  PROVE  SweepsSettled'
<1>1. /\ treasury_audits \in [Transfers -> TreasuryAuditRow]
      /\ \A t \in Transfers : treasury_audits[t] \in TreasuryAuditRow
      /\ ledger \in [Transfers -> LedgerState]
      /\ AutoSweeps \subseteq Transfers
      /\ transfer \in [step: TransferStep, of: Transfers \cup {"none"}]
  BY TreasuryConstants DEF TreasuryInv, TreasuryTypeOK
<1>2. ASSUME UNCHANGED transfer \/ transfer'.step # "sweeping",
             \A t \in AutoSweeps : treasury_audits'[t] = treasury_audits[t] /\ ledger'[t] = ledger[t]
      PROVE  SweepsSettled'
  BY <1>2 DEF SweepsSettled, TreasuryInv, TransferPlaced
<1>3. CASE UNCHANGED <<transfer, treasury_audits, ledger>>
  BY <1>2, <1>3
<1>4. ASSUME NEW a \in Authorizations, NEW k \in TreasuryKeys, NEW n \in Amounts,
             request_treasury(k, a, n)
      PROVE  SweepsSettled'
  BY <1>2, <1>4 DEF request_treasury
<1>5. CASE TreasuryHandlerStep
  <2>1. transfer.of \in TreasuryKeys /\ transfer.of \notin AutoSweeps
    BY <1>5, TreasuryConstants DEF TreasuryHandlerStep, execute_mobile_treasury, treasury_raises,
       transfer_sol, complete_mobile_treasury_audit, save_treasury_receipt, TreasuryInv, TransferPlaced
  <2>2. transfer'.step # "sweeping"
    BY <1>1, <1>5 DEF TreasuryHandlerStep, execute_mobile_treasury, treasury_raises,
       transfer_sol, complete_mobile_treasury_audit, save_treasury_receipt, NoTransfer
  <2>3. ASSUME NEW t \in AutoSweeps
        PROVE  treasury_audits'[t] = treasury_audits[t] /\ ledger'[t] = ledger[t]
    <3>1. t # transfer.of /\ t \in Transfers
      BY <1>1, <2>1
    <3> QED
      BY <1>1, <1>5, <3>1 DEF TreasuryHandlerStep, execute_mobile_treasury,
         bind_mobile_treasury_execution_audit, treasury_raises,
         transfer_sol, complete_mobile_treasury_audit, save_treasury_receipt
  <2> QED
    BY <1>2, <2>2, <2>3
<1>6. ASSUME NEW k \in TreasuryKeys, NEW answer, treasury_action(k, answer)
      PROVE  SweepsSettled'
  <2>1. UNCHANGED <<transfer, ledger>>
    BY <1>6 DEF treasury_action
  <2>2. \A t \in AutoSweeps : t # k /\ t \in Transfers
    BY TreasuryConstants
  <2>3. \A t \in AutoSweeps : treasury_audits'[t] = treasury_audits[t]
    BY <1>1, <1>6, <2>2 DEF treasury_action
  <2> QED
    BY <1>2, <2>1, <2>3
<1>7. ASSUME NEW t \in Transfers, NEW answer, recover_treasury_audit(t, answer)
      PROVE  SweepsSettled'
  <2>1. PICK s \in RecoveredTransfer(t, answer) :
           treasury_audits' = [treasury_audits EXCEPT ![t].status = s]
    BY <1>7 DEF recover_treasury_audit
  <2>2. /\ transfer' = transfer /\ transfer.step = "idle" /\ ledger' = ledger
        /\ answer \in {ledger[t], "unavailable"} /\ ledger[t] \in LedgerState
    BY <1>1, <1>7 DEF recover_treasury_audit
  <2>3. s \in {"confirmed", "reconciled"} => ledger[t] = "landed"
    BY <2>2 DEF RecoveredTransfer, LedgerState
  <2>4. treasury_audits'[t].status = s
    BY <1>1, <2>1 DEF TreasuryAuditRow
  <2>5. \A u \in Transfers : u # t => treasury_audits'[u] = treasury_audits[u]
    BY <1>1, <2>1
  <2> QED
    BY <1>1, <2>2, <2>3, <2>4, <2>5 DEF SweepsSettled
<1>8. ASSUME NEW t \in AutoSweeps, maybe_run_profit_sweep(t)
      PROVE  SweepsSettled'
  <2>1. /\ transfer' = [step |-> "sweeping", of |-> t] /\ ledger' = ledger
        /\ treasury_audits' = [treasury_audits EXCEPT ![t].status = "ready"]
    BY <1>8 DEF maybe_run_profit_sweep
  <2>2. treasury_audits'[t].status = "ready"
    BY <1>1, <2>1 DEF TreasuryAuditRow
  <2>3. \A u \in Transfers : u # t => treasury_audits'[u] = treasury_audits[u]
    BY <1>1, <2>1
  <2> QED
    BY <1>1, <2>1, <2>2, <2>3 DEF SweepsSettled
<1>9. CASE finish_profit_sweep
  <2>1. PICK t : t = transfer.of
    OBVIOUS
  <2>2. /\ t \in AutoSweeps /\ t \in Transfers /\ treasury_audits[t].status = "ready"
        /\ transfer' = NoTransfer
    BY <1>1, <1>9, <2>1 DEF finish_profit_sweep, TreasuryInv, TransferPlaced, SweepsSettled
  <2>3. treasury_audits'[t].status \in {"ready", "submitted", "failed"}
    BY <1>1, <1>9, <2>1, <2>2 DEF finish_profit_sweep
  <2>4. \A u \in Transfers : u # t => treasury_audits'[u] = treasury_audits[u]
                                      /\ ledger'[u] = ledger[u]
    BY <1>1, <1>9, <2>1 DEF finish_profit_sweep
  <2> QED
    BY <1>1, <2>2, <2>3, <2>4 DEF SweepsSettled, NoTransfer
<1>10. ASSUME NEW t \in Transfers, TransferDecided(t)
       PROVE  SweepsSettled'
  <2>1. UNCHANGED <<transfer, treasury_audits>> /\ ledger[t] = "sent"
        /\ \A u \in Transfers : u # t => ledger'[u] = ledger[u]
    BY <1>1, <1>10 DEF TransferDecided
  <2> QED
    BY <1>1, <2>1 DEF SweepsSettled
<1>11. CASE TreasuryCrash
  BY <1>2, <1>11 DEF TreasuryCrash, NoTransfer
<1>12. ASSUME NEW a \in Authorizations,
              \/ \E kind \in TreasuryKinds, n \in Amounts : authorize_destination(a, kind, n)
              \/ \E n \in Amounts : preview(a, n)
              \/ PreviewExpires(a) \/ AuthorizationExpires(a)
       PROVE  SweepsSettled'
  BY <1>3, <1>12 DEF authorize_destination, preview, PreviewExpires, AuthorizationExpires
<1>13. CASE UNCHANGED treasuryVars
  BY <1>3, <1>13 DEF treasuryVars
<1> QED
  BY <1>4, <1>5, <1>6, <1>7, <1>8, <1>9, <1>10, <1>11, <1>12, <1>13 DEF TreasuryNext

\* The invariant of the money.
LEMMA FundsInitially == TreasuryInit => FundsHold
<1> SUFFICES ASSUME TreasuryInit PROVE FundsHold
  OBVIOUS
<1>1. Requested = {} /\ transfer.step = "idle"
  BY DEF TreasuryInit, Requested, NoTransfer
<1>2. \A t \in AutoSweeps : treasury_audits[t].status = "none"
  BY TreasuryConstants DEF TreasuryInit
<1> QED
  BY <1>1, <1>2, FS_EmptySet DEF FundsHold

\* ... is preserved by each step.
LEMMA FundsStep ==
  TreasuryInv /\ TreasuryInv' /\ FundsHold /\ [TreasuryNext]_treasuryVars => FundsHold'
<1> SUFFICES ASSUME TreasuryInv, TreasuryInv', FundsHold, [TreasuryNext]_treasuryVars
             PROVE  FundsHold'
  OBVIOUS
<1>1. SweepsSettled'
  <2>1. SweepsSettled
    BY DEF FundsHold, SweepsSettled
  <2> QED
    BY <2>1, SweepsSettle
<1>2. CASE Meanwhile
  BY <1>2, FundsStay
<1>3. CASE execute_mobile_treasury
  BY <1>3, ExecutionIsFunded
<1>4. CASE NothingWaits
  <2>1. IsFiniteSet(Requested) /\ transfer'.step \notin {"reserved", "signing"}
    BY <1>4 DEF FundsHold, NothingWaits
  <2>2. Requested' = Requested
    BY <1>4 DEF NothingWaits, Requested
  <2> QED
    BY <1>1, <2>1, <2>2 DEF FundsHold, SweepsSettled
<1>5. ASSUME NEW a \in Authorizations, NEW k \in TreasuryKeys, NEW n \in Amounts,
             request_treasury(k, a, n)
      PROVE  FundsHold'
  <2>1. /\ transfer' = [step |-> "reserved", of |-> k] /\ ledger' = ledger
        /\ treasury_receipts[k].status = "none"
        /\ \A j \in TreasuryKeys : j # k => treasury_receipts'[j] = treasury_receipts[j]
    BY <1>5 DEF request_treasury, TreasuryInv, TreasuryTypeOK
  <2>2. ledger'[k] = "unsent"
    BY <2>1 DEF TreasuryInv, ReceiptsHold
  <2>3. IsFiniteSet(Requested')
    <3>1. \A j \in TreasuryKeys \ {k} : treasury_receipts[j].status = "none"
                                            => treasury_receipts'[j].status = "none"
      BY <2>1
    <3> QED
      BY <3>1, RequestedStaysFinite DEF FundsHold
  <2> QED
    BY <1>1, <2>1, <2>2, <2>3 DEF FundsHold, SweepsSettled
<1> QED
  BY <1>2, <1>3, <1>4, <1>5, StepsOfFunds

\* What is on its way takes no more than is reserved for it.
LEMMA ReserveIsLeft ==
  ASSUME TreasuryInv, FundsHold, [TreasuryNext]_treasuryVars, NEW k \in TreasuryKeys,
         Sends(k), TreasuryKind(k) # "rent_recovery", ~SweepCutOff
  PROVE  WalletBalance - Outflow(k)
           - MapThenSumSet(Outflow, {t \in Transfers \ {k} : ledger[t] = "sent" /\ Outflow(t) > 0})
         >= SweepReserve
<1>1. WalletBalance - ReservedOf(OnTheirWay(k)) - Reserved(k) >= SweepReserve
  BY SigningSends DEF FundsHold
<1>2. PICK some : some = {t \in Transfers \ {k} : ledger[t] = "sent" /\ Outflow(t) > 0}
  OBVIOUS
<1>3. PICK way : way = OnTheirWay(k)
  OBVIOUS
<1>4. IsFiniteSet(Requested)
  BY DEF FundsHold
<1>5. way \in SUBSET Made /\ some \in SUBSET way /\ some \in SUBSET Made
  BY <1>2, <1>3, <1>4, MadeAreFew DEF OnTheirWay
<1>6. /\ OutflowOf(some) <= ReservedOf(way)
      /\ OutflowOf(some) \in Int /\ ReservedOf(way) \in Int
  BY <1>4, <1>5, MoneyAddsUp
<1>7. Outflow(k) \in Int /\ Reserved(k) = Outflow(k) /\ SweepReserve \in Int
  BY TreasuryConstants, MoneyTyped
<1>8. WalletBalance \in Int
  BY <1>4, BalanceTyped
<1>9. WalletBalance - Outflow(k) - OutflowOf(some) >= SweepReserve
  <2>1. PICK b \in Int, o \in Int, r \in Int, s \in Int :
           /\ b = WalletBalance /\ o = Outflow(k) /\ r = ReservedOf(way) /\ s = OutflowOf(some)
    BY <1>6, <1>7, <1>8
  <2>2. b - r - o >= SweepReserve /\ s <= r
    BY <1>1, <1>3, <1>6, <1>7, <2>1
  <2>3. b - o - s >= SweepReserve
    BY <1>7, <2>2
  <2> QED
    BY <2>1, <2>3
<1> QED
  BY <1>2, <1>9, SumsNamed

-----------------------------------------------------------------------------
(***************************************************************************)
(* Refinement of PaidTransfer.  Of all the steps five can be seen there:   *)
(* the desktop's authorization, the phone's request, the transfer that is  *)
(* sent, the chain's decision and the poll.  That a transfer is sent once  *)
(* is what TransferPlaced says of the ledger before the handler signs.     *)
(***************************************************************************)

\* What PaidTransfer sees of an authorization and of a key.
Allowance(a) == IF authorizations[a].status = "none" THEN 0 ELSE authorizations[a].max
AllowancesStay == \A a \in Authorizations : Allowance(a)' = Allowance(a)
PaymentsStay == \A k \in TreasuryKeys :
    /\ treasury_receipts'[k].auth = treasury_receipts[k].auth
    /\ treasury_receipts'[k].amount = treasury_receipts[k].amount
TellingsStay == \A k \in TreasuryKeys :
    ReceiptTells(treasury_receipts'[k]) = ReceiptTells(treasury_receipts[k])
ChainStays == \A k \in TreasuryKeys : ledger'[k] = ledger[k]

\* A step that changes nothing of it is a stutter of PaidTransfer.
LEMMA NothingSeen ==
  ASSUME AllowancesStay, PaymentsStay, TellingsStay, ChainStays
  PROVE  UNCHANGED Paid!vars
BY DEF AllowancesStay, PaymentsStay, TellingsStay, ChainStays, Allowance, Paid!vars

\* A used or running authorization allows what it allowed.
LEMMA AllowedBefore ==
  ASSUME TreasuryInv, NEW a \in Authorizations, NEW row,
         authorizations' = [authorizations EXCEPT ![a] = row],
         authorizations[a].status # "none" /\ row.status # "none",
         row.max = authorizations[a].max
  PROVE  AllowancesStay
BY DEF TreasuryInv, TreasuryTypeOK, AllowancesStay, Allowance

\* The authorization is PaidTransfer's; its preview and its expiry are not seen.
LEMMA AuthorizingRefines ==
  ASSUME TreasuryInv, NEW a \in Authorizations, NEW n \in Amounts, NEW kind \in TreasuryKinds,
         authorize_destination(a, kind, n)
  PROVE  Paid!Allow(a, n)
<1>1. /\ authorizations \in [Authorizations -> AuthorizationRow]
      /\ authorizations[a] \in AuthorizationRow /\ authorizations[a].status = "none"
      /\ UNCHANGED <<treasury_receipts, ledger>>
  BY DEF TreasuryInv, TreasuryTypeOK, authorize_destination
<1>2. PICK row : row = [authorizations[a] EXCEPT !.status = "unused", !.fresh = TRUE,
                                               !.kind = kind, !.max = n]
  OBVIOUS
<1>3. row.status = "unused" /\ row.max = n
  BY <1>1, <1>2 DEF AuthorizationRow
<1>4. authorizations' = [authorizations EXCEPT ![a] = row]
  BY <1>1, <1>2 DEF authorize_destination
<1> QED
  BY <1>1, <1>3, <1>4 DEF Paid!Allow

\* Previews and the clock touch authorizations that were given and leave their
\* maximum.
LEMMA PreviewsStutter ==
  ASSUME TreasuryInv, NEW a \in Authorizations,
         \/ \E n \in Amounts : preview(a, n)
         \/ PreviewExpires(a) \/ AuthorizationExpires(a)
  PROVE  UNCHANGED Paid!vars
<1>1. /\ authorizations \in [Authorizations -> AuthorizationRow]
      /\ authorizations[a] \in AuthorizationRow
      /\ UNCHANGED <<treasury_receipts, ledger>>
  BY DEF TreasuryInv, TreasuryTypeOK, preview, PreviewExpires, AuthorizationExpires
<1>2. PICK row : /\ row.status = authorizations[a].status /\ row.max = authorizations[a].max
                 /\ authorizations' = [authorizations EXCEPT ![a] = row]
  <2>1. ASSUME NEW n, authorizations' = [authorizations EXCEPT ![a].shown = n]
        PROVE  \E row : /\ row.status = authorizations[a].status
                        /\ row.max = authorizations[a].max
                        /\ authorizations' = [authorizations EXCEPT ![a] = row]
    <3>1. PICK row : row = [authorizations[a] EXCEPT !.shown = n]
      OBVIOUS
    <3> QED
      BY <1>1, <2>1, <3>1 DEF AuthorizationRow
  <2>2. CASE AuthorizationExpires(a)
    <3>1. PICK row : row = [authorizations[a] EXCEPT !.fresh = FALSE, !.shown = 0]
      OBVIOUS
    <3>2. row.status = authorizations[a].status /\ row.max = authorizations[a].max
      BY <1>1, <3>1 DEF AuthorizationRow
    <3>3. authorizations' = [authorizations EXCEPT ![a] = row]
      BY <1>1, <2>2, <3>1 DEF AuthorizationExpires
    <3> QED
      BY <3>2, <3>3
  <2> QED
    BY <2>1, <2>2 DEF preview, attach_mobile_destination_preview, PreviewExpires
<1>3. AllowancesStay
  BY <1>1, <1>2 DEF AllowancesStay, Allowance
<1> QED
  BY <1>1, <1>3, NothingSeen DEF PaymentsStay, TellingsStay, ChainStays

\* The request pays with an authorization no other key pays with, within its
\* maximum.
LEMMA RequestRefines ==
  ASSUME TreasuryInv, NEW k \in TreasuryKeys, NEW a \in Authorizations, NEW n \in Amounts,
         request_treasury(k, a, n)
  PROVE  Paid!Pay(k, a, n)
<1>1. /\ authorizations \in [Authorizations -> AuthorizationRow]
      /\ treasury_receipts \in [TreasuryKeys -> TreasuryReceiptRow]
      /\ authorizations[a] \in AuthorizationRow /\ authorizations[a].status = "unused"
      /\ n <= authorizations[a].max
      /\ treasury_receipts[k].status = "none" /\ treasury_receipts[k].auth = "none"
      /\ \A j \in TreasuryKeys : treasury_receipts[j].auth # a
      /\ UNCHANGED ledger
  BY TreasuryConstants
     DEF TreasuryInv, TreasuryTypeOK, ReceiptsHold, request_treasury, Reservable, Authorized
<1>2. PICK used : used = Consumed(authorizations[a])
  OBVIOUS
<1>3. used.status = "used" /\ used.max = authorizations[a].max
  BY <1>1, <1>2 DEF Consumed, AuthorizationRow
<1>4. authorizations' = [authorizations EXCEPT ![a] = used]
  BY <1>1, <1>2 DEF request_treasury
<1>5. AllowancesStay
  BY <1>1, <1>3, <1>4, AllowedBefore
<1>6. PICK receipt : receipt = [status |-> "pending", auth |-> a, amount |-> n, sig |-> FALSE]
  OBVIOUS
<1>7. treasury_receipts' = [treasury_receipts EXCEPT ![k] = receipt]
  BY <1>6 DEF request_treasury
<1>8. TellingsStay
  BY <1>1, <1>6, <1>7 DEF TellingsStay, ReceiptTells
<1>9. /\ [j \in TreasuryKeys |-> treasury_receipts'[j].auth]
            = [[j \in TreasuryKeys |-> treasury_receipts[j].auth] EXCEPT ![k] = a]
      /\ [j \in TreasuryKeys |-> treasury_receipts'[j].amount]
            = [[j \in TreasuryKeys |-> treasury_receipts[j].amount] EXCEPT ![k] = n]
  BY <1>1, <1>6, <1>7
<1> QED
  BY <1>1, <1>5, <1>8, <1>9
     DEF Paid!Pay, AllowancesStay, Allowance, TellingsStay

\* The handler sends what it signs for the first time.
LEMMA SendRefines ==
  ASSUME TreasuryInv, transfer_sol
  PROVE  \E k \in TreasuryKeys : Paid!Send(k)
<1>1. PICK k \in TreasuryKeys : k = transfer.of
  BY DEF TreasuryInv, TransferPlaced, transfer_sol
<1>2. /\ k \in Transfers /\ ledger[k] = "unsent" /\ treasury_receipts[k].auth # "none"
      /\ ledger \in [Transfers -> LedgerState]
      /\ UNCHANGED <<authorizations, treasury_receipts>>
      /\ ledger' = [ledger EXCEPT ![k] = "sent"]
  BY <1>1, TreasuryConstants
     DEF TreasuryInv, TreasuryTypeOK, TransferPlaced, ReceiptsHold, transfer_sol
<1>3. [j \in TreasuryKeys |-> ledger'[j]] = [[j \in TreasuryKeys |-> ledger[j]] EXCEPT ![k] = "sent"]
  BY <1>2, TreasuryConstants
<1>4. Paid!Send(k)
  BY <1>2, <1>3 DEF Paid!Send
<1> QED
  BY <1>4

\* The chain's decision on a transfer of the phone is PaidTransfer's; on an
\* autonomous one it is not seen.
LEMMA DecisionRefines ==
  ASSUME TreasuryInv, NEW t \in Transfers, TransferDecided(t)
  PROVE  UNCHANGED Paid!vars \/ (t \in TreasuryKeys /\ Paid!Decide(t))
<1>1. PICK end \in {"landed", "failed", "dropped"} : ledger' = [ledger EXCEPT ![t] = end]
  BY DEF TransferDecided
<1>2. /\ ledger \in [Transfers -> LedgerState] /\ ledger[t] = "sent"
      /\ UNCHANGED <<authorizations, treasury_receipts>>
  BY DEF TreasuryInv, TreasuryTypeOK, TransferDecided
<1>3. CASE t \in TreasuryKeys
  <2>1. [j \in TreasuryKeys |-> ledger'[j]] = [[j \in TreasuryKeys |-> ledger[j]] EXCEPT ![t] = end]
    BY <1>1, <1>2, <1>3, TreasuryConstants
  <2> QED
    BY <1>2, <1>3, <2>1 DEF Paid!Decide
<1>4. CASE t \notin TreasuryKeys
  <2>1. ChainStays
    BY <1>1, <1>2, <1>4, TreasuryConstants DEF ChainStays
  <2> QED
    BY <1>2, <2>1, NothingSeen DEF AllowancesStay, Allowance, PaymentsStay, TellingsStay
<1> QED
  BY <1>3, <1>4

\* The poll tells the end of a transfer that was told of nothing, or nothing.
LEMMA PollRefines ==
  ASSUME TreasuryInv, NEW k \in TreasuryKeys, NEW answer \in LedgerState \cup {"unavailable"},
         treasury_action(k, answer)
  PROVE  UNCHANGED Paid!vars \/ Paid!Tell(k)
<1>1. PICK verdict : verdict = TreasuryVerdict(k, answer)
  OBVIOUS
<1>2. /\ treasury_receipts \in [TreasuryKeys -> TreasuryReceiptRow]
      /\ treasury_receipts[k] \in TreasuryReceiptRow
      /\ ReceiptOutstanding(k)
      /\ answer = ledger[k] \/ answer = "unavailable"
      /\ UNCHANGED <<authorizations, ledger>>
      /\ ledger[k] \in LedgerState
  BY TreasuryConstants DEF TreasuryInv, TreasuryTypeOK, treasury_action
<1>3. /\ verdict \in {"confirmed", "failed", "review_required", "verifying"}
      /\ verdict = "confirmed" => ledger[k] = "landed"
      /\ verdict = "failed" => ledger[k] = "failed"
  BY <1>1, <1>2 DEF TreasuryVerdict, treasury_receipt_status
<1>4. PICK row : row = [treasury_receipts[k] EXCEPT !.status = verdict]
  OBVIOUS
<1>5. /\ row.status = verdict /\ row.auth = treasury_receipts[k].auth
      /\ row.amount = treasury_receipts[k].amount
  BY <1>2, <1>4 DEF TreasuryReceiptRow
<1>6. treasury_receipts' = [treasury_receipts EXCEPT ![k] = row]
  BY <1>1, <1>2, <1>4 DEF treasury_action
<1>7. PaymentsStay
  BY <1>2, <1>5, <1>6 DEF PaymentsStay
<1>8. ReceiptTells(treasury_receipts[k]) = "nothing"
  BY <1>2 DEF ReceiptTells, ReceiptOutstanding
<1>9. CASE verdict \in {"confirmed", "failed"}
  <2>1. ReceiptTells(row) = verdict
    BY <1>5, <1>9 DEF ReceiptTells
  <2>2. [j \in TreasuryKeys |-> ReceiptTells(treasury_receipts'[j])]
          = [[j \in TreasuryKeys |-> ReceiptTells(treasury_receipts[j])] EXCEPT ![k] = verdict]
    BY <1>2, <1>6, <2>1
  <2> QED
    BY <1>2, <1>3, <1>7, <1>8, <1>9, <2>2 DEF Paid!Tell, PaymentsStay
<1>10. CASE verdict \notin {"confirmed", "failed"}
  <2>1. ReceiptTells(row) = "nothing"
    BY <1>5, <1>10 DEF ReceiptTells
  <2>2. TellingsStay
    BY <1>2, <1>6, <1>8, <2>1 DEF TellingsStay
  <2> QED
    BY <1>2, <1>7, <2>2, NothingSeen DEF AllowancesStay, Allowance, ChainStays
<1> QED
  BY <1>9, <1>10

\* The receipt of a request that is over is pending before and verified after.
LEMMA SaveStutters ==
  ASSUME TreasuryInv, save_treasury_receipt
  PROVE  UNCHANGED Paid!vars
<1>1. PICK k \in TreasuryKeys : k = transfer.of
  BY DEF TreasuryInv, TransferPlaced, save_treasury_receipt
<1>2. /\ treasury_receipts \in [TreasuryKeys -> TreasuryReceiptRow]
      /\ treasury_receipts[k] \in TreasuryReceiptRow /\ treasury_receipts[k].status = "pending"
      /\ UNCHANGED <<authorizations, ledger>>
  BY <1>1 DEF TreasuryInv, TreasuryTypeOK, TransferPlaced, save_treasury_receipt
<1>3. PICK row : row = [treasury_receipts[k] EXCEPT !.status = "verifying",
                                                   !.sig = (transfer.step = "audited")]
  OBVIOUS
<1>4. /\ row.status = "verifying" /\ row.auth = treasury_receipts[k].auth
      /\ row.amount = treasury_receipts[k].amount
  BY <1>2, <1>3 DEF TreasuryReceiptRow
<1>5. treasury_receipts' = [treasury_receipts EXCEPT ![k] = row]
  BY <1>1, <1>2, <1>3 DEF save_treasury_receipt
<1>6. PaymentsStay /\ TellingsStay
  BY <1>2, <1>4, <1>5 DEF PaymentsStay, TellingsStay, ReceiptTells
<1> QED
  BY <1>2, <1>6, NothingSeen DEF AllowancesStay, Allowance, ChainStays

\* The other steps change no authorization, no receipt and nothing of the phone's
\* on the chain.
LEMMA OthersStutter ==
  ASSUME TreasuryInv,
         \/ UNCHANGED treasuryVars
         \/ execute_mobile_treasury \/ treasury_raises \/ complete_mobile_treasury_audit
         \/ \E t \in Transfers : \E answer \in LedgerState \cup {"unavailable"} :
               recover_treasury_audit(t, answer)
         \/ \E t \in AutoSweeps : maybe_run_profit_sweep(t)
         \/ finish_profit_sweep \/ TreasuryCrash
  PROVE  UNCHANGED Paid!vars
<1>1. UNCHANGED <<authorizations, treasury_receipts>>
  BY DEF treasuryVars, execute_mobile_treasury, treasury_raises, complete_mobile_treasury_audit,
     recover_treasury_audit, maybe_run_profit_sweep, finish_profit_sweep, TreasuryCrash
<1>2. ChainStays
  <2>1. CASE finish_profit_sweep
    <3>1. transfer.of \in AutoSweeps
      BY <2>1 DEF TreasuryInv, TransferPlaced, finish_profit_sweep
    <3>2. PICK end : ledger' = [ledger EXCEPT ![transfer.of] = end]
      BY <2>1 DEF finish_profit_sweep
    <3> QED
      BY <3>1, <3>2, TreasuryConstants DEF TreasuryInv, TreasuryTypeOK, ChainStays
  <2>2. CASE UNCHANGED ledger
    BY <2>2 DEF ChainStays
  <2> QED
    BY <2>1, <2>2
       DEF treasuryVars, execute_mobile_treasury, treasury_raises, complete_mobile_treasury_audit,
       recover_treasury_audit, maybe_run_profit_sweep, TreasuryCrash
<1> QED
  BY <1>1, <1>2, NothingSeen DEF AllowancesStay, Allowance, PaymentsStay, TellingsStay

\* Every step of the treasury is a step of PaidTransfer or a stutter.
LEMMA PaidTransferNext ==
  ASSUME TreasuryInv, [TreasuryNext]_treasuryVars
  PROVE  [Paid!Next]_(Paid!vars)
<1>1. ASSUME NEW a \in Authorizations, NEW kind \in TreasuryKinds, NEW n \in Amounts,
             authorize_destination(a, kind, n)
      PROVE  Paid!Next
  BY <1>1, AuthorizingRefines DEF Paid!Next
<1>2. ASSUME NEW k \in TreasuryKeys, NEW a \in Authorizations, NEW n \in Amounts,
             request_treasury(k, a, n)
      PROVE  Paid!Next
  BY <1>2, RequestRefines DEF Paid!Next
<1>3. CASE transfer_sol
  BY <1>3, SendRefines DEF Paid!Next
<1>4. ASSUME NEW t \in Transfers, TransferDecided(t) PROVE [Paid!Next]_(Paid!vars)
  BY <1>4, DecisionRefines DEF Paid!Next
<1>5. ASSUME NEW k \in TreasuryKeys, NEW answer \in LedgerState \cup {"unavailable"},
             treasury_action(k, answer)
      PROVE  [Paid!Next]_(Paid!vars)
  BY <1>5, PollRefines DEF Paid!Next
<1>6. ASSUME NEW a \in Authorizations,
             \/ \E n \in Amounts : preview(a, n)
             \/ PreviewExpires(a) \/ AuthorizationExpires(a)
      PROVE  UNCHANGED Paid!vars
  BY <1>6, PreviewsStutter
<1> QED
  BY <1>1, <1>2, <1>3, <1>4, <1>5, <1>6, SaveStutters, OthersStutter
     DEF TreasuryNext, TreasuryHandlerStep

-----------------------------------------------------------------------------
(* The theorems.                                                           *)

\* The phone's transfers keep the promise of PaidTransfer: paid for by one
\* authorization within what it allows, sent once, told truly and once.
THEOREM TransfersArePaid == TreasurySpec => ImplementsPaidTransfer
<1>1. TreasuryInit => Paid!Init
  <2> SUFFICES ASSUME TreasuryInit PROVE Paid!Init
    OBVIOUS
  <2>1. /\ \A a \in Authorizations : authorizations[a].status = "none"
        /\ \A k \in TreasuryKeys : /\ treasury_receipts[k].auth = "none"
                                   /\ treasury_receipts[k].amount = 0
                                   /\ treasury_receipts[k].status = "none"
                                   /\ ledger[k] = "unsent"
    BY TreasuryConstants DEF TreasuryInit
  <2> QED
    BY <2>1 DEF Paid!Init, ReceiptTells
<1> QED
  BY <1>1, PaidTransferNext, TreasuryInitially, TreasuryStep, PTL
     DEF TreasurySpec, ImplementsPaidTransfer, Paid!Spec

\* One authorization of the desktop pays for one transfer, wherever a restart
\* cuts the request off.
THEOREM AuthorizationPaysOnce == TreasurySpec => []TreasuryPaysOnce
BY TreasuryInitially, TreasuryStep, PaidOnce, PTL DEF TreasurySpec

\* A receipt is confirmed or failed only when the chain says so, and keeps its
\* share of the balance while the transfer may still land.
THEOREM ReceiptsTellLedger == TreasurySpec => []ReceiptTellsLedger
<1>1. TreasuryInv => ReceiptTellsLedger
  BY DEF TreasuryInv
<1> QED
  BY TreasuryInitially, TreasuryStep, <1>1, PTL DEF TreasurySpec

\* The phone sends no sweep past the day's cap, the autonomous ones counted,
\* unless a restart has cut an autonomous one off.
THEOREM SweepCapHoldsAlways == TreasurySpec => SweepCapHolds
<1>1. TreasuryInv /\ [TreasuryNext]_treasuryVars =>
        [\A k \in TreasuryKeys :
            Sends(k) /\ IsSweep(k) /\ ~SweepCutOff =>
              Cardinality({t \in Transfers \ {k} :
                  IsSweep(t) /\ ledger[t] \in {"sent", "landed"}})
              < MaxSweepsPerDay]_treasuryVars
  BY CapHeld
<1> QED
  BY TreasuryInitially, TreasuryStep, <1>1, PTL DEF TreasurySpec, SweepCapHolds

\* Nothing the phone sends takes from the wallet what is to be left in it, even if
\* all that is on its way lands, unless a restart has cut an autonomous sweep off.
THEOREM ReserveHeldAlways == TreasurySpec => ReserveHeld
<1>1. TreasuryInv /\ FundsHold /\ [TreasuryNext]_treasuryVars =>
        [\A k \in TreasuryKeys :
            Sends(k) /\ TreasuryKind(k) # "rent_recovery" /\ ~SweepCutOff =>
              WalletBalance - Outflow(k)
                - MapThenSumSet(Outflow, {t \in Transfers \ {k} :
                      ledger[t] = "sent" /\ Outflow(t) > 0})
              >= SweepReserve]_treasuryVars
  BY ReserveIsLeft
<1> QED
  BY TreasuryInitially, TreasuryStep, FundsInitially, FundsStep, <1>1, PTL
     DEF TreasurySpec, ReserveHeld

\* A transfer of the phone is paid for once, leaves the reserve and keeps to the cap.
THEOREM WithinLimits == TreasurySpec => TreasuryWithinLimits
  BY AuthorizationPaysOnce, ReceiptsTellLedger, ReserveHeldAlways, SweepCapHoldsAlways, PTL
     DEF TreasuryWithinLimits

\* The rows are of their types.
THEOREM TreasuryTypeCorrect == TreasurySpec => []TreasuryTypeOK
<1>1. TreasuryInv => TreasuryTypeOK
  BY DEF TreasuryInv
<1> QED
  BY TreasuryInitially, TreasuryStep, <1>1, PTL DEF TreasurySpec

-----------------------------------------------------------------------------
(***************************************************************************)
(* The two sides together.  A step of MCMobile is one of its focus under   *)
(* the guards of the instance, and leaves the other side alone: what was   *)
(* proved of either side is true of it.                                    *)
(***************************************************************************)

\* The largest amount is one of the amounts.
LEMMA LargestIsAmount == Largest \in Amounts
  BY MobileInstance DEF Largest

\* Each step of the instance is one side's.
LEMMA OneSideMoves ==
  ASSUME [Next]_vars
  PROVE  [TreasuryNext]_treasuryVars /\ [SessionsNext]_sessionVars
<1>1. CASE UNCHANGED vars
  BY <1>1 DEF vars
<1>2. CASE \/ \E a \in Authorizations, kind \in TreasuryKinds :
                 Treasury(AuthorizedInOrder(a, kind) /\ authorize_destination(a, kind, Largest))
           \/ \E a \in Authorizations, n \in Amounts : Treasury(AmountOf(a, n) /\ preview(a, n))
           \/ Treasury(PreviewExpires("a1"))
           \/ Treasury(AuthorizationExpires("a1"))
           \/ \E k \in TreasuryKeys, a \in Authorizations, n \in Amounts :
                 Treasury(KeysInOrder(k) /\ AmountOf(a, n) /\ request_treasury(k, a, n))
  <2>1. TreasuryNext /\ UNCHANGED sessionVars
    BY <1>2, LargestIsAmount, MobileInstance DEF Treasury, TreasuryNext
  <2> QED
    BY <2>1
<1>3. CASE \/ Treasury(execute_mobile_treasury)
           \/ Treasury(treasury_raises)
           \/ Treasury(transfer_sol)
           \/ Treasury(complete_mobile_treasury_audit)
           \/ Treasury(save_treasury_receipt)
           \/ \E k \in TreasuryKeys, answer \in Answers :
                 Treasury(Outage(k, answer) /\ treasury_action(k, answer))
           \/ \E t \in Transfers, answer \in Answers :
                 Treasury(Outage(t, answer) /\ recover_treasury_audit(t, answer))
           \/ \E t \in AutoSweeps : Treasury(SweepsAlone /\ maybe_run_profit_sweep(t))
           \/ Treasury(finish_profit_sweep)
           \/ \E t \in Transfers : Treasury(TransferDecided(t))
           \/ Treasury(transfer.of = "k1" /\ TreasuryCrash)
  <2>1. TreasuryNext /\ UNCHANGED sessionVars
    BY <1>3 DEF Treasury, TreasuryNext, TreasuryHandlerStep, Answers
  <2> QED
    BY <2>1
<1>4. CASE \/ Session(NoBroadcast("handler") /\ bot_loop_broadcast)
           \/ \E t \in SenderTask, s \in Sockets : Session(send_mobile_client_update(t, s))
           \/ \E t \in SenderTask : Session(mobile_client_sent(t))
           \/ \E t \in SenderTask : Session(pass_is_over(t))
           \/ \E p \in Pairings :
                 Session(NoBroadcast("bot_loop") /\ PairingInOrder(p) /\ start_pairing(p))
           \/ Session(pairings["p1"].status = "open" /\ PairingExpires("p1"))
           \/ \E p \in Pairings, d \in Phones, correct \in BOOLEAN :
                 Session(/\ NoBroadcast("bot_loop") /\ PhoneInOrder(d) /\ (correct \/ p = "p1")
                         /\ claim_pairing(p, d, correct))
           \/ Session(session_restarts = 0 /\ NoneRevoked /\ TokenExpires("d2"))
           \/ Session(revoke_device("d1"))
  <2>1. SessionsNext /\ UNCHANGED treasuryVars
    BY <1>4, MobileInstance DEF Session, SessionsNext
  <2> QED
    BY <2>1
<1>5. CASE \/ \E r \in ApiCalls, d \in Phones : Session(load_mobile_device(r, d))
           \/ \E r \in ApiCalls : Session(touch_active_mobile_device(r))
           \/ \E r \in ApiCalls, k \in Tickets :
                 Session(TicketInOrder(k) /\ issue_websocket_ticket(r, k))
           \/ Session(sockets["w1"].step = "none" /\ TicketExpires)
           \/ \E s \in Sockets, k \in Tickets :
                 Session(SocketInOrder(s) /\ consume_websocket_ticket(s, k))
           \/ \E s \in Sockets : Session(mobile_websocket_accepted(s))
           \/ \E s \in Sockets : Session(mobile_websocket_greeted(s))
           \/ Session(NoneExpired /\ WebSocketDisconnect("w1"))
           \/ Session(NoneRevoked /\ phones["d2"].fresh /\ mobile_clients # {} /\ SessionRestart)
  <2>1. SessionsNext /\ UNCHANGED treasuryVars
    BY <1>5, MobileInstance DEF Session, SessionsNext
  <2> QED
    BY <2>1
<1> QED
  BY <1>1, <1>2, <1>3, <1>4, <1>5 DEF Next

\* What the run checks is a behaviour of either side, so that every theorem above
\* holds in it.
THEOREM MobileIsItsSides == Spec => TreasurySpec /\ SessionsSpec
<1>1. Init => TreasuryInit /\ SessionsInit
  BY DEF Init
<1> QED
  BY <1>1, OneSideMoves, PTL DEF Spec, TreasurySpec, SessionsSpec

\* Every variable of the two is of its type.
THEOREM MobileTypeCorrect == Spec => []MobileTypeOK
  BY MobileIsItsSides, TreasuryTypeCorrect, SessionsTypeCorrect, PTL DEF MobileTypeOK
=============================================================================
