--------------------------- MODULE NotificationOutbox ---------------------------
(***************************************************************************)
(* Push registrations and the delivery ledger of mobile alerts             *)
(* (core/storage.py, mobile/service.py).  deliver_push_event walks over    *)
(* the registrations it loaded; the ledger has one row for an event, a     *)
(* device and a channel, which one attempt at a time holds under a lease.  *)
(* The callers of deliver_push_event run beside each other and beside the  *)
(* pairing and the registration of devices, and a restart may fall between *)
(* any two of their transactions.                                          *)
(*                                                                         *)
(* An event has one severity and so one channel; the channel is left out   *)
(* of the key.  A token that does not decrypt, a sender that raises and    *)
(* one that does not confirm are one failure.                              *)
(***************************************************************************)
EXTENDS Naturals, FiniteSets

CONSTANTS
    AlertEvents,       \* events that are pushed
    PushDevices,       \* devices with the alerts scope
    PushTokens,        \* Expo tokens, by their fingerprint
    Deliverers,        \* callers of deliver_push_event
    MaxAttempts        \* bound: reservations per behaviour

ASSUME OutboxAssumption == MaxAttempts \in Nat \ {0}

VARIABLES
    alert_devices,     \* mobile_devices: "active" or "revoked"
    registrations,     \* mobile_push_registrations
    deliveries,        \* mobile_notification_deliveries
    deliverers,        \* deliver_push_event under way
    attempts,          \* attempt ids handed out
    pushes,            \* history: attempts whose push reached the phone
    confirmed,         \* history: attempts the sender confirmed
    lapsed             \* history: events and devices whose lease ran out first

outboxVars == <<alert_devices, registrations, deliveries, deliverers, attempts,
                pushes, confirmed, lapsed>>

RegistrationRow == [device: PushDevices \cup {"none"}, status: {"none", "active", "revoked"}]
DeliveryRow == [status: {"none", "pending", "sent", "failed"}, attempt: 0..MaxAttempts,
                leased: BOOLEAN]
\* todo: the rows as they were loaded.
Deliverer == [event: AlertEvents \cup {"none"},
              todo: SUBSET [token: PushTokens, device: PushDevices],
              step: {"none", "next", "reserved", "sending", "answered"},
              token: PushTokens \cup {"none"}, device: PushDevices \cup {"none"},
              attempt: 0..MaxAttempts, ok: BOOLEAN]
IdleDeliverer == [event |-> "none", todo |-> {}, step |-> "none", token |-> "none",
                  device |-> "none", attempt |-> 0, ok |-> FALSE]

OutboxTypeOK ==
    /\ alert_devices \in [PushDevices -> {"active", "revoked"}]
    /\ registrations \in [PushTokens -> RegistrationRow]
    /\ deliveries \in [AlertEvents \X PushDevices -> DeliveryRow]
    /\ deliverers \in [Deliverers -> Deliverer]
    /\ \A w \in Deliverers : deliverers[w].step = "next" => deliverers[w].todo # {}
    /\ attempts \in 0..MaxAttempts
    /\ pushes \subseteq [token: PushTokens, event: AlertEvents, device: PushDevices,
                         attempt: 1..MaxAttempts]
    /\ confirmed \subseteq 1..MaxAttempts
    /\ lapsed \subseteq AlertEvents \X PushDevices

OutboxInit ==
    /\ alert_devices = [d \in PushDevices |-> "active"]
    /\ registrations = [t \in PushTokens |-> [device |-> "none", status |-> "none"]]
    /\ deliveries = [k \in AlertEvents \X PushDevices |->
                        [status |-> "none", attempt |-> 0, leased |-> FALSE]]
    /\ deliverers = [w \in Deliverers |-> IdleDeliverer]
    /\ attempts = 0
    /\ pushes = {}
    /\ confirmed = {}
    /\ lapsed = {}

-----------------------------------------------------------------------------
(* Devices and registrations *)

\* The rows of a device, but for one token, stop being active.
RevokedRows(d, but) ==
    [t \in PushTokens |-> IF registrations[t].device = d /\ t # but
                          THEN [registrations[t] EXCEPT !.status = "revoked"]
                          ELSE registrations[t]]

\* One transaction: a device has one token, and a token another device had
\* registered becomes this device's.
save_mobile_push_registration(d, t) ==
    registrations' = [RevokedRows(d, t) EXCEPT ![t] = [device |-> d, status |-> "active"]]

register_push_token(d, t) ==
    /\ alert_devices[d] = "active"
    /\ save_mobile_push_registration(d, t)
    /\ UNCHANGED <<alert_devices, deliveries, deliverers, attempts, pushes, confirmed, lapsed>>

unregister_push_token(d) ==
    /\ alert_devices[d] = "active"
    /\ registrations' = RevokedRows(d, "none")
    /\ UNCHANGED <<alert_devices, deliveries, deliverers, attempts, pushes, confirmed, lapsed>>

\* revoke_mobile_device_and_push_registrations, one transaction.
revoke_alert_device(d) ==
    /\ alert_devices[d] = "active"
    /\ alert_devices' = [alert_devices EXCEPT ![d] = "revoked"]
    /\ registrations' = RevokedRows(d, "none")
    /\ UNCHANGED <<deliveries, deliverers, attempts, pushes, confirmed, lapsed>>

-----------------------------------------------------------------------------
(* deliver_push_event *)

ActiveRows == {[token |-> t, device |-> registrations[t].device] :
                  t \in {u \in PushTokens : registrations[u].status = "active"}}

deliver_push_event(w, e) ==
    /\ deliverers[w].step = "none"
    /\ ActiveRows # {}
    /\ deliverers' = [deliverers EXCEPT ![w] =
          [IdleDeliverer EXCEPT !.event = e, !.todo = ActiveRows, !.step = "next"]]
    /\ UNCHANGED <<alert_devices, registrations, deliveries, attempts, pushes, confirmed, lapsed>>

\* The loop goes on with the next row, or ends.
Onward(w) == IF deliverers[w].todo = {} THEN IdleDeliverer
             ELSE [IdleDeliverer EXCEPT !.event = deliverers[w].event,
                                        !.todo = deliverers[w].todo, !.step = "next"]

\* A failed attempt, and one whose lease is over, may be taken over.
Reclaimable(row) ==
    \/ row.status \in {"none", "failed"}
    \/ row.status = "pending" /\ ~row.leased

\* reserve_mobile_notification_delivery, once the device was found current; a
\* device that is not loses its registrations.
reserve_mobile_notification_delivery(w, row) ==
    LET rest == deliverers[w].todo \ {row}
        key == <<deliverers[w].event, row.device>>
        skipped == [deliverers EXCEPT ![w] =
                      IF rest = {} THEN IdleDeliverer ELSE [@ EXCEPT !.todo = rest]]
    IN  /\ deliverers[w].step = "next"
        /\ row \in deliverers[w].todo
        /\ \/ /\ alert_devices[row.device] = "revoked"
              /\ registrations' = RevokedRows(row.device, "none")
              /\ deliverers' = skipped
              /\ UNCHANGED <<deliveries, attempts, lapsed>>
           \/ /\ alert_devices[row.device] = "active"
              /\ ~Reclaimable(deliveries[key])
              /\ deliverers' = skipped
              /\ UNCHANGED <<registrations, deliveries, attempts, lapsed>>
           \/ /\ alert_devices[row.device] = "active"
              /\ Reclaimable(deliveries[key])
              /\ attempts < MaxAttempts
              /\ attempts' = attempts + 1
              /\ lapsed' = IF deliveries[key].status = "pending" /\ ~deliveries[key].leased THEN lapsed \cup {key}
                           ELSE lapsed
              /\ deliveries' = [deliveries EXCEPT ![key] =
                    [status |-> "pending", attempt |-> attempts + 1, leased |-> TRUE]]
              /\ deliverers' = [deliverers EXCEPT ![w] =
                    [@ EXCEPT !.step = "reserved", !.todo = rest, !.token = row.token,
                              !.device = row.device, !.attempt = attempts + 1]]
              /\ UNCHANGED registrations
        /\ UNCHANGED <<alert_devices, pushes, confirmed>>

\* The device is looked up again; gone, its registrations go and the attempt fails.
recheck_device(w) ==
    /\ deliverers[w].step = "reserved"
    /\ IF alert_devices[deliverers[w].device] = "active"
       THEN /\ deliverers' = [deliverers EXCEPT ![w].step = "sending"]
            /\ UNCHANGED registrations
       ELSE /\ deliverers' = [deliverers EXCEPT ![w].step = "answered"]
            /\ registrations' = RevokedRows(deliverers[w].device, "none")
    /\ UNCHANGED <<alert_devices, deliveries, attempts, pushes, confirmed, lapsed>>

\* _push_sender: the push may arrive although the sender fails to confirm it.
push_sender(w, arrives, ok) ==
    /\ deliverers[w].step = "sending"
    /\ ok => arrives
    /\ pushes' = IF arrives
                 THEN pushes \cup {[token |-> deliverers[w].token,
                                    event |-> deliverers[w].event,
                                    device |-> deliverers[w].device,
                                    attempt |-> deliverers[w].attempt]}
                 ELSE pushes
    /\ confirmed' = IF ok THEN confirmed \cup {deliverers[w].attempt} ELSE confirmed
    /\ deliverers' = [deliverers EXCEPT ![w] = [@ EXCEPT !.step = "answered", !.ok = ok]]
    /\ UNCHANGED <<alert_devices, registrations, deliveries, attempts, lapsed>>

\* finish_mobile_notification_delivery: only the attempt that holds the row.
AnyPending(row, attempt) == row.status = "pending"
Holds(row, attempt) == row.status = "pending" /\ row.attempt = attempt
finish_mobile_notification_delivery(w) ==
    LET key == <<deliverers[w].event, deliverers[w].device>>
    IN  /\ deliverers[w].step = "answered"
        /\ deliveries' = IF Holds(deliveries[key], deliverers[w].attempt)
              THEN [deliveries EXCEPT ![key].status =
                       IF deliverers[w].ok THEN "sent" ELSE "failed"]
              ELSE deliveries
        /\ deliverers' = [deliverers EXCEPT ![w] = Onward(w)]
        /\ UNCHANGED <<alert_devices, registrations, attempts, pushes, confirmed, lapsed>>

\* PUSH_DELIVERY_LEASE_SECONDS are over.
LeaseExpires(k) ==
    /\ deliveries[k].leased
    /\ deliveries' = [deliveries EXCEPT ![k].leased = FALSE]
    /\ UNCHANGED <<alert_devices, registrations, deliverers, attempts, pushes, confirmed, lapsed>>

\* The caller is gone with the process; its reservation stays.
DelivererDies(w) ==
    /\ deliverers[w].step # "none"
    /\ deliverers' = [deliverers EXCEPT ![w] = IdleDeliverer]
    /\ UNCHANGED <<alert_devices, registrations, deliveries, attempts, pushes, confirmed, lapsed>>

DelivererStep(w) ==
    \/ \E row \in deliverers[w].todo : reserve_mobile_notification_delivery(w, row)
    \/ recheck_device(w)
    \/ \E arrives, ok \in BOOLEAN : push_sender(w, arrives, ok)
    \/ finish_mobile_notification_delivery(w)

OutboxNext ==
    \/ \E d \in PushDevices : \/ \E t \in PushTokens : register_push_token(d, t)
                              \/ unregister_push_token(d) \/ revoke_alert_device(d)
    \/ \E w \in Deliverers : \/ \E e \in AlertEvents : deliver_push_event(w, e)
                             \/ DelivererStep(w) \/ DelivererDies(w)
    \/ \E k \in AlertEvents \X PushDevices : LeaseExpires(k)

OutboxSpec == OutboxInit /\ [][OutboxNext]_outboxVars

-----------------------------------------------------------------------------
(* Properties *)

\* A device is pushed to over one token: registering a new one, or taking over
\* another device's, leaves no second active row (save_mobile_push_registration).
OneTokenPerDevice ==
    \A t, u \in PushTokens :
        /\ registrations[t].status = "active" /\ registrations[u].status = "active"
        /\ registrations[t].device = registrations[u].device
        => t = u

\* A row says sent only if the attempt that holds it was confirmed, whatever
\* an older attempt whose lease ran out reports late.
SentMeansConfirmed ==
    \A k \in DOMAIN deliveries :
        deliveries[k].status = "sent" => deliveries[k].attempt \in confirmed

\* Two callers push an event to a device twice only after a lease ran out under
\* the first, or after the first was told that its push had failed.
NoSecondPush ==
    \A p, q \in pushes :
        /\ p.event = q.event /\ p.device = q.device /\ p.attempt < q.attempt
        => <<p.event, p.device>> \in lapsed \/ p.attempt \notin confirmed

\* No send begins for a device that was revoked after its rows were loaded and
\* its delivery reserved.
NoPushToRevoked ==
    [][\A w \in Deliverers :
          deliverers'[w].step = "sending" /\ deliverers[w].step # "sending" =>
             alert_devices[deliverers'[w].device] = "active"]_outboxVars

\* The ledger and the callers as work under a lease: only "sent" is for good.
DeliveryHeld(w) ==
    LET key == <<deliverers[w].event, deliverers[w].device>>
    IN  IF /\ deliverers[w].step \in {"reserved", "sending", "answered"}
           /\ Holds(deliveries[key], deliverers[w].attempt)
        THEN key ELSE <<>>
DeliveryWork(k) == IF deliveries[k].status = "sent" THEN "done" ELSE "open"
DeliveryLeased(k) == deliveries[k].status = "pending" /\ deliveries[k].leased
Delivering == INSTANCE LeasedWork WITH
    Items <- AlertEvents \X PushDevices, Workers <- Deliverers, None <- <<>>,
    work <- [k \in AlertEvents \X PushDevices |-> DeliveryWork(k)],
    leased <- [k \in AlertEvents \X PushDevices |-> DeliveryLeased(k)],
    holds <- [w \in Deliverers |-> DeliveryHeld(w)]

\* A device hears of an event once, over the token it has now, as long as it is
\* not revoked, and the outbox tells what was sent (deliver_push_event); a
\* delivery is taken over only when its lease is over or its push failed, and
\* then the caller that had it changes it no more
\* (reserve_mobile_notification_delivery, finish_mobile_notification_delivery).
OutboxHolds ==
    /\ [](OneTokenPerDevice /\ SentMeansConfirmed /\ NoSecondPush)
    /\ NoPushToRevoked
    /\ Delivering!Spec
=============================================================================
