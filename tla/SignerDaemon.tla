------------------------------ MODULE SignerDaemon ------------------------------
(***************************************************************************)
(* The health of the local signer daemon (tools/local_signer_daemon.py):   *)
(* requests in a thread pool share one probe of the configured RPC, a      *)
(* thread of its own that may hang.  One action per stretch between two    *)
(* points where a thread may be stopped: a lock, the event, an answer.     *)
(*                                                                         *)
(* The daemon has a key, a token and permission to submit; without them    *)
(* submission_readiness answers before it looks at a probe.                *)
(***************************************************************************)
EXTENDS Naturals

CONSTANTS
    HealthRequests,       \* threads that answer GET /health
    MaxProbes             \* bound: RpcHealthProbe objects

ASSUME SignerAssumption == MaxProbes \in Nat \ {0}

VARIABLES
    probes,               \* every RpcHealthProbe so far
    created,
    registered,           \* _RPC_HEALTH_PROBES[rpc_url], 0 for none
    requests,             \* submission_readiness of each thread
    given_up              \* history: probes of which a request was told that they timed out

signerVars == <<probes, created, registered, requests, given_up>>

Probes == 1..MaxProbes
NewProbe == [thread |-> "running", done |-> FALSE, result |-> "none", expired |-> FALSE]
NoRequest == [step |-> "idle", probe |-> 0, warned |-> FALSE, answer |-> "none"]
Joined(p, warned) == [step |-> "got", probe |-> p, warned |-> warned, answer |-> "none"]

RpcHealthProbe ==
    [thread: {"none", "running", "finishing", "ended"}, done: BOOLEAN,
     result: {"none", "ok", "malformed", "failed"}, expired: BOOLEAN]
RequestStep == {"idle", "got", "waiting", "woken", "gave_up", "passed", "answered"}
HealthAnswer == {"none", "ready", "timed_out", "failed", "malformed"}
Request == [step: RequestStep, probe: 0..MaxProbes, warned: BOOLEAN, answer: HealthAnswer]

SignerTypeOK ==
    /\ probes \in [Probes -> RpcHealthProbe]
    /\ created \in 0..MaxProbes
    /\ registered \in 0..created
    /\ requests \in [HealthRequests -> Request]
    /\ given_up \subseteq 1..created
    /\ \A r \in HealthRequests : requests[r].probe <= created
    /\ \A p \in Probes :
          /\ probes[p].thread # "none" <=> p <= created
          /\ probes[p].done <=> probes[p].result # "none"
          /\ p \in given_up => probes[p].expired

SignerInit ==
    /\ probes = [p \in Probes |-> [NewProbe EXCEPT !.thread = "none"]]
    /\ created = 0 /\ registered = 0 /\ given_up = {}
    /\ requests = [r \in HealthRequests |-> NoRequest]

At(r, step) == requests[r].step = step
Mine(r) == requests[r].probe
Reply(r, answer) ==
    /\ requests' = [requests EXCEPT ![r].step = "answered", ![r].answer = answer]
    /\ given_up' = IF answer = "timed_out" THEN given_up \cup {Mine(r)} ELSE given_up
Forgets(p) == registered' = IF registered = p THEN 0 ELSE registered

-----------------------------------------------------------------------------
(* A request *)

\* The probe a request joins; an expired one that is done makes room.
Reusable == registered # 0 /\ (~probes[registered].expired \/ ~probes[registered].done)

get_or_start_rpc_health_probe(r) ==
    /\ requests[r].step \in {"idle", "answered"}
    /\ \/ /\ Reusable
          /\ requests' = [requests EXCEPT ![r] = Joined(registered, registered \in given_up)]
          /\ UNCHANGED <<probes, created, registered>>
       \/ /\ ~Reusable /\ created < MaxProbes
          /\ created' = created + 1
          /\ registered' = created'
          /\ probes' = [probes EXCEPT ![created'] = NewProbe]
          /\ requests' = [requests EXCEPT ![r] = Joined(created', FALSE)]
    /\ UNCHANGED given_up

expired_is_refused(r) ==
    /\ At(r, "got")
    /\ \/ probes[Mine(r)].expired /\ Reply(r, "timed_out")
       \/ /\ ~probes[Mine(r)].expired
          /\ requests' = [requests EXCEPT ![r].step = "waiting"]
          /\ UNCHANGED given_up
    /\ UNCHANGED <<probes, created, registered>>

\* probe.done.wait: true once it is set, false when the time is over, which may
\* be found out just before it is set.
wait(r) ==
    /\ At(r, "waiting")
    /\ requests' = [requests EXCEPT ![r].step = IF probes[Mine(r)].done THEN "woken" ELSE "gave_up"]
    /\ UNCHANGED <<probes, created, registered, given_up>>

\* Mutant: the request gives up and leaves the probe as it is.
JustLeaves(p) == probes
MarkedExpired(p) == [probes EXCEPT ![p].expired = TRUE]

\* Mutant: the thread will take it off.
LeftToThread(p) == UNCHANGED registered
\* The thread that was done before the mark saw no reason to take it off.
TakenOffIfDone(p) == IF probes[p].done THEN Forgets(p) ELSE UNCHANGED registered

give_up(r) ==
    /\ At(r, "gave_up")
    /\ probes' = MarkedExpired(Mine(r))
    /\ TakenOffIfDone(Mine(r))
    /\ Reply(r, "timed_out")
    /\ UNCHANGED created

probe_is_done(r) ==
    /\ At(r, "woken")
    /\ Forgets(Mine(r))
    /\ \/ probes[Mine(r)].expired /\ Reply(r, "timed_out")
       \/ /\ ~probes[Mine(r)].expired
          /\ requests' = [requests EXCEPT ![r].step = "passed"]
          /\ UNCHANGED given_up
    /\ UNCHANGED <<probes, created>>

submission_readiness(r) ==
    /\ At(r, "passed")
    /\ Reply(r, IF probes[Mine(r)].result = "ok" THEN "ready" ELSE probes[Mine(r)].result)
    /\ UNCHANGED <<probes, created, registered>>

-----------------------------------------------------------------------------
(* The probe's thread *)

\* getHealth answers or raises, and the event is set.
run_rpc_health_probe(p, result) ==
    /\ probes[p].thread = "running"
    /\ probes' = [probes EXCEPT ![p].thread = "finishing", ![p].done = TRUE, ![p].result = result]
    /\ UNCHANGED <<created, registered, requests, given_up>>

probe_thread_ends(p) ==
    /\ probes[p].thread = "finishing"
    /\ probes' = [probes EXCEPT ![p].thread = "ended"]
    /\ IF probes[p].expired THEN Forgets(p) ELSE UNCHANGED registered
    /\ UNCHANGED <<created, requests, given_up>>

SignerNext ==
    \/ \E r \in HealthRequests :
          \/ get_or_start_rpc_health_probe(r) \/ expired_is_refused(r) \/ wait(r)
          \/ give_up(r) \/ probe_is_done(r) \/ submission_readiness(r)
    \/ \E p \in Probes :
          \/ \E result \in {"ok", "failed", "malformed"} : run_rpc_health_probe(p, result)
          \/ probe_thread_ends(p)

SignerSpec == SignerInit /\ [][SignerNext]_signerVars

-----------------------------------------------------------------------------
(* Properties *)

\* However many requests come, and however long the RPC hangs, one thread at a
\* time asks it.
OneProbeAtATime ==
    \A p, q \in Probes : probes[p].thread = "running" /\ probes[q].thread = "running" => p = q

\* Once a request was told that a probe timed out, its late answer makes no
\* request ready that came afterwards.
NoStaleReady == \A r \in HealthRequests : requests[r].answer = "ready" => ~requests[r].warned

\* A probe whose thread ended, and that no request holds, is not left behind
\* for the next request, whichever of the two came last.
ProbeIsForgotten ==
    registered # 0 =>
        \/ probes[registered].thread # "ended"
        \/ \E r \in HealthRequests : Mine(r) = registered /\ requests[r].step \notin {"idle", "answered"}

ProbesAreSound == OneProbeAtATime /\ NoStaleReady /\ ProbeIsForgotten
=============================================================================
