--------------------------- MODULE GuardedDispatch ---------------------------
(***************************************************************************)
(* What the guarded actions of the paired phones promise: a prepared       *)
(* execution is claimed by one action at most, an action claims one        *)
(* execution at most, and the signer is called for a claimed execution     *)
(* once at most.  A claim may well never be dispatched.                    *)
(***************************************************************************)
EXTENDS Naturals

CONSTANTS Audits, Keys, None

VARIABLES claim, started, calls

vars == <<claim, started, calls>>

Init ==
    /\ claim = [a \in Audits |-> None]
    /\ started = [a \in Audits |-> FALSE]
    /\ calls = [a \in Audits |-> 0]

Claim(k, a) ==
    /\ claim[a] = None
    /\ \A b \in Audits : claim[b] # k
    /\ claim' = [claim EXCEPT ![a] = k]
    /\ UNCHANGED <<started, calls>>

Start(a) ==
    /\ claim[a] # None
    /\ ~started[a]
    /\ started' = [started EXCEPT ![a] = TRUE]
    /\ UNCHANGED <<claim, calls>>

Call(a) ==
    /\ started[a]
    /\ calls[a] = 0
    /\ calls' = [calls EXCEPT ![a] = 1]
    /\ UNCHANGED <<claim, started>>

Next ==
    \E a \in Audits : Start(a) \/ Call(a) \/ \E k \in Keys : Claim(k, a)

Spec == Init /\ [][Next]_vars
=============================================================================
