---------------------------- MODULE PaidTransfer ----------------------------
(***************************************************************************)
(* What the phone's transfers promise the desktop that authorizes them and *)
(* the phone that asks for them: an authorization pays for one transfer    *)
(* and for no more than it allows, a transfer is sent to the chain once,   *)
(* and the phone is told how it ended once, when and as the chain decided. *)
(* A transfer may well never be sent, nor its end be told.                 *)
(***************************************************************************)
EXTENDS Naturals

CONSTANTS Authorizations, Keys, Amounts, None

VARIABLES
    allowed,    \* what each authorization allows, 0 before it is given
    paidBy,     \* the authorization that pays for each transfer
    amount,     \* what it pays
    chain,      \* what became of the transfer
    told        \* what the phone was told of it

vars == <<allowed, paidBy, amount, chain, told>>

Init ==
    /\ allowed = [a \in Authorizations |-> 0]
    /\ paidBy = [k \in Keys |-> None]
    /\ amount = [k \in Keys |-> 0]
    /\ chain = [k \in Keys |-> "unsent"]
    /\ told = [k \in Keys |-> "nothing"]

Allow(a, n) ==
    /\ allowed[a] = 0
    /\ allowed' = [allowed EXCEPT ![a] = n]
    /\ UNCHANGED <<paidBy, amount, chain, told>>

Pay(k, a, n) ==
    /\ paidBy[k] = None
    /\ \A j \in Keys : paidBy[j] # a
    /\ n <= allowed[a]
    /\ paidBy' = [paidBy EXCEPT ![k] = a]
    /\ amount' = [amount EXCEPT ![k] = n]
    /\ UNCHANGED <<allowed, chain, told>>

Send(k) ==
    /\ paidBy[k] # None
    /\ chain[k] = "unsent"
    /\ chain' = [chain EXCEPT ![k] = "sent"]
    /\ UNCHANGED <<allowed, paidBy, amount, told>>

Decide(k) ==
    /\ chain[k] = "sent"
    /\ \E end \in {"landed", "failed", "dropped"} : chain' = [chain EXCEPT ![k] = end]
    /\ UNCHANGED <<allowed, paidBy, amount, told>>

Tell(k) ==
    /\ told[k] = "nothing"
    /\ \/ chain[k] = "landed" /\ told' = [told EXCEPT ![k] = "confirmed"]
       \/ chain[k] = "failed" /\ told' = [told EXCEPT ![k] = "failed"]
    /\ UNCHANGED <<allowed, paidBy, amount, chain>>

Next ==
    \/ \E a \in Authorizations, n \in Amounts : Allow(a, n)
    \/ \E k \in Keys, a \in Authorizations, n \in Amounts : Pay(k, a, n)
    \/ \E k \in Keys : Send(k) \/ Decide(k) \/ Tell(k)

Spec == Init /\ [][Next]_vars
=============================================================================
