--------------------------- MODULE MCLiveExecution ---------------------------
(* Instances of LiveExecution for TLC.  The operations of the control plane   *)
(* are almost independent, so a run with two audits and two keys takes only   *)
(* the operations its question is about; Spec itself is run on one audit.     *)
EXTENDS LiveExecution, TLC

\* Any two audits, and any two keys, are alike.
Symmetry == Permutations(Keys) \cup Permutations(Audits)

Prepare ==
    \/ \E i \in Intents : generate_live_intents(i)
    \/ \E i \in Intents, a \in Audits : quote_live_intent(i, a)
    \/ \E a \in Audits : live_simulate(a)

GuardedActions ==
    \E k \in Keys : \/ \E i \in Intents : ReviewTrade(k, i)
                    \/ approve_trade(k) \/ close_position(k) \/ action(k)

\* Guarded actions on prepared trades: claims, dispatch, polling, restarts.
GuardedNext ==
    \/ HandlerStep \/ Prepare \/ GuardedActions \/ Crash
    \/ \E a \in Audits : poll_live_audits(a) \/ ChainDecides(a)
GuardedSpec == Init /\ [][GuardedNext]_vars

\* ... with the expiry of quotes, under the fairness of the running system.
LivenessNext ==
    \/ GuardedNext
    \/ \E a \in Audits : QuoteExpires(a) \/ normalize_live_audits(a)
LivenessSpec == Init /\ [][LivenessNext]_vars /\ Fairness

\* Entries and exits outside the guarded actions: from the desktop with the
\* kill switch, and through the browser wallet, with the poller and the operator's
\* recovery beside them.
UnguardedNext ==
    \/ HandlerStep \/ Prepare \/ set_live_kill_switch
    \/ \E a \in Audits : \/ live_submit(a)
                         \/ WalletSends(a) \/ live_submit_signature(a)
                         \/ /\ audits[a].sig /\ audits[a].intent \in BrowserIntents
                            /\ live_confirm(a)
                         \/ poll_live_audits(a)
                         \/ recover_unresolved_live_audits(a)
                         \/ ChainDecides(a)
UnguardedSpec == Init /\ [][UnguardedNext]_vars
=============================================================================
