------------------------------- MODULE MCBotLoop -------------------------------
(* The bot loop for TLC, under the fairness of the event loop that runs it:  *)
(* the feeds it keeps up, or the paper positions it drains, ticks and sells. *)
EXTENDS SourceRuntime, PaperTrading, TLC

CONSTANTS t1, t2, kA, kB, c1
VARIABLE focus

LaunchFeed == {"source"}

LoopVars == <<focus, vars, paperVars>>
Feeds(A) == focus = "feeds" /\ A /\ UNCHANGED <<focus, paperVars>>
Paper(A) == focus = "paper" /\ A /\ UNCHANGED <<focus, vars>>

\* Every variable of the two is of its type.
BotLoopTypeOK == TypeOK /\ PaperTypeOK

LoopGoesOn ==
    \/ drain_begins \/ drain_is_over \/ tick_is_over
    \/ \E closes, held \in BOOLEAN, n \in 0..3 : tick(closes, held, n)
    \/ \E n \in 0..(3 * Launches) : PaperStarts(n)

LoopInit == Init /\ PaperInit /\ focus \in {"feeds", "paper"}

LoopNext ==
    \/ Feeds(PatientNext)
    \/ Paper(PaperNext)

\* The fairness of SourceRuntime, and that of the loop's turns.
LoopFairness ==
    /\ WF_LoopVars(Feeds(bot_loop)) /\ WF_LoopVars(Feeds(drain_launch_queue))
    /\ \A c \in Callers : WF_LoopVars(Feeds(Resume(c)))
    /\ \A t \in Tasks : WF_LoopVars(Feeds(task[t].state = "cancelling" /\ SourceEnds(t)))
    /\ WF_LoopVars(Paper(LoopGoesOn))

LoopSpec == LoopInit /\ [][LoopNext]_LoopVars /\ LoopFairness
=============================================================================
