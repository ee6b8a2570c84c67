------------------------------ MODULE LeasedWork ------------------------------
(***************************************************************************)
(* What the database promises the workers that take jobs from it under a   *)
(* lease, the grading workers and the callers that push alerts: a job is   *)
(* held by the worker that took it last and by no other, it is taken over  *)
(* only when its lease is over, and only its holder ends it.  A worker     *)
(* that was too slow finds that it holds nothing any more; one that quits  *)
(* leaves its lease behind.  A job that is done stays so, unless all are   *)
(* wiped out together.                                                     *)
(***************************************************************************)
CONSTANTS Items, Workers, None

VARIABLES
    work,      \* each job is "open" until it is "done" or "given up"
    leased,    \* ... and its lease has not run out
    holds      \* the job each worker holds

vars == <<work, leased, holds>>

Init ==
    /\ work = [i \in Items |-> "open"]
    /\ leased = [i \in Items |-> FALSE]
    /\ holds = [w \in Workers |-> None]

\* Nobody holds the job any more.
Released(i) == [w \in Workers |-> IF holds[w] = i THEN None ELSE holds[w]]

Take(w, i) ==
    /\ holds[w] = None
    /\ work[i] = "open" /\ ~leased[i]
    /\ leased' = [leased EXCEPT ![i] = TRUE]
    /\ holds' = [Released(i) EXCEPT ![w] = i]
    /\ UNCHANGED work

End(w, i) ==
    /\ holds[w] = i
    /\ \E end \in {"open", "done", "given up"} : work' = [work EXCEPT ![i] = end]
    /\ leased' = [leased EXCEPT ![i] = FALSE]
    /\ holds' = Released(i)

Quit(w) ==
    /\ holds' = [holds EXCEPT ![w] = None]
    /\ UNCHANGED <<work, leased>>

Lapse(i) ==
    /\ leased' = [leased EXCEPT ![i] = FALSE]
    /\ UNCHANGED <<work, holds>>

WipeOut ==
    /\ work' = [i \in Items |-> "open"]
    /\ leased' = [i \in Items |-> FALSE]
    /\ holds' = [w \in Workers |-> None]

Next ==
    \/ \E w \in Workers : Quit(w) \/ \E i \in Items : Take(w, i) \/ End(w, i)
    \/ \E i \in Items : Lapse(i)
    \/ WipeOut

Spec == Init /\ [][Next]_vars
=============================================================================
