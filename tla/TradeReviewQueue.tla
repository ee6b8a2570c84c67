---------------------------- MODULE TradeReviewQueue ----------------------------
(***************************************************************************)
(* The queue of closed trades that wait for their grade, and the grading   *)
(* workers, processes of their own on the same database                    *)
(* (core/storage.py, grading_worker.py, core/trade_grading.py).            *)
(*                                                                         *)
(* A grade is a function of its revision, so that two grades of one        *)
(* revision are one row.  The classifier client is external: the worker's  *)
(* main passes none, a caller of process_one may.                          *)
(***************************************************************************)
EXTENDS Naturals, Sequences, FiniteSets, FiniteSetsExt, SequencesExt

CONSTANTS
    Revisions,            \* revisions of closed trades
    Graders,              \* grading workers
    MaxReviewAttempts,    \* --max-attempts
    MaxPending,           \* max_pending of enqueue_trade_review
    TokenBudget,          \* grading_model_daily_token_budget
    MaxClaims, MaxClears  \* bounds

ASSUME ReviewAssumption ==
    /\ {MaxReviewAttempts, MaxPending} \subseteq Nat \ {0}
    /\ {TokenBudget, MaxClaims, MaxClears} \subseteq Nat
    /\ "none" \notin Revisions

VARIABLES
    closing,              \* save_trade between its commit and its enqueue
    review_order,         \* trade_review_jobs by created_at
    review_jobs,          \* ... and their rows
    trade_grades,         \* the revisions that have a grade
    graders,              \* process_one of each worker
    review_claims,        \* claims so far: a claim_id each
    budget_tokens,        \* model_classification_budget of the day
    classifications,      \* model_classifications
    accepted,             \* history: finish_trade_review that returned true
    clears

reviewVars == <<closing, review_order, review_jobs, trade_grades, graders, review_claims,
                budget_tokens, classifications, accepted, clears>>

JobStatus == {"none", "queued", "processing", "completed", "dead_letter"}
JobRow == [status: JobStatus, attempts: 0..MaxClaims, claim: 0..MaxClaims, leased: BOOLEAN]
GraderRow == [step: {"idle", "claimed", "refused", "finished", "paid"},
              job: Revisions \cup {"none"}, claim: 0..MaxClaims]
NoJob == [status |-> "none", attempts |-> 0, claim |-> 0, leased |-> FALSE]
IdleGrader == [step |-> "idle", job |-> "none", claim |-> 0]

ReviewTypeOK ==
    /\ closing \in Revisions \cup {"none"}
    /\ review_order \in Seq(Revisions) /\ IsInjective(review_order)
    /\ review_jobs \in [Revisions -> JobRow]
    /\ \A r \in Revisions :
          /\ (review_jobs[r].status # "none") = (r \in ToSet(review_order))
          /\ review_jobs[r].leased => review_jobs[r].status = "processing"
          /\ review_jobs[r].status = "queued" => review_jobs[r].claim = 0
    /\ trade_grades \subseteq Revisions
    /\ graders \in [Graders -> GraderRow]
    /\ review_claims \in 0..MaxClaims
    /\ budget_tokens \in Nat
    /\ classifications \subseteq Revisions
    /\ accepted \in [Revisions -> Nat]
    /\ clears \in 0..MaxClears

ReviewInit ==
    /\ closing = "none"
    /\ review_order = <<>>
    /\ review_jobs = [r \in Revisions |-> NoJob]
    /\ trade_grades = {}
    /\ graders = [w \in Graders |-> IdleGrader]
    /\ review_claims = 0
    /\ budget_tokens = 0
    /\ classifications = {}
    /\ accepted = [r \in Revisions |-> 0]
    /\ clears = 0

gradeVars == <<trade_grades, accepted>>
modelVars == <<budget_tokens, classifications>>

-----------------------------------------------------------------------------
(* The backend *)

\* save_trade commits the trade; the enqueue is a transaction of its own, and
\* whatever goes wrong with it is swallowed.
save_trade(r) ==
    /\ closing = "none"
    /\ closing' = r
    /\ UNCHANGED <<review_order, review_jobs, graders, review_claims, gradeVars, modelVars, clears>>

Pending == {r \in Revisions : review_jobs[r].status \in {"queued", "processing"}}

enqueue_trade_review ==
    LET r == closing IN
    /\ r # "none"
    /\ closing' = "none"
    /\ IF Cardinality(Pending) >= MaxPending \/ review_jobs[r].status # "none"
       THEN UNCHANGED <<review_order, review_jobs>>
       ELSE /\ review_order' = Append(review_order, r)
            /\ review_jobs' = [review_jobs EXCEPT ![r] = [NoJob EXCEPT !.status = "queued"]]
    /\ UNCHANGED <<graders, review_claims, gradeVars, modelVars, clears>>

\* The backend stops between the two: the trade stays ungraded.
BackendStops ==
    /\ closing # "none"
    /\ closing' = "none"
    /\ UNCHANGED <<review_order, review_jobs, graders, review_claims, gradeVars, modelVars, clears>>

\* clear_all_data empties the tables under the workers.
clear_all_data ==
    /\ closing = "none"
    /\ clears < MaxClears
    /\ clears' = clears + 1
    /\ review_order' = <<>>
    /\ review_jobs' = [r \in Revisions |-> NoJob]
    /\ trade_grades' = {}
    /\ accepted' = [r \in Revisions |-> 0]
    /\ budget_tokens' = 0
    /\ classifications' = {}
    /\ UNCHANGED <<closing, graders, review_claims>>

-----------------------------------------------------------------------------
(* process_one *)

Reviewable(r) == \/ review_jobs[r].status = "queued"
                 \/ review_jobs[r].status = "processing" /\ ~review_jobs[r].leased
\* The oldest job that is queued, or whose lease is over.
claim_trade_review(w) ==
    /\ graders[w].step = "idle"
    /\ review_claims < MaxClaims
    /\ \E i \in DOMAIN review_order :
          LET r == review_order[i]
          IN  /\ Reviewable(r)
              /\ \A j \in 1..(i - 1) : ~Reviewable(review_order[j])
              /\ review_jobs' = [review_jobs EXCEPT ![r] =
                    [status |-> "processing", attempts |-> review_jobs[r].attempts + 1,
                     claim |-> review_claims + 1, leased |-> TRUE]]
              /\ graders' = [graders EXCEPT ![w] =
                    [step |-> "claimed", job |-> r, claim |-> review_claims + 1]]
    /\ review_claims' = review_claims + 1
    /\ UNCHANGED <<closing, review_order, gradeVars, modelVars, clears>>

\* Mutant: any worker that had the job.
HadClaim(w) == review_jobs[graders[w].job].status \in {"processing", "completed"}
HoldsClaim(w) == /\ review_jobs[graders[w].job].status = "processing"
                 /\ review_jobs[graders[w].job].claim = graders[w].claim

\* The grade and the end of the job in one transaction.
finish_trade_review(w) ==
    LET r == graders[w].job IN
    /\ graders[w].step = "claimed"
    /\ IF HoldsClaim(w)
       THEN /\ trade_grades' = trade_grades \cup {r}
            /\ accepted' = [accepted EXCEPT ![r] = @ + 1]
            /\ review_jobs' = [review_jobs EXCEPT ![r] =
                  [@ EXCEPT !.status = "completed", !.leased = FALSE]]
            /\ graders' = [graders EXCEPT ![w].step = "finished"]
       ELSE /\ graders' = [graders EXCEPT ![w].step = "refused"]
            /\ UNCHANGED <<review_jobs, gradeVars>>
    /\ UNCHANGED <<closing, review_order, review_claims, modelVars, clears>>

TriedOut(r) == review_jobs[r].attempts >= MaxReviewAttempts

HandedBack(row, status) == [row EXCEPT !.status = status, !.claim = 0, !.leased = FALSE]

\* After a result that was refused, or whenever the attempt raises; a claim that
\* is not held any more is left alone.
fail_trade_review(w) ==
    LET r == graders[w].job IN
    /\ graders[w].step # "idle"
    /\ review_jobs' = IF HoldsClaim(w)
          THEN [review_jobs EXCEPT ![r] =
                  HandedBack(@, IF TriedOut(r) THEN "dead_letter" ELSE "queued")]
          ELSE review_jobs
    /\ graders' = [graders EXCEPT ![w] = IdleGrader]
    /\ UNCHANGED <<closing, review_order, review_claims, gradeVars, modelVars, clears>>

\* reserve_model_classification_budget, one immediate transaction.
reserve_model_budget(w, tokens) ==
    /\ graders[w].step = "finished"
    /\ IF budget_tokens + tokens > TokenBudget
       THEN /\ graders' = [graders EXCEPT ![w] = IdleGrader]
            /\ UNCHANGED budget_tokens
       ELSE /\ budget_tokens' = budget_tokens + tokens
            /\ graders' = [graders EXCEPT ![w].step = "paid"]
    /\ UNCHANGED <<closing, review_order, review_jobs, review_claims, gradeVars, classifications,
                   clears>>

\* The client answers for the job, or for nothing in time.
save_model_classification(w, answers) ==
    /\ graders[w].step = "paid"
    /\ classifications' = IF answers THEN classifications \cup {graders[w].job} ELSE classifications
    /\ graders' = [graders EXCEPT ![w] = IdleGrader]
    /\ UNCHANGED <<closing, review_order, review_jobs, review_claims, gradeVars, budget_tokens,
                   clears>>

\* No model configured: the worker is done.
grading_is_done(w) ==
    /\ graders[w].step = "finished"
    /\ graders' = [graders EXCEPT ![w] = IdleGrader]
    /\ UNCHANGED <<closing, review_order, review_jobs, review_claims, gradeVars, modelVars, clears>>

ReviewLeaseExpires(r) ==
    /\ review_jobs[r].leased
    /\ review_jobs' = [review_jobs EXCEPT ![r].leased = FALSE]
    /\ UNCHANGED <<closing, review_order, graders, review_claims, gradeVars, modelVars, clears>>

GraderDies(w) ==
    /\ graders[w].step # "idle"
    /\ graders' = [graders EXCEPT ![w] = IdleGrader]
    /\ UNCHANGED <<closing, review_order, review_jobs, review_claims, gradeVars, modelVars, clears>>

ReviewNext ==
    \/ \E r \in Revisions : save_trade(r) \/ ReviewLeaseExpires(r)
    \/ enqueue_trade_review \/ BackendStops \/ clear_all_data
    \/ \E w \in Graders :
          \/ claim_trade_review(w) \/ finish_trade_review(w) \/ fail_trade_review(w)
          \/ \E tokens \in 1..2 : reserve_model_budget(w, tokens)
          \/ \E answers \in BOOLEAN : save_model_classification(w, answers)
          \/ grading_is_done(w) \/ GraderDies(w)

ReviewSpec == ReviewInit /\ [][ReviewNext]_reviewVars

-----------------------------------------------------------------------------
(* Properties *)

\* A revision is graded by one attempt: the worker whose lease ran out comes
\* back to a claim that is not its own, and its result is refused; the grade is
\* there exactly when the job is completed.
GradedOnce ==
    \A r \in Revisions :
        /\ accepted[r] <= 1
        /\ (r \in trade_grades) = (review_jobs[r].status = "completed")
        /\ (r \in trade_grades) = (accepted[r] = 1)

\* A job goes back to the queue only while it has attempts left, whichever
\* worker failed and however often its lease ran out.
RetriesAreBounded ==
    \A r \in Revisions :
        /\ review_jobs[r].status = "queued" => review_jobs[r].attempts < MaxReviewAttempts
        /\ review_jobs[r].status = "dead_letter" => review_jobs[r].attempts >= MaxReviewAttempts

\* The queue never holds more than its limit: a job handed back by a worker had
\* its place kept.
PendingIsBounded == Cardinality(Pending) <= MaxPending

\* The rows and the workers as work under a lease.  A worker that was refused,
\* or has saved its grade, holds nothing: nothing it does ends a job.
WorkOn(status) == CASE status = "completed" -> "done"
                    [] status = "dead_letter" -> "given up"
                    [] OTHER -> "open"
JobHeld(w) == IF graders[w].step = "claimed" /\ HoldsClaim(w) THEN graders[w].job ELSE "none"
Grading == INSTANCE LeasedWork WITH
    Items <- Revisions, Workers <- Graders, None <- "none",
    work <- [r \in Revisions |-> WorkOn(review_jobs[r].status)],
    leased <- [r \in Revisions |-> review_jobs[r].leased],
    holds <- [w \in Graders |-> JobHeld(w)]

\* The queue hands every revision to as many attempts as it may have, has one of
\* them graded, and keeps to its limit; a job is taken over only when its lease
\* is over, and a worker whose job was taken over, or that was refused, or whose
\* grade is saved, does not change it by anything that goes wrong with it later
\* (claim_trade_review, finish_trade_review, fail_trade_review).
QueueHolds ==
    /\ [](GradedOnce /\ RetriesAreBounded /\ PendingIsBounded)
    /\ Grading!Spec
=============================================================================
