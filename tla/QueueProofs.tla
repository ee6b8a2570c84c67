------------------------- MODULE QueueProofs -------------------------
(***************************************************************************)
(* Proofs about the backend's two queues in its database, which workers    *)
(* claim from: the grading queue and the notification outbox; that both    *)
(* implement LeasedWork; and about the four components of the trading side *)
(* as MCBackend puts them beside each other.                               *)
(***************************************************************************)
EXTENDS AutonomousPilotProofs, ShadowTrackingProofs, MCBackend, FiniteSetTheorems, TLAPS

-----------------------------------------------------------------------------
(***************************************************************************)
(* The grading queue is sound for any set of revisions and workers, finite *)
(* or not, and any limits.  Graded once and bounded retries are relations  *)
(* between a job's row and its grade that every transaction keeps; what    *)
(* the induction needs besides is that a worker past its claim has a job,  *)
(* that claim numbers and attempts never overtake the claims made, and     *)
(* that the jobs which count against the limit are finitely many.          *)
(***************************************************************************)

\* A worker that claimed has a job (process_one).
GraderHasJob == \A w \in Graders : graders[w].step # "idle" => graders[w].job \in Revisions

\* A job was attempted at most as often as claims were made.
AttemptsAreClaims == \A r \in Revisions : review_jobs[r].attempts <= review_claims

\* The jobs that count against the limit can be counted.
PendingIsFinite == IsFiniteSet(Pending)

ReviewInv ==
    /\ ReviewTypeOK
    /\ GraderHasJob /\ AttemptsAreClaims /\ PendingIsFinite
    /\ GradedOnce /\ RetriesAreBounded /\ PendingIsBounded

-----------------------------------------------------------------------------
(* Lemmas about the rows and the queue *)

\* The limits are natural numbers, and no revision is called none.
LEMMA ReviewConstants ==
  /\ MaxReviewAttempts \in Nat \ {0} /\ MaxPending \in Nat \ {0}
  /\ MaxClaims \in Nat /\ MaxClears \in Nat /\ "none" \notin Revisions
  /\ 0 \in 0..MaxClaims
  BY ReviewAssumption

\* The numbers in the rows are numbers.
LEMMA ReviewNumbers ==
  ASSUME ReviewTypeOK
  PROVE  /\ review_claims \in Nat
         /\ \A r \in Revisions : /\ review_jobs[r].attempts \in Nat
                                 /\ accepted[r] \in Nat
  BY ReviewConstants DEF ReviewTypeOK, JobRow

\* An idle worker is a worker, and so is one that moves on.
LEMMA GraderTyped ==
  ASSUME graders \in [Graders -> GraderRow], NEW w \in Graders,
         NEW step \in {"idle", "claimed", "refused", "finished", "paid"}
  PROVE  /\ [graders EXCEPT ![w] = IdleGrader] \in [Graders -> GraderRow]
         /\ [graders EXCEPT ![w].step = step] \in [Graders -> GraderRow]
<1>1. IdleGrader \in GraderRow
  BY ReviewConstants DEF IdleGrader, GraderRow
<1>2. [graders[w] EXCEPT !.step = step] \in GraderRow
  BY DEF GraderRow
<1> QED
  BY <1>1, <1>2

\* A row that takes a new status and is not leased any more is a row
\* (finish_trade_review, fail_trade_review).
LEMMA RowTyped ==
  ASSUME NEW row \in JobRow, NEW status \in JobStatus
  PROVE  /\ [row EXCEPT !.status = status, !.leased = FALSE] \in JobRow
         /\ [row EXCEPT !.leased = FALSE] \in JobRow
         /\ HandedBack(row, status) \in JobRow
  BY ReviewConstants DEF JobRow, HandedBack

\* A job that leaves the queue, or stays, leaves it within its limit
\* (finish_trade_review, fail_trade_review, claim_trade_review).
LEMMA PendingShrinks ==
  ASSUME PendingIsFinite, PendingIsBounded, MaxPending \in Nat, Pending' \subseteq Pending
  PROVE  PendingIsFinite' /\ PendingIsBounded'
<1>1. /\ IsFiniteSet(Pending') /\ Cardinality(Pending') <= Cardinality(Pending)
  BY FS_Subset DEF PendingIsFinite
<1>2. Cardinality(Pending') \in Nat /\ Cardinality(Pending) \in Nat
  BY <1>1, FS_CardinalityType DEF PendingIsFinite
<1> QED
  BY <1>1, <1>2 DEF PendingIsFinite, PendingIsBounded

\* A new job at the end of the queue is there once, and the others stay
\* (enqueue_trade_review).
LEMMA QueueAppended ==
  ASSUME review_order \in Seq(Revisions), IsInjective(review_order),
         NEW r \in Revisions, r \notin ToSet(review_order)
  PROVE  LET longer == Append(review_order, r)
         IN  /\ longer \in Seq(Revisions)
             /\ IsInjective(longer)
             /\ ToSet(longer) = ToSet(review_order) \cup {r}
<1> DEFINE longer == Append(review_order, r)
           n == Len(review_order)
<1>1. /\ longer \in Seq(Revisions) /\ n \in Nat /\ DOMAIN review_order = 1..n
      /\ DOMAIN longer = 1..(n + 1) /\ longer[n + 1] = r
      /\ \A i \in 1..n : longer[i] = review_order[i]
  OBVIOUS
<1>2. \A i \in 1..n : longer[i] # r
  BY <1>1 DEF ToSet
<1>3. IsInjective(longer)
  BY <1>1, <1>2 DEF IsInjective
<1>4. ToSet(longer) = ToSet(review_order) \cup {r}
  <2>1. \A i \in 1..(n + 1) : i \in 1..n \/ i = n + 1
    BY <1>1
  <2>2. \A i \in 1..n : i \in 1..(n + 1)
    BY <1>1
  <2>3. n + 1 \in 1..(n + 1)
    BY <1>1
  <2> QED
    BY <1>1, <2>1, <2>2, <2>3 DEF ToSet
<1> QED
  BY <1>1, <1>3, <1>4

-----------------------------------------------------------------------------
(* The initial states, and one lemma per operation *)

\* The tables start empty.
LEMMA ReviewInitially == ReviewInit => ReviewInv
<1> SUFFICES ASSUME ReviewInit PROVE ReviewInv
  OBVIOUS
<1>1. ToSet(review_order) = {} /\ IsInjective(review_order) /\ review_order \in Seq(Revisions)
  BY DEF ReviewInit, ToSet, IsInjective
<1>2. review_jobs \in [Revisions -> JobRow]
  BY ReviewAssumption DEF ReviewInit, NoJob, JobRow, JobStatus
<1>3. graders \in [Graders -> GraderRow]
  BY ReviewAssumption DEF ReviewInit, IdleGrader, GraderRow
<1>4. ReviewTypeOK
  BY ReviewAssumption, <1>1, <1>2, <1>3
     DEF ReviewInit, ReviewTypeOK, NoJob, JobRow, JobStatus, GraderRow
<1>5. Pending = {}
  BY DEF ReviewInit, Pending, NoJob
<1>6. PendingIsFinite /\ PendingIsBounded
  BY <1>5, FS_EmptySet, ReviewAssumption DEF PendingIsFinite, PendingIsBounded
<1>7. GraderHasJob /\ AttemptsAreClaims /\ GradedOnce /\ RetriesAreBounded
  BY ReviewAssumption DEF ReviewInit, GraderHasJob, AttemptsAreClaims, GradedOnce,
     RetriesAreBounded, NoJob, IdleGrader
<1> QED
  BY <1>4, <1>6, <1>7 DEF ReviewInv

\* What is said of the rows stays true while they are left alone.
LEMMA RowsLeftAlone ==
  ASSUME ReviewInv, UNCHANGED <<review_jobs, review_claims, trade_grades, accepted>>
  PROVE  /\ AttemptsAreClaims' /\ PendingIsFinite'
         /\ GradedOnce' /\ RetriesAreBounded' /\ PendingIsBounded'
<1>1. Pending' = Pending
  BY DEF Pending
<1> QED
  BY <1>1 DEF ReviewInv, AttemptsAreClaims, PendingIsFinite, GradedOnce, RetriesAreBounded,
     PendingIsBounded

\* The backend between a trade and its job, and the lease clock
\* (save_trade, BackendStops).
LEMMA BackendKeepsReviews ==
  ASSUME ReviewInv, BackendStops \/ \E r \in Revisions : save_trade(r)
  PROVE  ReviewInv'
<1>1. UNCHANGED <<review_order, review_jobs, graders, review_claims, gradeVars, modelVars, clears>>
  BY DEF save_trade, BackendStops
<1>2. closing' \in Revisions \cup {"none"}
  BY DEF save_trade, BackendStops
<1>3. ReviewTypeOK'
  BY <1>1, <1>2 DEF ReviewInv, ReviewTypeOK, gradeVars, modelVars
<1>4. GraderHasJob'
  BY <1>1 DEF ReviewInv, GraderHasJob
<1> QED
  BY <1>1, <1>3, <1>4, RowsLeftAlone DEF ReviewInv, gradeVars

\* A worker's steps that touch no row: the budget, the classifier, the end of
\* its work and its death.
LEMMA WorkerAloneKeepsReviews ==
  ASSUME ReviewInv, NEW w \in Graders,
         \/ \E tokens \in 1..2 : reserve_model_budget(w, tokens)
         \/ \E answers \in BOOLEAN : save_model_classification(w, answers)
         \/ grading_is_done(w) \/ GraderDies(w)
  PROVE  ReviewInv'
<1>1. UNCHANGED <<closing, review_order, review_jobs, review_claims, gradeVars, clears>>
  BY DEF reserve_model_budget, save_model_classification, grading_is_done, GraderDies
<1>2. graders[w].step # "idle"
  BY DEF reserve_model_budget, save_model_classification, grading_is_done, GraderDies
<1>3. \/ graders' = [graders EXCEPT ![w] = IdleGrader]
      \/ graders' = [graders EXCEPT ![w].step = "paid"]
  BY DEF reserve_model_budget, save_model_classification, grading_is_done, GraderDies
<1>4. budget_tokens' \in Nat /\ classifications' \subseteq Revisions
  <2>1. CASE \E tokens \in 1..2 : reserve_model_budget(w, tokens)
    BY <2>1 DEF ReviewInv, ReviewTypeOK, reserve_model_budget
  <2>2. CASE \E answers \in BOOLEAN : save_model_classification(w, answers)
    BY <1>2, <2>2 DEF ReviewInv, ReviewTypeOK, GraderHasJob, save_model_classification
  <2>3. CASE grading_is_done(w) \/ GraderDies(w)
    BY <2>3 DEF ReviewInv, ReviewTypeOK, grading_is_done, GraderDies, modelVars
  <2> QED
    BY <2>1, <2>2, <2>3
<1>5. graders' \in [Graders -> GraderRow]
  BY <1>3, GraderTyped DEF ReviewInv, ReviewTypeOK
<1>6. ReviewTypeOK'
  BY <1>1, <1>4, <1>5 DEF ReviewInv, ReviewTypeOK, gradeVars
<1>7. GraderHasJob'
  <2>1. \A v \in Graders : \/ graders'[v] = graders[v]
                           \/ graders'[v].step = "idle"
                           \/ graders[v].step # "idle" /\ graders'[v].job = graders[v].job
    BY <1>2, <1>3 DEF ReviewInv, ReviewTypeOK, IdleGrader, GraderRow
  <2> QED
    BY <2>1 DEF ReviewInv, GraderHasJob
<1> QED
  BY <1>1, <1>6, <1>7, RowsLeftAlone DEF ReviewInv, gradeVars

\* The new job has its whole budget of attempts, and its place is counted
\* before it is taken (enqueue_trade_review).
LEMMA EnqueueKeepsReviews ==
  ASSUME ReviewInv, enqueue_trade_review
  PROVE  ReviewInv'
<1> DEFINE r == closing
<1>1. /\ r \in Revisions /\ closing' = "none"
      /\ UNCHANGED <<graders, review_claims, gradeVars, modelVars, clears>>
  BY DEF enqueue_trade_review, ReviewInv, ReviewTypeOK
<1>2. GraderHasJob'
  BY <1>1 DEF ReviewInv, GraderHasJob
<1>3. CASE Cardinality(Pending) >= MaxPending \/ review_jobs[r].status # "none"
  <2>1. UNCHANGED <<review_order, review_jobs>>
    BY <1>3 DEF enqueue_trade_review
  <2>2. ReviewTypeOK'
    BY <1>1, <2>1 DEF ReviewInv, ReviewTypeOK, gradeVars, modelVars
  <2> QED
    BY <1>1, <1>2, <2>1, <2>2, RowsLeftAlone DEF ReviewInv, gradeVars
<1>4. CASE ~(Cardinality(Pending) >= MaxPending \/ review_jobs[r].status # "none")
  <2>1. /\ review_order' = Append(review_order, r)
        /\ review_jobs' = [review_jobs EXCEPT ![r] = [NoJob EXCEPT !.status = "queued"]]
    BY <1>4 DEF enqueue_trade_review
  <2>2. r \notin ToSet(review_order)
    BY <1>1, <1>4 DEF ReviewInv, ReviewTypeOK
  <2>3. /\ review_order' \in Seq(Revisions) /\ IsInjective(review_order')
        /\ ToSet(review_order') = ToSet(review_order) \cup {r}
    BY <1>1, <2>1, <2>2, QueueAppended DEF ReviewInv, ReviewTypeOK
  <2>4. /\ review_jobs' \in [Revisions -> JobRow]
        /\ review_jobs'[r].status = "queued" /\ review_jobs'[r].claim = 0
        /\ review_jobs'[r].attempts = 0 /\ ~review_jobs'[r].leased
        /\ \A q \in Revisions \ {r} : review_jobs'[q] = review_jobs[q]
    <3>1. [NoJob EXCEPT !.status = "queued"] \in JobRow
      BY ReviewConstants DEF NoJob, JobRow, JobStatus
    <3>2. review_jobs \in [Revisions -> JobRow]
      BY DEF ReviewInv, ReviewTypeOK
    <3> QED
      BY <1>1, <2>1, <3>1, <3>2 DEF NoJob
  <2>5. \A q \in Revisions :
            /\ (review_jobs'[q].status # "none") = (q \in ToSet(review_order'))
            /\ review_jobs'[q].leased => review_jobs'[q].status = "processing"
            /\ review_jobs'[q].status = "queued" => review_jobs'[q].claim = 0
    BY <1>1, <2>3, <2>4 DEF ReviewInv, ReviewTypeOK
  <2>6. ReviewTypeOK'
    BY <1>1, <2>3, <2>4, <2>5
       DEF ReviewInv, ReviewTypeOK, gradeVars, modelVars
  <2>7. Pending' = Pending \cup {r}
    BY <1>1, <2>4 DEF Pending
  <2>8. PendingIsFinite' /\ PendingIsBounded'
    <3>1. r \notin Pending
      BY <1>4 DEF Pending
    <3>2. /\ IsFiniteSet(Pending') /\ Cardinality(Pending') = Cardinality(Pending) + 1
          /\ Cardinality(Pending) \in Nat
      BY <2>7, <3>1, FS_AddElement, FS_CardinalityType DEF ReviewInv, PendingIsFinite
    <3> QED
      BY <1>4, <3>2, ReviewAssumption DEF PendingIsFinite, PendingIsBounded
  <2>9. RetriesAreBounded' /\ AttemptsAreClaims'
    BY <1>1, <2>4, ReviewConstants, ReviewNumbers
       DEF ReviewInv, RetriesAreBounded, AttemptsAreClaims
  <2>10. GradedOnce'
    BY <1>1, <1>4, <2>4 DEF ReviewInv, GradedOnce, gradeVars
  <2> QED
    BY <1>2, <2>6, <2>8, <2>9, <2>10 DEF ReviewInv
<1> QED
  BY <1>3, <1>4

\* Everything is gone at once, jobs and grades alike (clear_all_data).
LEMMA ClearKeepsReviews ==
  ASSUME ReviewInv, clear_all_data
  PROVE  ReviewInv'
<1>1. UNCHANGED <<closing, graders, review_claims>> /\ clears' \in 0..MaxClears
  BY ReviewAssumption DEF clear_all_data, ReviewInv, ReviewTypeOK
<1>2. \A r \in Revisions : review_jobs'[r] = NoJob
  BY DEF clear_all_data
<1>3. ToSet(review_order') = {} /\ IsInjective(review_order') /\ review_order' \in Seq(Revisions)
  BY DEF clear_all_data, ToSet, IsInjective
<1>4. review_jobs' \in [Revisions -> JobRow]
  BY ReviewAssumption DEF clear_all_data, NoJob, JobRow, JobStatus
<1>5. ReviewTypeOK'
  BY <1>1, <1>2, <1>3, <1>4
     DEF clear_all_data, ReviewInv, ReviewTypeOK, NoJob, JobRow, JobStatus
<1>6. Pending' = {}
  BY <1>2 DEF Pending, NoJob
<1>7. PendingIsFinite' /\ PendingIsBounded'
  BY <1>6, FS_EmptySet, ReviewAssumption DEF PendingIsFinite, PendingIsBounded
<1>8. GraderHasJob' /\ AttemptsAreClaims' /\ GradedOnce' /\ RetriesAreBounded'
  BY <1>1, <1>2, ReviewAssumption
     DEF clear_all_data, ReviewInv, ReviewTypeOK, GraderHasJob, AttemptsAreClaims, GradedOnce,
         RetriesAreBounded, NoJob
<1> QED
  BY <1>5, <1>7, <1>8 DEF ReviewInv

\* The job was pending before, and has one attempt and one claim more
\* (claim_trade_review).
LEMMA ClaimKeepsReviews ==
  ASSUME ReviewInv, NEW w \in Graders, claim_trade_review(w)
  PROVE  ReviewInv'
<1>1. PICK i \in DOMAIN review_order :
        LET r == review_order[i]
        IN  /\ Reviewable(r)
            /\ review_jobs' = [review_jobs EXCEPT ![r] =
                  [status |-> "processing", attempts |-> review_jobs[r].attempts + 1,
                   claim |-> review_claims + 1, leased |-> TRUE]]
            /\ graders' = [graders EXCEPT ![w] =
                  [step |-> "claimed", job |-> r, claim |-> review_claims + 1]]
  BY DEF claim_trade_review
<1> DEFINE r == review_order[i]
<1>2. r \in Revisions /\ review_jobs[r].status \in {"queued", "processing"}
  BY <1>1 DEF ReviewInv, ReviewTypeOK, Reviewable
<1>3. /\ review_claims < MaxClaims /\ review_claims' = review_claims + 1
      /\ UNCHANGED <<closing, review_order, gradeVars, modelVars, clears>>
  BY DEF claim_trade_review
<1>4. /\ review_claims \in Nat /\ review_claims' \in 0..MaxClaims
      /\ review_jobs[r].attempts \in Nat /\ review_jobs[r].attempts <= review_claims
  BY <1>2, <1>3, ReviewConstants, ReviewNumbers DEF ReviewInv, AttemptsAreClaims
<1>5. /\ review_jobs' \in [Revisions -> JobRow]
      /\ review_jobs'[r].status = "processing"
      /\ review_jobs'[r].attempts = review_jobs[r].attempts + 1
      /\ \A q \in Revisions \ {r} : review_jobs'[q] = review_jobs[q]
  <2>1. [status |-> "processing", attempts |-> review_jobs[r].attempts + 1,
         claim |-> review_claims + 1, leased |-> TRUE] \in JobRow
    BY <1>3, <1>4, ReviewAssumption DEF JobRow, JobStatus
  <2> QED
    BY <1>1, <1>2, <2>1 DEF ReviewInv, ReviewTypeOK, JobRow, JobStatus
<1>6. graders' \in [Graders -> GraderRow]
  <2>1. [step |-> "claimed", job |-> r, claim |-> review_claims + 1] \in GraderRow
    BY <1>2, <1>3, <1>4 DEF GraderRow
  <2> QED
    BY <1>1, <2>1 DEF ReviewInv, ReviewTypeOK, GraderRow
<1>7. ReviewTypeOK'
  BY <1>2, <1>3, <1>4, <1>5, <1>6
     DEF ReviewInv, ReviewTypeOK, gradeVars, modelVars
<1>8. GraderHasJob'
  BY <1>1, <1>2 DEF ReviewInv, ReviewTypeOK, GraderHasJob
<1>9. AttemptsAreClaims'
  BY <1>3, <1>4, <1>5, ReviewNumbers DEF ReviewInv, AttemptsAreClaims
<1>10. Pending' \subseteq Pending
  BY <1>2, <1>5 DEF Pending
<1>11. PendingIsFinite' /\ PendingIsBounded'
  BY <1>10, PendingShrinks, ReviewAssumption DEF ReviewInv
<1>12. GradedOnce' /\ RetriesAreBounded'
  BY <1>2, <1>3, <1>5 DEF ReviewInv, ReviewTypeOK, GradedOnce, RetriesAreBounded, gradeVars
<1> QED
  BY <1>7, <1>8, <1>9, <1>11, <1>12 DEF ReviewInv

\* Only the worker that holds the claim ends the job, and a job in progress has
\* no grade yet (finish_trade_review).
LEMMA FinishKeepsReviews ==
  ASSUME ReviewInv, NEW w \in Graders, finish_trade_review(w)
  PROVE  ReviewInv'
<1> DEFINE r == graders[w].job
<1>1. /\ graders[w].step = "claimed" /\ r \in Revisions
      /\ UNCHANGED <<closing, review_order, review_claims, modelVars, clears>>
  BY DEF finish_trade_review, ReviewInv, GraderHasJob
<1>2. GraderHasJob' /\ graders' \in [Graders -> GraderRow]
  <2>1. PICK step \in {"finished", "refused"} : graders' = [graders EXCEPT ![w].step = step]
    BY DEF finish_trade_review
  <2>2. graders \in [Graders -> GraderRow]
    BY DEF ReviewInv, ReviewTypeOK
  <2>3. \A v \in Graders : graders'[v].job = graders[v].job /\ (v # w => graders'[v] = graders[v])
    BY <2>1, <2>2
  <2> QED
    BY <1>1, <2>1, <2>2, <2>3, GraderTyped DEF ReviewInv, GraderHasJob
<1>3. CASE ~HoldsClaim(w)
  <2>1. UNCHANGED <<review_jobs, gradeVars>>
    BY <1>3 DEF finish_trade_review
  <2>2. ReviewTypeOK'
    BY <1>1, <1>2, <2>1 DEF ReviewInv, ReviewTypeOK, gradeVars, modelVars
  <2> QED
    BY <1>1, <1>2, <2>1, <2>2, RowsLeftAlone DEF ReviewInv, gradeVars
<1>4. CASE HoldsClaim(w)
  <2>1. /\ trade_grades' = trade_grades \cup {r}
        /\ accepted' = [accepted EXCEPT ![r] = @ + 1]
        /\ review_jobs' = [review_jobs EXCEPT ![r] =
              [@ EXCEPT !.status = "completed", !.leased = FALSE]]
        /\ review_jobs[r].status = "processing"
    BY <1>4 DEF finish_trade_review, HoldsClaim
  <2>2. /\ review_jobs' \in [Revisions -> JobRow]
        /\ review_jobs'[r].status = "completed" /\ ~review_jobs'[r].leased
        /\ review_jobs'[r].attempts = review_jobs[r].attempts
        /\ \A q \in Revisions \ {r} : review_jobs'[q] = review_jobs[q]
    <3>1. [review_jobs[r] EXCEPT !.status = "completed", !.leased = FALSE] \in JobRow
      BY <1>1, RowTyped DEF ReviewInv, ReviewTypeOK, JobStatus
    <3>2. review_jobs \in [Revisions -> JobRow]
      BY DEF ReviewInv, ReviewTypeOK
    <3> QED
      BY <1>1, <2>1, <3>1, <3>2 DEF JobRow
  <2>3. accepted' \in [Revisions -> Nat]
    BY <1>1, <2>1 DEF ReviewInv, ReviewTypeOK
  <2>4. accepted[r] = 0 /\ accepted'[r] = 1
        /\ \A q \in Revisions \ {r} : accepted'[q] = accepted[q]
    <3>1. review_jobs[r].status # "completed" /\ accepted[r] <= 1 /\ accepted[r] # 1
      BY <1>1, <2>1 DEF ReviewInv, GradedOnce
    <3>2. accepted \in [Revisions -> Nat]
      BY DEF ReviewInv, ReviewTypeOK
    <3>3. accepted[r] = 0
      BY <1>1, <3>1, <3>2
    <3> QED
      BY <1>1, <2>1, <3>2, <3>3
  <2>5. ReviewTypeOK'
    BY <1>1, <1>2, <2>1, <2>2, <2>3
       DEF ReviewInv, ReviewTypeOK, modelVars
  <2>6. AttemptsAreClaims' /\ RetriesAreBounded'
    BY <1>1, <2>2 DEF ReviewInv, AttemptsAreClaims, RetriesAreBounded
  <2>7. GradedOnce'
    BY <2>1, <2>2, <2>4 DEF ReviewInv, GradedOnce
  <2>8. Pending' \subseteq Pending
    BY <2>2 DEF Pending
  <2> QED
    BY <1>2, <2>5, <2>6, <2>7, <2>8, PendingShrinks, ReviewAssumption DEF ReviewInv
<1> QED
  BY <1>3, <1>4

\* A job handed back keeps its place and its attempts; it is dead once they are
\* used up (fail_trade_review).
LEMMA FailKeepsReviews ==
  ASSUME ReviewInv, NEW w \in Graders, fail_trade_review(w)
  PROVE  ReviewInv'
<1> DEFINE r == graders[w].job
<1>1. /\ r \in Revisions /\ graders' = [graders EXCEPT ![w] = IdleGrader]
      /\ UNCHANGED <<closing, review_order, review_claims, gradeVars, modelVars, clears>>
  BY DEF fail_trade_review, ReviewInv, GraderHasJob
<1>2. GraderHasJob' /\ graders' \in [Graders -> GraderRow]
  BY <1>1, ReviewAssumption
     DEF ReviewInv, ReviewTypeOK, GraderHasJob, GraderRow, IdleGrader
<1>3. CASE ~HoldsClaim(w)
  <2>1. review_jobs' = review_jobs
    BY <1>3 DEF fail_trade_review
  <2>2. ReviewTypeOK'
    BY <1>1, <1>2, <2>1 DEF ReviewInv, ReviewTypeOK, gradeVars, modelVars
  <2> QED
    BY <1>1, <1>2, <2>1, <2>2, RowsLeftAlone DEF ReviewInv, gradeVars
<1>4. CASE HoldsClaim(w)
  <2>1. /\ review_jobs' = [review_jobs EXCEPT ![r] =
              HandedBack(@, IF TriedOut(r) THEN "dead_letter" ELSE "queued")]
        /\ review_jobs[r].status = "processing"
    BY <1>4 DEF fail_trade_review, HoldsClaim
  <2>2. /\ review_jobs' \in [Revisions -> JobRow]
        /\ review_jobs'[r].status = IF TriedOut(r) THEN "dead_letter" ELSE "queued"
        /\ ~review_jobs'[r].leased /\ review_jobs'[r].claim = 0
        /\ review_jobs'[r].attempts = review_jobs[r].attempts
        /\ \A q \in Revisions \ {r} : review_jobs'[q] = review_jobs[q]
    <3> DEFINE status == IF TriedOut(r) THEN "dead_letter" ELSE "queued"
    <3>1. HandedBack(review_jobs[r], status) \in JobRow
      BY <1>1, RowTyped DEF ReviewInv, ReviewTypeOK, JobStatus
    <3>2. review_jobs \in [Revisions -> JobRow]
      BY DEF ReviewInv, ReviewTypeOK
    <3> QED
      BY <1>1, <2>1, <3>1, <3>2 DEF JobRow, HandedBack
  <2>3. ReviewTypeOK'
    BY <1>1, <1>2, <2>1, <2>2
       DEF ReviewInv, ReviewTypeOK, gradeVars, modelVars
  <2>4. AttemptsAreClaims'
    BY <1>1, <2>2 DEF ReviewInv, AttemptsAreClaims
  <2>5. RetriesAreBounded'
    BY <1>1, <2>2, ReviewConstants, ReviewNumbers DEF ReviewInv, RetriesAreBounded, TriedOut
  <2>6. GradedOnce'
    BY <1>1, <2>1, <2>2 DEF ReviewInv, GradedOnce, gradeVars
  <2>7. Pending' \subseteq Pending
    BY <2>1, <2>2 DEF Pending
  <2> QED
    BY <1>2, <2>3, <2>4, <2>5, <2>6, <2>7, PendingShrinks, ReviewAssumption DEF ReviewInv
<1> QED
  BY <1>3, <1>4

\* A lease that ends changes nobody's status.
LEMMA LeaseKeepsReviews ==
  ASSUME ReviewInv, NEW r \in Revisions, ReviewLeaseExpires(r)
  PROVE  ReviewInv'
<1>1. /\ review_jobs' = [review_jobs EXCEPT ![r].leased = FALSE]
      /\ UNCHANGED <<closing, review_order, graders, review_claims, gradeVars, modelVars, clears>>
  BY DEF ReviewLeaseExpires
<1>2. /\ review_jobs' \in [Revisions -> JobRow]
      /\ \A q \in Revisions : /\ review_jobs'[q].status = review_jobs[q].status
                              /\ review_jobs'[q].attempts = review_jobs[q].attempts
                              /\ review_jobs'[q].claim = review_jobs[q].claim
                              /\ review_jobs'[q].leased => review_jobs[q].leased
  <2>1. \A q \in Revisions : [review_jobs[q] EXCEPT !.leased = FALSE] \in JobRow
    BY RowTyped DEF ReviewInv, ReviewTypeOK, JobStatus
  <2>2. review_jobs \in [Revisions -> JobRow]
    BY DEF ReviewInv, ReviewTypeOK
  <2> QED
    BY <1>1, <2>1, <2>2 DEF JobRow
<1>3. ReviewTypeOK'
  BY <1>1, <1>2 DEF ReviewInv, ReviewTypeOK, gradeVars, modelVars
<1>4. GraderHasJob' /\ AttemptsAreClaims' /\ GradedOnce' /\ RetriesAreBounded'
  BY <1>1, <1>2
     DEF ReviewInv, GraderHasJob, AttemptsAreClaims, GradedOnce, RetriesAreBounded, gradeVars
<1>5. Pending' \subseteq Pending
  BY <1>2 DEF Pending
<1> QED
  BY <1>3, <1>4, <1>5, PendingShrinks, ReviewAssumption DEF ReviewInv

-----------------------------------------------------------------------------
(* The theorems *)

\* The invariant is inductive.
LEMMA ReviewStep == ReviewInv /\ [ReviewNext]_reviewVars => ReviewInv'
<1> SUFFICES ASSUME ReviewInv, [ReviewNext]_reviewVars PROVE ReviewInv'
  OBVIOUS
<1>1. CASE UNCHANGED reviewVars
  <2>1. UNCHANGED <<review_jobs, review_claims, trade_grades, accepted>>
    BY <1>1 DEF reviewVars
  <2>2. ReviewTypeOK' /\ GraderHasJob'
    BY <1>1 DEF ReviewInv, ReviewTypeOK, GraderHasJob, reviewVars
  <2> QED
    BY <2>1, <2>2, RowsLeftAlone DEF ReviewInv
<1>2. CASE ReviewNext
  BY <1>2, BackendKeepsReviews, WorkerAloneKeepsReviews, EnqueueKeepsReviews, ClearKeepsReviews,
     ClaimKeepsReviews, FinishKeepsReviews, FailKeepsReviews, LeaseKeepsReviews DEF ReviewNext
<1> QED
  BY <1>1, <1>2

-----------------------------------------------------------------------------
(***************************************************************************)
(* The queue implements LeasedWork.  A worker that has lost its job, or is *)
(* done with it, never comes to hold it again, since the row's claim only  *)
(* takes numbers that are new; so what it does late cannot be taken for    *)
(* the end of the attempt that has the job now.                            *)
(***************************************************************************)

\* No claim number was seen before it was given out, and a worker that was
\* refused, or has saved its grade, holds nothing.
LeaseInv ==
    \A w \in Graders :
        /\ graders[w].step # "idle" => graders[w].claim <= review_claims
        /\ graders[w].step \in {"refused", "finished", "paid"} => ~HoldsClaim(w)

\* What a step makes of a row in progress: it has the claim it had, or a new one.
RowMoves(r) ==
    \/ review_jobs'[r].status # "processing"
    \/ review_jobs'[r].claim = review_claims + 1
    \/ /\ review_jobs[r].status = "processing"
       /\ review_jobs'[r].claim = review_jobs[r].claim

\* What it makes of a worker: idle, the holder of a new claim, where it was, or
\* past its result with a claim that is over.
GraderMoves(w) ==
    \/ graders'[w].step = "idle"
    \/ graders'[w].step = "claimed" /\ graders'[w].claim = review_claims + 1
                                    /\ review_claims' = review_claims + 1
    \/ /\ graders[w].step # "idle"
       /\ graders'[w].job = graders[w].job /\ graders'[w].claim = graders[w].claim
       /\ \/ graders'[w].step = graders[w].step
          \/ ~HoldsClaim(w) \/ review_jobs'[graders[w].job].status # "processing"

\* The claim numbers are numbers.
LEMMA ClaimNumbers ==
  ASSUME ReviewInv
  PROVE  /\ review_claims \in Nat
         /\ \A r \in Revisions : review_jobs[r].claim \in Nat
         /\ \A w \in Graders : graders[w].claim \in Nat
BY ReviewConstants DEF ReviewInv, ReviewTypeOK, JobRow, GraderRow

\* A claim gives the row and the worker a number that is new.
LEMMA ClaimMoves ==
  ASSUME ReviewInv, NEW w \in Graders, claim_trade_review(w)
  PROVE  /\ review_claims' = review_claims + 1
         /\ \A r \in Revisions : RowMoves(r)
         /\ \A v \in Graders : GraderMoves(v)
<1>1. PICK r \in Revisions :
        /\ review_jobs' = [review_jobs EXCEPT ![r] =
              [status |-> "processing", attempts |-> review_jobs[r].attempts + 1,
               claim |-> review_claims + 1, leased |-> TRUE]]
        /\ graders' = [graders EXCEPT ![w] =
              [step |-> "claimed", job |-> r, claim |-> review_claims + 1]]
  <2>1. PICK i \in DOMAIN review_order :
          LET r == review_order[i]
          IN  /\ Reviewable(r)
              /\ \A j \in 1..(i - 1) : ~Reviewable(review_order[j])
              /\ review_jobs' = [review_jobs EXCEPT ![r] =
                    [status |-> "processing", attempts |-> review_jobs[r].attempts + 1,
                     claim |-> review_claims + 1, leased |-> TRUE]]
              /\ graders' = [graders EXCEPT ![w] =
                    [step |-> "claimed", job |-> r, claim |-> review_claims + 1]]
    BY DEF claim_trade_review
  <2>2. review_order[i] \in Revisions
    BY DEF ReviewInv, ReviewTypeOK
  <2> QED
    BY <2>1, <2>2
<1>2. /\ review_jobs \in [Revisions -> JobRow] /\ graders \in [Graders -> GraderRow]
      /\ review_claims' = review_claims + 1
  BY DEF ReviewInv, ReviewTypeOK, claim_trade_review
<1>3. \A q \in Revisions : RowMoves(q)
  BY <1>1, <1>2 DEF RowMoves
<1>4. \A v \in Graders : GraderMoves(v)
  BY <1>1, <1>2 DEF GraderMoves
<1> QED
  BY <1>2, <1>3, <1>4

\* A step that leaves the rows alone, or the workers but for one that is idle then.
LEMMA NothingMoves ==
  ASSUME ReviewInv
  PROVE  /\ UNCHANGED review_jobs => \A r \in Revisions : RowMoves(r)
         /\ UNCHANGED graders => \A w \in Graders : GraderMoves(w)
         /\ \A w \in Graders : graders' = [graders EXCEPT ![w] = IdleGrader] =>
               \A v \in Graders : GraderMoves(v)
<1>1. graders \in [Graders -> GraderRow]
  BY DEF ReviewInv, ReviewTypeOK
<1>2. ASSUME UNCHANGED review_jobs PROVE \A r \in Revisions : RowMoves(r)
  BY <1>2 DEF RowMoves
<1>3. ASSUME UNCHANGED graders PROVE \A w \in Graders : GraderMoves(w)
  BY <1>3 DEF GraderMoves
<1>4. ASSUME NEW w \in Graders, graders' = [graders EXCEPT ![w] = IdleGrader]
      PROVE  \A v \in Graders : GraderMoves(v)
  BY <1>1, <1>4 DEF GraderMoves, IdleGrader
<1> QED
  BY <1>2, <1>3, <1>4

\* One row that is not in progress then, or keeps its claim.
LEMMA OneRowMoves ==
  ASSUME ReviewInv, NEW r \in Revisions, NEW row,
         review_jobs' = [review_jobs EXCEPT ![r] = row],
         row.status # "processing" \/ (row.claim = review_jobs[r].claim /\ review_jobs[r].status = "processing")
  PROVE  \A q \in Revisions : RowMoves(q)
<1>1. review_jobs \in [Revisions -> JobRow]
  BY DEF ReviewInv, ReviewTypeOK
<1> QED
  BY <1>1 DEF RowMoves

\* A worker that goes on keeps job and claim, and has a result only when its
\* claim is over (finish_trade_review, reserve_model_classification_budget).
LEMMA StepMoves ==
  ASSUME ReviewInv, NEW w \in Graders, NEW step, graders' = [graders EXCEPT ![w].step = step],
         graders[w].step # "idle",
         ~HoldsClaim(w) \/ review_jobs'[graders[w].job].status # "processing"
  PROVE  \A v \in Graders : GraderMoves(v)
<1>1. graders \in [Graders -> GraderRow]
  BY DEF ReviewInv, ReviewTypeOK
<1>2. \A v \in Graders : /\ graders'[v].job = graders[v].job /\ graders'[v].claim = graders[v].claim
                         /\ v # w => graders'[v] = graders[v]
  BY <1>1 DEF GraderRow
<1>3. \A v \in Graders : v # w => GraderMoves(v)
  BY <1>2 DEF GraderMoves
<1>4. GraderMoves(w)
  BY <1>2 DEF GraderMoves
<1> QED
  BY <1>3, <1>4

\* A worker with its result.
LEMMA FinishMoves ==
  ASSUME ReviewInv, NEW w \in Graders, finish_trade_review(w)
  PROVE  /\ review_claims' = review_claims
         /\ \A r \in Revisions : RowMoves(r)
         /\ \A v \in Graders : GraderMoves(v)
<1>1. PICK r \in Revisions : r = graders[w].job
  BY DEF finish_trade_review, ReviewInv, GraderHasJob
<1>2. graders[w].step = "claimed" /\ review_claims' = review_claims
  BY DEF finish_trade_review
<1>3. CASE HoldsClaim(w)
  <2>1. PICK row : row = [review_jobs[r] EXCEPT !.status = "completed", !.leased = FALSE]
    OBVIOUS
  <2>2. review_jobs' = [review_jobs EXCEPT ![r] = row]
    BY <1>1, <1>3, <2>1 DEF finish_trade_review
  <2>3. review_jobs \in [Revisions -> JobRow] /\ row.status = "completed"
    BY <2>1 DEF ReviewInv, ReviewTypeOK, JobRow
  <2>4. \A q \in Revisions : RowMoves(q)
    BY <2>2, <2>3, OneRowMoves
  <2>5. review_jobs'[r].status # "processing"
    BY <2>2, <2>3
  <2>6. graders' = [graders EXCEPT ![w].step = "finished"]
    BY <1>3 DEF finish_trade_review
  <2> QED
    BY <1>1, <1>2, <2>4, <2>5, <2>6, StepMoves
<1>4. CASE ~HoldsClaim(w)
  <2>1. UNCHANGED review_jobs /\ graders' = [graders EXCEPT ![w].step = "refused"]
    BY <1>4 DEF finish_trade_review
  <2> QED
    BY <1>2, <1>4, <2>1, NothingMoves, StepMoves
<1> QED
  BY <1>3, <1>4

\* A worker that failed, is done, has reserved its budget or died.
LEMMA LeaveMoves ==
  ASSUME ReviewInv, LeaseInv, NEW w \in Graders,
         \/ fail_trade_review(w)
         \/ \E tokens \in 1..2 : reserve_model_budget(w, tokens)
         \/ \E answers \in BOOLEAN : save_model_classification(w, answers)
         \/ grading_is_done(w) \/ GraderDies(w)
  PROVE  /\ review_claims' = review_claims
         /\ \A r \in Revisions : RowMoves(r)
         /\ \A v \in Graders : GraderMoves(v)
<1>1. review_claims' = review_claims
  BY DEF fail_trade_review, reserve_model_budget, save_model_classification, grading_is_done,
     GraderDies
<1>2. \/ graders' = [graders EXCEPT ![w] = IdleGrader]
      \/ /\ graders' = [graders EXCEPT ![w].step = "paid"]
         /\ graders[w].step = "finished"
  BY DEF fail_trade_review, reserve_model_budget, save_model_classification, grading_is_done,
     GraderDies
<1>3. \A v \in Graders : GraderMoves(v)
  BY <1>2, NothingMoves, StepMoves DEF LeaseInv
<1>4. CASE fail_trade_review(w) /\ HoldsClaim(w)
  <2>1. PICK r \in Revisions : r = graders[w].job
    BY <1>4 DEF fail_trade_review, ReviewInv, GraderHasJob
  <2>2. PICK status \in {"dead_letter", "queued"} :
           status = IF TriedOut(r) THEN "dead_letter" ELSE "queued"
    OBVIOUS
  <2>3. PICK row : row = HandedBack(review_jobs[r], status)
    OBVIOUS
  <2>4. review_jobs' = [review_jobs EXCEPT ![r] = row]
    BY <1>4, <2>1, <2>2, <2>3 DEF fail_trade_review
  <2>5. row.status # "processing"
    BY <2>2, <2>3 DEF HandedBack, ReviewInv, ReviewTypeOK, JobRow
  <2> QED
    BY <1>1, <1>3, <2>4, <2>5, OneRowMoves
<1>5. CASE ~(fail_trade_review(w) /\ HoldsClaim(w))
  <2>1. UNCHANGED review_jobs
    BY <1>5 DEF fail_trade_review, reserve_model_budget, save_model_classification,
       grading_is_done, GraderDies
  <2> QED
    BY <1>1, <1>3, <2>1, NothingMoves
<1> QED
  BY <1>4, <1>5

\* The backend's steps and the lease clock give no row to anybody.
LEMMA BackendMoves ==
  ASSUME ReviewInv,
         \/ UNCHANGED reviewVars
         \/ \E r \in Revisions : save_trade(r) \/ ReviewLeaseExpires(r)
         \/ enqueue_trade_review \/ BackendStops \/ clear_all_data
  PROVE  /\ review_claims' = review_claims
         /\ \A r \in Revisions : RowMoves(r)
         /\ \A w \in Graders : GraderMoves(w)
<1>1. UNCHANGED <<graders, review_claims>>
  BY DEF reviewVars, save_trade, ReviewLeaseExpires, enqueue_trade_review, BackendStops, clear_all_data
<1>2. review_jobs \in [Revisions -> JobRow]
  BY DEF ReviewInv, ReviewTypeOK
<1>3. ASSUME UNCHANGED review_jobs PROVE \A q \in Revisions : RowMoves(q)
  BY <1>3, NothingMoves
<1>4. ASSUME NEW r \in Revisions, ReviewLeaseExpires(r) PROVE \A q \in Revisions : RowMoves(q)
  <2>1. PICK row : row = [review_jobs[r] EXCEPT !.leased = FALSE]
    OBVIOUS
  <2>2. /\ review_jobs' = [review_jobs EXCEPT ![r] = row]
        /\ row.claim = review_jobs[r].claim /\ row.status = review_jobs[r].status
    BY <1>2, <1>4, <2>1 DEF ReviewLeaseExpires, JobRow
  <2>3. row.status # "processing" \/ review_jobs[r].status = "processing"
    BY <2>2
  <2> QED
    BY <2>2, <2>3, OneRowMoves
<1>5. ASSUME enqueue_trade_review, ~UNCHANGED review_jobs PROVE \A q \in Revisions : RowMoves(q)
  <2>1. PICK r \in Revisions : r = closing
    BY <1>5 DEF enqueue_trade_review, ReviewInv, ReviewTypeOK
  <2>2. PICK row : row = [NoJob EXCEPT !.status = "queued"]
    OBVIOUS
  <2>3. review_jobs' = [review_jobs EXCEPT ![r] = row] /\ row.status # "processing"
    BY <1>5, <2>1, <2>2 DEF enqueue_trade_review, NoJob
  <2> QED
    BY <2>3, OneRowMoves
<1>6. ASSUME clear_all_data PROVE \A q \in Revisions : RowMoves(q)
  <2>1. review_jobs' = [r \in Revisions |-> NoJob]
    BY <1>6 DEF clear_all_data
  <2> QED
    BY <2>1 DEF RowMoves, NoJob
<1>7. \A r \in Revisions : RowMoves(r)
  BY <1>3, <1>4, <1>5, <1>6 DEF reviewVars, save_trade, BackendStops
<1> QED
  BY <1>1, <1>7, NothingMoves

\* Every step moves each row and each worker in one of those ways.
LEMMA LeasesMove ==
  ASSUME ReviewInv, LeaseInv, [ReviewNext]_reviewVars
  PROVE  /\ review_claims <= review_claims'
         /\ \A r \in Revisions : RowMoves(r)
         /\ \A w \in Graders : GraderMoves(w)
<1>1. review_claims \in Nat
  BY ClaimNumbers
<1>2. \/ review_claims' = review_claims
      \/ review_claims' = review_claims + 1
  BY ClaimMoves, FinishMoves, LeaveMoves, BackendMoves DEF ReviewNext
<1>3. /\ \A r \in Revisions : RowMoves(r)
      /\ \A w \in Graders : GraderMoves(w)
  BY ClaimMoves, FinishMoves, LeaveMoves, BackendMoves DEF ReviewNext
<1> QED
  BY <1>1, <1>2, <1>3

\* A claim that is not held is never held again.
LEMMA NeverHeldAgain ==
  ASSUME ReviewInv, LeaseInv, NEW w \in Graders, graders[w].step # "idle",
         graders'[w].job = graders[w].job, graders'[w].claim = graders[w].claim,
         RowMoves(graders[w].job), ~HoldsClaim(w)
  PROVE  ~HoldsClaim(w)'
<1>1. /\ graders[w].claim \in Nat /\ review_claims \in Nat /\ graders[w].claim <= review_claims
  BY ClaimNumbers DEF LeaseInv
<1>2. graders[w].claim # review_claims + 1
  BY <1>1
<1> QED
  BY <1>2 DEF RowMoves, HoldsClaim

\* What a worker knows of its claim stays true.
LEMMA LeaseStep == ReviewInv /\ LeaseInv /\ [ReviewNext]_reviewVars => LeaseInv'
<1> SUFFICES ASSUME ReviewInv, LeaseInv, [ReviewNext]_reviewVars, NEW w \in Graders
             PROVE  /\ graders'[w].step # "idle" => graders'[w].claim <= review_claims'
                    /\ graders'[w].step \in {"refused", "finished", "paid"} => ~HoldsClaim(w)'
  BY DEF LeaseInv
<1>1. /\ review_claims <= review_claims' /\ GraderMoves(w)
      /\ \A r \in Revisions : RowMoves(r)
  BY LeasesMove
<1>2. review_claims \in Nat /\ graders[w].claim \in Nat /\ review_claims' \in Nat
  BY ClaimNumbers, ReviewStep, ReviewConstants DEF ReviewInv, ReviewTypeOK
<1>3. CASE graders'[w].step = "idle"
  BY <1>3
<1>4. CASE graders'[w].step = "claimed" /\ graders'[w].claim = review_claims + 1
                                        /\ review_claims' = review_claims + 1
  <2>1. graders'[w].claim <= review_claims'
    BY <1>2, <1>4
  <2> QED
    BY <1>4, <2>1
<1>5. CASE /\ graders[w].step # "idle"
           /\ graders'[w].job = graders[w].job /\ graders'[w].claim = graders[w].claim
           /\ \/ graders'[w].step = graders[w].step
              \/ ~HoldsClaim(w) \/ review_jobs'[graders[w].job].status # "processing"
  <2>1. graders'[w].claim <= review_claims'
    <3>1. graders[w].claim <= review_claims
      BY <1>5 DEF LeaseInv
    <3> QED
      BY <1>1, <1>2, <1>5, <3>1
  <2>2. RowMoves(graders[w].job)
    BY <1>1, <1>5 DEF ReviewInv, GraderHasJob
  <2>3. CASE ~HoldsClaim(w)
    BY <1>5, <2>1, <2>2, <2>3, NeverHeldAgain
  <2>4. CASE HoldsClaim(w) /\ graders'[w].step = graders[w].step
    BY <2>1, <2>4 DEF LeaseInv
  <2>5. CASE review_jobs'[graders[w].job].status # "processing"
    BY <1>5, <2>1, <2>5 DEF HoldsClaim
  <2> QED
    BY <1>5, <2>3, <2>4, <2>5
<1> QED
  BY <1>1, <1>3, <1>4, <1>5 DEF GraderMoves

-----------------------------------------------------------------------------
(* The steps that LeasedWork sees *)

\* A job ends, or begins a new attempt, and whoever held it holds it no more.
LEMMA OthersLetGo ==
  ASSUME ReviewInv, LeaseInv, NEW r \in Revisions, NEW v \in Graders, graders'[v] = graders[v],
         \A q \in Revisions \ {r} : review_jobs'[q] = review_jobs[q],
         review_jobs'[r].status # "processing" \/ review_jobs'[r].claim = review_claims + 1
  PROVE  JobHeld(v)' = IF JobHeld(v) = r THEN "none" ELSE JobHeld(v)
<1>1. graders[v].claim \in Nat /\ review_claims \in Nat
  BY ClaimNumbers
<1>2. CASE graders[v].step # "claimed"
  BY <1>2, ReviewConstants DEF JobHeld
<1>3. CASE graders[v].step = "claimed" /\ graders[v].job # r
  <2>1. graders[v].job \in Revisions
    BY <1>3 DEF ReviewInv, GraderHasJob
  <2>2. HoldsClaim(v)' <=> HoldsClaim(v)
    BY <1>3, <2>1 DEF HoldsClaim
  <2> QED
    BY <1>3, <2>2, ReviewConstants DEF JobHeld
<1>4. CASE graders[v].step = "claimed" /\ graders[v].job = r
  <2>1. graders[v].claim # review_claims + 1
    BY <1>1, <1>4 DEF LeaseInv
  <2>2. ~HoldsClaim(v)'
    BY <1>4, <2>1 DEF HoldsClaim
  <2> QED
    BY <1>4, <2>2 DEF JobHeld
<1> QED
  BY <1>2, <1>3, <1>4

\* Rows that keep status and claim are held by the workers that held them.
LEMMA HeldAlike ==
  ASSUME ReviewInv, NEW v \in Graders, graders'[v] = graders[v],
         \A q \in Revisions : /\ review_jobs'[q].status = review_jobs[q].status
                              /\ review_jobs'[q].claim = review_jobs[q].claim
  PROVE  JobHeld(v)' = JobHeld(v)
<1>1. CASE graders[v].step = "idle"
  BY <1>1 DEF JobHeld
<1>2. CASE graders[v].step # "idle"
  <2>1. graders[v].job \in Revisions
    BY <1>2 DEF ReviewInv, GraderHasJob
  <2> QED
    BY <2>1 DEF JobHeld, HoldsClaim
<1> QED
  BY <1>1, <1>2

\* The attempt that a claim begins.
LEMMA ClaimRefines ==
  ASSUME ReviewInv, LeaseInv, NEW w \in Graders, claim_trade_review(w)
  PROVE  \E r \in Revisions : Grading!Take(w, r)
<1>1. PICK i \in DOMAIN review_order :
        LET r == review_order[i]
        IN  /\ Reviewable(r)
            /\ \A j \in 1..(i - 1) : ~Reviewable(review_order[j])
            /\ review_jobs' = [review_jobs EXCEPT ![r] =
                  [status |-> "processing", attempts |-> review_jobs[r].attempts + 1,
                   claim |-> review_claims + 1, leased |-> TRUE]]
            /\ graders' = [graders EXCEPT ![w] =
                  [step |-> "claimed", job |-> r, claim |-> review_claims + 1]]
  BY DEF claim_trade_review
<1>2. PICK r \in Revisions : r = review_order[i]
  BY DEF ReviewInv, ReviewTypeOK
<1>3. /\ graders[w].step = "idle" /\ review_jobs \in [Revisions -> JobRow]
      /\ graders \in [Graders -> GraderRow] /\ Reviewable(r)
  BY <1>1, <1>2 DEF claim_trade_review, ReviewInv, ReviewTypeOK
<1>4. /\ review_jobs'[r].status = "processing" /\ review_jobs'[r].claim = review_claims + 1
      /\ review_jobs'[r].leased = TRUE
      /\ \A q \in Revisions \ {r} : review_jobs'[q] = review_jobs[q]
      /\ graders'[w] = [step |-> "claimed", job |-> r, claim |-> review_claims + 1]
      /\ \A v \in Graders \ {w} : graders'[v] = graders[v]
  BY <1>1, <1>2, <1>3
<1>5. /\ review_jobs[r].status \in {"queued", "processing"} /\ ~review_jobs[r].leased
      /\ \A q \in Revisions : review_jobs[q].leased \in BOOLEAN
  BY <1>3 DEF Reviewable, ReviewInv, ReviewTypeOK, JobRow
<1>6. JobHeld(w) = "none" /\ JobHeld(w)' = r
  BY <1>3, <1>4 DEF JobHeld, HoldsClaim
<1>7. \A v \in Graders \ {w} : JobHeld(v)' = IF JobHeld(v) = r THEN "none" ELSE JobHeld(v)
  BY <1>4, OthersLetGo
<1>8. /\ \A q \in Revisions : WorkOn(review_jobs'[q].status) = WorkOn(review_jobs[q].status)
      /\ WorkOn(review_jobs[r].status) = "open"
  BY <1>4, <1>5 DEF WorkOn
<1>9. Grading!Take(w, r)
  BY <1>4, <1>5, <1>6, <1>7, <1>8 DEF Grading!Take, Grading!Released
<1> QED
  BY <1>9

\* A job that its holder ends, one way or another, and that is held by nobody then.
LEMMA EndIsEnd ==
  ASSUME ReviewInv, LeaseInv, NEW w \in Graders, NEW r \in Revisions,
         JobHeld(w) = r, JobHeld(w)' = "none",
         \A v \in Graders \ {w} : graders'[v] = graders[v],
         \A q \in Revisions \ {r} : review_jobs'[q] = review_jobs[q],
         review_jobs'[r].status \in {"completed", "dead_letter", "queued"},
         review_jobs'[r].leased = FALSE
  PROVE  Grading!End(w, r)
<1>1. \A v \in Graders : JobHeld(v)' = IF JobHeld(v) = r THEN "none" ELSE JobHeld(v)
  BY OthersLetGo
<1>2. WorkOn(review_jobs'[r].status) \in {"open", "done", "given up"}
  BY DEF WorkOn
<1>3. PICK end \in {"open", "done", "given up"} : end = WorkOn(review_jobs'[r].status)
  BY <1>2
<1>4. [q \in Revisions |-> WorkOn(review_jobs'[q].status)]
        = [[q \in Revisions |-> WorkOn(review_jobs[q].status)] EXCEPT ![r] = end]
  BY <1>3
<1>5. [q \in Revisions |-> review_jobs'[q].leased]
        = [[q \in Revisions |-> review_jobs[q].leased] EXCEPT ![r] = FALSE]
  OBVIOUS
<1> QED
  BY <1>1, <1>4, <1>5 DEF Grading!End, Grading!Released

\* A worker that leaves, and the rows as they were.
LEMMA QuitIsQuit ==
  ASSUME ReviewInv, NEW w \in Graders, JobHeld(w)' = "none",
         \A v \in Graders \ {w} : graders'[v] = graders[v], UNCHANGED review_jobs
  PROVE  Grading!Quit(w)
<1>1. \A v \in Graders \ {w} : JobHeld(v)' = JobHeld(v)
  BY HeldAlike
<1> QED
  BY <1>1 DEF Grading!Quit

\* A result that is taken ends the job, one that is refused comes from a worker
\* that holds nothing (finish_trade_review).
LEMMA FinishRefines ==
  ASSUME ReviewInv, LeaseInv, NEW w \in Graders, finish_trade_review(w)
  PROVE  Grading!Quit(w) \/ \E r \in Revisions : Grading!End(w, r)
<1>1. PICK r \in Revisions : r = graders[w].job
  BY DEF finish_trade_review, ReviewInv, GraderHasJob
<1>2. /\ graders[w].step = "claimed" /\ review_jobs \in [Revisions -> JobRow]
      /\ graders \in [Graders -> GraderRow]
  BY DEF finish_trade_review, ReviewInv, ReviewTypeOK
<1>3. CASE HoldsClaim(w)
  <2>1. PICK row : row = [review_jobs[r] EXCEPT !.status = "completed", !.leased = FALSE]
    OBVIOUS
  <2>2. /\ review_jobs' = [review_jobs EXCEPT ![r] = row]
        /\ graders' = [graders EXCEPT ![w].step = "finished"]
    BY <1>1, <1>3, <2>1 DEF finish_trade_review
  <2>3. row.status = "completed" /\ row.leased = FALSE
    BY <1>2, <2>1 DEF JobRow
  <2>4. /\ review_jobs'[r] = row /\ graders'[w].step = "finished"
        /\ \A v \in Graders \ {w} : graders'[v] = graders[v]
        /\ \A q \in Revisions \ {r} : review_jobs'[q] = review_jobs[q]
    BY <1>2, <2>2 DEF GraderRow
  <2>5. JobHeld(w) = r /\ JobHeld(w)' = "none"
    BY <1>1, <1>2, <1>3, <2>4 DEF JobHeld
  <2>6. Grading!End(w, r)
    BY <2>3, <2>4, <2>5, EndIsEnd
  <2> QED
    BY <2>6
<1>4. CASE ~HoldsClaim(w)
  <2>1. UNCHANGED review_jobs /\ graders' = [graders EXCEPT ![w].step = "refused"]
    BY <1>4 DEF finish_trade_review
  <2>2. /\ graders'[w].step = "refused"
        /\ \A v \in Graders \ {w} : graders'[v] = graders[v]
    BY <1>2, <2>1 DEF GraderRow
  <2>3. JobHeld(w)' = "none"
    BY <2>2 DEF JobHeld
  <2> QED
    BY <2>1, <2>2, <2>3, QuitIsQuit
<1> QED
  BY <1>3, <1>4

\* A worker that fails hands its job back; one that raises after it was refused,
\* or after its grade was saved, has none to hand back (fail_trade_review).
LEMMA FailRefines ==
  ASSUME ReviewInv, LeaseInv, NEW w \in Graders, fail_trade_review(w)
  PROVE  Grading!Quit(w) \/ \E r \in Revisions : Grading!End(w, r)
<1>1. PICK r \in Revisions : r = graders[w].job
  BY DEF fail_trade_review, ReviewInv, GraderHasJob
<1>2. /\ graders[w].step # "idle" /\ review_jobs \in [Revisions -> JobRow]
      /\ graders \in [Graders -> GraderRow] /\ graders' = [graders EXCEPT ![w] = IdleGrader]
  BY DEF fail_trade_review, ReviewInv, ReviewTypeOK
<1>3. /\ JobHeld(w)' = "none"
      /\ \A v \in Graders \ {w} : graders'[v] = graders[v]
  BY <1>2 DEF JobHeld, IdleGrader
<1>4. CASE HoldsClaim(w)
  <2>1. graders[w].step = "claimed"
    BY <1>2, <1>4 DEF LeaseInv, ReviewInv, ReviewTypeOK, GraderRow
  <2>2. PICK status \in {"dead_letter", "queued"} :
           status = IF TriedOut(r) THEN "dead_letter" ELSE "queued"
    OBVIOUS
  <2>3. PICK row : row = HandedBack(review_jobs[r], status)
    OBVIOUS
  <2>4. review_jobs' = [review_jobs EXCEPT ![r] = row]
    BY <1>1, <1>4, <2>2, <2>3 DEF fail_trade_review
  <2>5. row.status = status /\ row.leased = FALSE
    BY <1>2, <2>3 DEF HandedBack, JobRow
  <2>6. /\ review_jobs'[r] = row
        /\ \A q \in Revisions \ {r} : review_jobs'[q] = review_jobs[q]
    BY <1>2, <2>4
  <2>7. JobHeld(w) = r
    BY <1>1, <1>4, <2>1 DEF JobHeld
  <2>8. Grading!End(w, r)
    BY <1>3, <2>2, <2>5, <2>6, <2>7, EndIsEnd
  <2> QED
    BY <2>8
<1>5. CASE ~HoldsClaim(w)
  <2>1. UNCHANGED review_jobs
    BY <1>5 DEF fail_trade_review
  <2> QED
    BY <1>3, <2>1, QuitIsQuit
<1> QED
  BY <1>4, <1>5

\* Past its grade a worker holds nothing, dead or alive.
LEMMA LeaveRefines ==
  ASSUME ReviewInv, NEW w \in Graders,
         \/ \E tokens \in 1..2 : reserve_model_budget(w, tokens)
         \/ \E answers \in BOOLEAN : save_model_classification(w, answers)
         \/ grading_is_done(w) \/ GraderDies(w)
  PROVE  Grading!Quit(w)
<1>1. /\ graders \in [Graders -> GraderRow] /\ UNCHANGED review_jobs
      /\ \/ graders' = [graders EXCEPT ![w] = IdleGrader]
         \/ graders' = [graders EXCEPT ![w].step = "paid"]
  BY DEF ReviewInv, ReviewTypeOK, reserve_model_budget, save_model_classification,
     grading_is_done, GraderDies
<1>2. /\ graders'[w].step # "claimed"
      /\ \A v \in Graders \ {w} : graders'[v] = graders[v]
  BY <1>1 DEF IdleGrader, GraderRow
<1>3. JobHeld(w)' = "none"
  BY <1>2 DEF JobHeld
<1> QED
  BY <1>1, <1>2, <1>3, QuitIsQuit

\* The lease clock is seen, and the wiping of the tables; a trade and its job
\* are not.
LEMMA BackendRefines ==
  ASSUME ReviewInv,
         \/ UNCHANGED reviewVars
         \/ \E r \in Revisions : save_trade(r) \/ ReviewLeaseExpires(r)
         \/ enqueue_trade_review \/ BackendStops \/ clear_all_data
  PROVE  UNCHANGED Grading!vars \/ Grading!WipeOut \/ \E r \in Revisions : Grading!Lapse(r)
<1>1. review_jobs \in [Revisions -> JobRow]
  BY DEF ReviewInv, ReviewTypeOK
<1>2. CASE UNCHANGED <<review_jobs, graders>>
  <2>1. \A v \in Graders : JobHeld(v)' = JobHeld(v)
    BY <1>2, HeldAlike
  <2> QED
    BY <1>2, <2>1 DEF Grading!vars
<1>3. ASSUME NEW r \in Revisions, ReviewLeaseExpires(r) PROVE Grading!Lapse(r)
  <2>1. PICK row : row = [review_jobs[r] EXCEPT !.leased = FALSE]
    OBVIOUS
  <2>2. /\ review_jobs' = [review_jobs EXCEPT ![r] = row] /\ UNCHANGED graders
        /\ row.claim = review_jobs[r].claim /\ row.status = review_jobs[r].status
        /\ row.leased = FALSE
    BY <1>1, <1>3, <2>1 DEF ReviewLeaseExpires, JobRow
  <2>3. /\ \A q \in Revisions : /\ review_jobs'[q].status = review_jobs[q].status
                                /\ review_jobs'[q].claim = review_jobs[q].claim
        /\ review_jobs'[r].leased = FALSE
        /\ \A q \in Revisions \ {r} : review_jobs'[q] = review_jobs[q]
    BY <1>1, <2>2
  <2>4. \A v \in Graders : JobHeld(v)' = JobHeld(v)
    BY <2>2, <2>3, HeldAlike
  <2> QED
    BY <2>3, <2>4 DEF Grading!Lapse
<1>4. CASE enqueue_trade_review /\ ~UNCHANGED review_jobs
  <2>1. PICK r \in Revisions : r = closing
    BY <1>4 DEF enqueue_trade_review, ReviewInv, ReviewTypeOK
  <2>2. PICK row : row = [NoJob EXCEPT !.status = "queued"]
    OBVIOUS
  <2>3. /\ review_jobs' = [review_jobs EXCEPT ![r] = row] /\ UNCHANGED graders
        /\ row.status = "queued" /\ row.leased = FALSE
        /\ review_jobs[r].status = "none" /\ review_jobs[r].leased = FALSE
    BY <1>1, <1>4, <2>1, <2>2 DEF enqueue_trade_review, NoJob, ReviewInv, ReviewTypeOK, JobRow
  <2>4. /\ review_jobs'[r] = row
        /\ \A q \in Revisions \ {r} : review_jobs'[q] = review_jobs[q]
    BY <1>1, <2>3
  <2>5. /\ \A q \in Revisions : WorkOn(review_jobs'[q].status) = WorkOn(review_jobs[q].status)
        /\ \A q \in Revisions : review_jobs'[q].leased = review_jobs[q].leased
    BY <2>3, <2>4 DEF WorkOn
  <2>6. \A v \in Graders : JobHeld(v)' = JobHeld(v)
    <3> SUFFICES ASSUME NEW v \in Graders PROVE JobHeld(v)' = JobHeld(v)
      OBVIOUS
    <3>1. CASE graders[v].step = "idle"
      BY <2>3, <3>1 DEF JobHeld
    <3>2. CASE graders[v].step # "idle"
      <4>1. graders[v].job \in Revisions
        BY <3>2 DEF ReviewInv, GraderHasJob
      <4> QED
        BY <2>3, <2>4, <4>1 DEF JobHeld, HoldsClaim
    <3> QED
      BY <3>1, <3>2
  <2> QED
    BY <2>5, <2>6 DEF Grading!vars
<1>5. CASE clear_all_data
  <2>1. review_jobs' = [r \in Revisions |-> NoJob] /\ UNCHANGED graders
    BY <1>5 DEF clear_all_data
  <2>2. \A r \in Revisions : review_jobs'[r].status = "none" /\ review_jobs'[r].leased = FALSE
    BY <2>1 DEF NoJob
  <2>3. \A r \in Revisions : WorkOn(review_jobs'[r].status) = "open"
    BY <2>2 DEF WorkOn
  <2>4. \A v \in Graders : JobHeld(v)' = "none"
    <3> SUFFICES ASSUME NEW v \in Graders, graders[v].step = "claimed" PROVE ~HoldsClaim(v)'
      BY <2>1 DEF JobHeld
    <3>1. graders[v].job \in Revisions
      BY DEF ReviewInv, GraderHasJob
    <3> QED
      BY <2>1, <2>2, <3>1 DEF HoldsClaim
  <2> QED
    BY <2>2, <2>3, <2>4 DEF Grading!WipeOut
<1>6. CASE UNCHANGED reviewVars \/ BackendStops \/ \E r \in Revisions : save_trade(r)
  BY <1>2, <1>6 DEF reviewVars, BackendStops, save_trade
<1>7. CASE enqueue_trade_review /\ UNCHANGED review_jobs
  BY <1>2, <1>7 DEF enqueue_trade_review
<1> QED
  BY <1>3, <1>4, <1>5, <1>6, <1>7

\* Every step of the queue is a step of LeasedWork or a stutter.
LEMMA GradingNext ==
  ASSUME ReviewInv, LeaseInv, [ReviewNext]_reviewVars
  PROVE  [Grading!Next]_(Grading!vars)
<1>1. ASSUME NEW w \in Graders, claim_trade_review(w) PROVE Grading!Next
  BY <1>1, ClaimRefines DEF Grading!Next
<1>2. ASSUME NEW w \in Graders, finish_trade_review(w) \/ fail_trade_review(w) PROVE Grading!Next
  BY <1>2, FinishRefines, FailRefines DEF Grading!Next
<1>3. ASSUME NEW w \in Graders,
             \/ \E tokens \in 1..2 : reserve_model_budget(w, tokens)
             \/ \E answers \in BOOLEAN : save_model_classification(w, answers)
             \/ grading_is_done(w) \/ GraderDies(w)
      PROVE  Grading!Next
  BY <1>3, LeaveRefines DEF Grading!Next
<1>4. ASSUME \/ UNCHANGED reviewVars
             \/ \E r \in Revisions : save_trade(r) \/ ReviewLeaseExpires(r)
             \/ enqueue_trade_review \/ BackendStops \/ clear_all_data
      PROVE  [Grading!Next]_(Grading!vars)
  BY <1>4, BackendRefines DEF Grading!Next
<1> QED
  BY <1>1, <1>2, <1>3, <1>4 DEF ReviewNext

-----------------------------------------------------------------------------
(* The theorems *)

\* The workers and the queue are LeasedWork: only the worker that took a job last
\* ends it, and nobody takes it from that worker before its lease is over.
THEOREM GradingIsLeased == ReviewSpec => Grading!Spec
<1>1. ReviewInit => LeaseInv /\ Grading!Init
  <2> SUFFICES ASSUME ReviewInit PROVE LeaseInv /\ Grading!Init
    OBVIOUS
  <2>1. /\ \A r \in Revisions : review_jobs[r].status = "none" /\ review_jobs[r].leased = FALSE
        /\ \A w \in Graders : graders[w].step = "idle"
    BY DEF ReviewInit, NoJob, IdleGrader
  <2>2. \A r \in Revisions : WorkOn(review_jobs[r].status) = "open"
    BY <2>1 DEF WorkOn
  <2>3. \A w \in Graders : JobHeld(w) = "none"
    BY <2>1 DEF JobHeld
  <2> QED
    BY <2>1, <2>2, <2>3 DEF LeaseInv, Grading!Init
<1> QED
  BY <1>1, ReviewInitially, ReviewStep, LeaseStep, GradingNext, PTL DEF ReviewSpec, Grading!Spec

\* Every revision is graded by one attempt, goes back to the queue only while it
\* has attempts left, the queue keeps to its limit, and its jobs are leased work.
THEOREM QueueHoldsAlways == ReviewSpec => QueueHolds
<1>1. ReviewInv => GradedOnce /\ RetriesAreBounded /\ PendingIsBounded
  BY DEF ReviewInv
<1> QED
  BY ReviewInitially, ReviewStep, GradingIsLeased, <1>1, PTL DEF ReviewSpec, QueueHolds

\* The rows are of their types, and the order of the queue names each job once.
THEOREM ReviewTypeCorrect == ReviewSpec => []ReviewTypeOK
<1>1. ReviewInv => ReviewTypeOK
  BY DEF ReviewInv
<1> QED
  BY ReviewInitially, ReviewStep, <1>1, PTL DEF ReviewSpec

-----------------------------------------------------------------------------
(***************************************************************************)
(* The outbox keeps its promise for any set of events, devices, tokens and *)
(* callers.  That no event is pushed twice is not inductive: it rests on   *)
(* what a caller under way knows of its row (it still holds it, or its     *)
(* lease ran out), on attempts being distinct, and on each attempt being   *)
(* pushed and confirmed at most once.                                      *)
(***************************************************************************)

UnderWay(w) == deliverers[w].step \in {"reserved", "sending", "answered"}
KeyOf(w) == <<deliverers[w].event, deliverers[w].device>>
RowOf(w) == deliveries[KeyOf(w)]

\* An active registration is of a device (save_mobile_push_registration).
ActiveHasDevice ==
    \A t \in PushTokens : registrations[t].status = "active" =>
        registrations[t].device \in PushDevices

\* A caller has an event, and past its reservation a row of its own.
DelivererFits ==
    \A w \in Deliverers :
        /\ deliverers[w].step # "none" => deliverers[w].event \in AlertEvents
        /\ UnderWay(w) => /\ deliverers[w].token \in PushTokens
                          /\ deliverers[w].device \in PushDevices
                          /\ deliverers[w].attempt \in 1..attempts

\* Attempt ids are given out once (reserve_mobile_notification_delivery).
AttemptsAreDistinct ==
    \A v, w \in Deliverers :
        UnderWay(v) /\ UnderWay(w) /\ deliverers[v].attempt = deliverers[w].attempt => v = w

\* No attempt id was seen before it was given out.
NoAttemptAhead ==
    /\ confirmed \subseteq 1..attempts
    /\ \A k \in AlertEvents \X PushDevices :
          /\ deliveries[k].attempt <= attempts
          /\ deliveries[k].status = "none" => deliveries[k].attempt = 0

\* The row is pending for the caller that holds it; another attempt took it
\* over after a lease had run out.
HeldOrLapsed ==
    \A w \in Deliverers : UnderWay(w) =>
        /\ deliverers[w].attempt <= RowOf(w).attempt
        /\ deliverers[w].attempt = RowOf(w).attempt => RowOf(w).status = "pending"
        /\ deliverers[w].attempt < RowOf(w).attempt => KeyOf(w) \in lapsed

\* A caller that has not sent yet has left no trace.
NotYetPushed ==
    \A w \in Deliverers : deliverers[w].step \in {"reserved", "sending"} =>
        /\ deliverers[w].attempt \notin confirmed
        /\ \A p \in pushes : p.attempt # deliverers[w].attempt

\* A caller reports what its sender said (_push_sender).
AnswerIsConfirmed ==
    \A w \in Deliverers : deliverers[w].step = "answered" =>
        (deliverers[w].ok <=> deliverers[w].attempt \in confirmed)

\* Before the sender answers nothing is taken for confirmed.
OkIsAnswered == \A w \in Deliverers : deliverers[w].ok => deliverers[w].step = "answered"

\* A push is of the attempt that has the row, or of one that lost it to a lease
\* or a failure; a row that failed was not confirmed.
PushesAreOfRows ==
    \A p \in pushes :
        LET k == <<p.event, p.device>>
        IN  /\ p.attempt <= deliveries[k].attempt
            /\ p.attempt < deliveries[k].attempt => k \in lapsed \/ p.attempt \notin confirmed
            /\ p.attempt = deliveries[k].attempt /\ deliveries[k].status = "failed" =>
                  p.attempt \notin confirmed

\* What holds of the registrations, and what of the deliveries.
RegistrationsHold ==
    /\ alert_devices \in [PushDevices -> {"active", "revoked"}]
    /\ registrations \in [PushTokens -> RegistrationRow]
    /\ OneTokenPerDevice /\ ActiveHasDevice

DeliveriesTyped ==
    /\ deliveries \in [AlertEvents \X PushDevices -> DeliveryRow]
    /\ deliverers \in [Deliverers -> Deliverer]
    /\ \A w \in Deliverers : deliverers[w].step = "next" => deliverers[w].todo # {}
    /\ attempts \in 0..MaxAttempts
    /\ pushes \subseteq [token: PushTokens, event: AlertEvents, device: PushDevices,
                         attempt: 1..MaxAttempts]
    /\ confirmed \subseteq 1..MaxAttempts
    /\ lapsed \subseteq AlertEvents \X PushDevices

DeliveriesHold ==
    /\ DeliveriesTyped /\ SentMeansConfirmed /\ DelivererFits
    /\ AttemptsAreDistinct /\ NoAttemptAhead /\ HeldOrLapsed /\ NotYetPushed
    /\ AnswerIsConfirmed /\ OkIsAnswered /\ PushesAreOfRows

OutboxInv == RegistrationsHold /\ DeliveriesHold

deliveryVars == <<deliveries, deliverers, attempts, pushes, confirmed, lapsed>>

-----------------------------------------------------------------------------
(* The registrations *)

\* Revoking rows of a device makes no row active, and moves none to another
\* device (revoke_mobile_push_registrations).
LEMMA RevokedRowsHold ==
  ASSUME RegistrationsHold, NEW d, NEW but, registrations' = RevokedRows(d, but),
         alert_devices' \in [PushDevices -> {"active", "revoked"}]
  PROVE  RegistrationsHold'
<1>1. \A t \in PushTokens : /\ registrations'[t] \in RegistrationRow
                            /\ registrations'[t].device = registrations[t].device
                            /\ registrations'[t].status = "active" => registrations[t].status = "active"
  BY DEF RegistrationsHold, RevokedRows, RegistrationRow
<1>2. registrations' \in [PushTokens -> RegistrationRow]
  BY <1>1 DEF RevokedRows
<1> QED
  BY <1>1, <1>2 DEF RegistrationsHold, OneTokenPerDevice, ActiveHasDevice

\* The device's other rows are revoked before its new token becomes active, so
\* that it has one (save_mobile_push_registration).
LEMMA NewTokenHolds ==
  ASSUME RegistrationsHold, UNCHANGED alert_devices, NEW d \in PushDevices,
         NEW t \in PushTokens, save_mobile_push_registration(d, t)
  PROVE  RegistrationsHold'
<1>1. \A u \in PushTokens \ {t} :
        /\ registrations'[u] \in RegistrationRow
        /\ registrations'[u].device = registrations[u].device
        /\ registrations'[u].status = "active" => registrations[u].status = "active"
        /\ registrations'[u].status = "active" => registrations[u].device # d
  BY DEF RegistrationsHold, RevokedRows, RegistrationRow, save_mobile_push_registration
<1>2. registrations'[t] = [device |-> d, status |-> "active"]
  BY DEF RevokedRows, save_mobile_push_registration
<1>3. registrations' \in [PushTokens -> RegistrationRow]
  <2>1. [device |-> d, status |-> "active"] \in RegistrationRow
    BY DEF RegistrationRow
  <2>2. \A u \in PushTokens : registrations'[u] \in RegistrationRow
    BY <1>1, <1>2, <2>1
  <2>3. registrations' = [u \in PushTokens |-> registrations'[u]]
    BY DEF RevokedRows, save_mobile_push_registration
  <2> QED
    BY <2>2, <2>3
<1> QED
  BY <1>1, <1>2, <1>3 DEF RegistrationsHold, OneTokenPerDevice, ActiveHasDevice

\* The rows a caller loads are of tokens and devices (load_mobile_push_registrations).
LEMMA ActiveRowsTyped ==
  ASSUME RegistrationsHold
  PROVE  ActiveRows \subseteq [token: PushTokens, device: PushDevices]
  BY DEF RegistrationsHold, ActiveHasDevice, ActiveRows

-----------------------------------------------------------------------------
(* The deliveries *)

\* Nothing is said of the deliveries that their variables do not say.
LEMMA DeliveriesLeftAlone ==
  ASSUME DeliveriesHold, UNCHANGED deliveryVars
  PROVE  DeliveriesHold'
  BY DEF DeliveriesHold, DeliveriesTyped, SentMeansConfirmed, DelivererFits, AttemptsAreDistinct,
     NoAttemptAhead, HeldOrLapsed, NotYetPushed, AnswerIsConfirmed, OkIsAnswered, PushesAreOfRows,
     deliveryVars,
     UnderWay, KeyOf, RowOf

\* The bound on attempts is a number.
LEMMA OutboxConstants == MaxAttempts \in Nat \ {0} /\ 0 \in 0..MaxAttempts
  BY OutboxAssumption

\* The idle caller is a caller.
LEMMA IdleDelivererTyped == IdleDeliverer \in Deliverer
  BY OutboxConstants DEF IdleDeliverer, Deliverer

\* A caller that takes up an event, passes over a row or is gone holds nothing
\* and leaves the rows to the others.
LEMMA LettingGoHolds ==
  ASSUME DeliveriesHold, NEW w \in Deliverers, NEW row \in Deliverer,
         deliverers' = [deliverers EXCEPT ![w] = row],
         row.step \in {"none", "next"}, ~row.ok,
         row.step = "next" => row.event \in AlertEvents /\ row.todo # {},
         UNCHANGED <<deliveries, attempts, pushes, confirmed, lapsed>>
  PROVE  DeliveriesHold'
<1>1. \A v \in Deliverers : \/ v # w /\ deliverers'[v] = deliverers[v]
                            \/ v = w /\ deliverers'[v] = row
  BY DEF DeliveriesHold, DeliveriesTyped
<1>2. \A v \in Deliverers : UnderWay(v)' => v # w /\ deliverers'[v] = deliverers[v] /\ UnderWay(v)
  BY <1>1 DEF UnderWay
<1>3. DeliveriesTyped'
  BY <1>1 DEF DeliveriesHold, DeliveriesTyped
<1>4. SentMeansConfirmed' /\ PushesAreOfRows' /\ NoAttemptAhead'
  BY DEF DeliveriesHold, SentMeansConfirmed, PushesAreOfRows, NoAttemptAhead
<1>5. DelivererFits'
  BY <1>1, <1>2 DEF DeliveriesHold, DelivererFits
<1>6. AttemptsAreDistinct'
  BY <1>2 DEF DeliveriesHold, AttemptsAreDistinct
<1>7. HeldOrLapsed'
  BY <1>2 DEF DeliveriesHold, HeldOrLapsed, RowOf, KeyOf
<1>8. NotYetPushed' /\ AnswerIsConfirmed' /\ OkIsAnswered'
  BY <1>1, <1>2 DEF DeliveriesHold, NotYetPushed, AnswerIsConfirmed, OkIsAnswered, UnderWay
<1> QED
  BY <1>3, <1>4, <1>5, <1>6, <1>7, <1>8 DEF DeliveriesHold

\* The reservation: whoever else is under way for this row sees its lease
\* counted as lapsed (reserve_mobile_notification_delivery).
Reserves(w, row) ==
    LET key == <<deliverers[w].event, row.device>>
    IN  /\ deliverers[w].step = "next" /\ row \in deliverers[w].todo
        /\ Reclaimable(deliveries[key])
        /\ attempts < MaxAttempts
        /\ attempts' = attempts + 1
        /\ lapsed' = IF deliveries[key].status = "pending" /\ ~deliveries[key].leased THEN lapsed \cup {key}
                     ELSE lapsed
        /\ deliveries' = [deliveries EXCEPT ![key] =
              [status |-> "pending", attempt |-> attempts + 1, leased |-> TRUE]]
        /\ deliverers' = [deliverers EXCEPT ![w] =
              [@ EXCEPT !.step = "reserved", !.todo = deliverers[w].todo \ {row},
                        !.token = row.token, !.device = row.device, !.attempt = attempts + 1]]
        /\ UNCHANGED <<pushes, confirmed>>

\* A reservation has an attempt of its own, and takes a row from a holder only
\* with its lease.
LEMMA ReservationHolds ==
  ASSUME DeliveriesHold, NEW w \in Deliverers, NEW row, Reserves(w, row)
  PROVE  DeliveriesHold'
<1> DEFINE key == <<deliverers[w].event, row.device>>
           n == attempts + 1
           mine == [deliverers[w] EXCEPT !.step = "reserved", !.todo = deliverers[w].todo \ {row},
                        !.token = row.token, !.device = row.device, !.attempt = n]
           new == [status |-> "pending", attempt |-> n, leased |-> TRUE]
<1>1. /\ deliverers[w] \in Deliverer /\ deliverers[w].event \in AlertEvents
      /\ row.token \in PushTokens /\ row.device \in PushDevices
      /\ key \in AlertEvents \X PushDevices
  <2>1. deliverers[w] \in Deliverer
    BY DEF DeliveriesHold, DeliveriesTyped
  <2>2. row \in [token: PushTokens, device: PushDevices]
    BY <2>1 DEF Reserves, Deliverer
  <2> QED
    BY <2>1, <2>2 DEF Reserves, DeliveriesHold, DelivererFits
<1>2. /\ attempts \in Nat /\ attempts' = n /\ n \in 1..MaxAttempts
      /\ attempts < n /\ \A i \in 1..attempts : i \in 1..n /\ i < n
  BY OutboxConstants DEF DeliveriesHold, DeliveriesTyped, Reserves
<1>3. /\ mine \in Deliverer /\ mine.step = "reserved" /\ mine.event = deliverers[w].event
      /\ mine.device = row.device /\ mine.token = row.token /\ mine.attempt = n /\ ~mine.ok
  <2>1. deliverers[w].todo \ {row} \in SUBSET [token: PushTokens, device: PushDevices]
    BY <1>1 DEF Deliverer
  <2>2. n \in 0..MaxAttempts
    BY <1>2
  <2>3. ~deliverers[w].ok
    BY DEF Reserves, DeliveriesHold, OkIsAnswered
  <2> HIDE DEF n
  <2> QED
    BY <1>1, <2>1, <2>2, <2>3 DEF Deliverer
<1> HIDE DEF n, mine
<1>4. \A v \in Deliverers : \/ v # w /\ deliverers'[v] = deliverers[v]
                            \/ v = w /\ deliverers'[v] = mine
  <2>1. deliverers' = [deliverers EXCEPT ![w] = mine]
    BY DEF Reserves, mine, n
  <2> QED
    BY <2>1 DEF DeliveriesHold, DeliveriesTyped
<1>5. new \in DeliveryRow /\ new.status = "pending" /\ new.attempt = n
  BY <1>2 DEF DeliveryRow
<1> HIDE DEF new
<1>6. /\ deliveries'[key] = new
      /\ \A k \in AlertEvents \X PushDevices : k # key => deliveries'[k] = deliveries[k]
      /\ DOMAIN deliveries' = AlertEvents \X PushDevices
  BY <1>1 DEF Reserves, DeliveriesHold, DeliveriesTyped, new, n
<1>7. lapsed \subseteq lapsed' /\ lapsed' \subseteq AlertEvents \X PushDevices
  BY <1>1 DEF Reserves, DeliveriesHold, DeliveriesTyped
<1>8. deliveries[key].status = "pending" => key \in lapsed'
  BY DEF Reserves, Reclaimable
<1>9. deliveries[key].status \in {"none", "failed", "pending"}
  BY DEF Reserves, Reclaimable
<1>10. UNCHANGED <<pushes, confirmed>>
  BY DEF Reserves
<1>11. /\ \A k \in AlertEvents \X PushDevices : deliveries[k].attempt \in Nat
       /\ \A k \in AlertEvents \X PushDevices : deliveries[k].attempt < n
       /\ \A a \in confirmed : a \in Nat /\ a < n
  BY <1>2 DEF DeliveriesHold, DeliveriesTyped, DeliveryRow, NoAttemptAhead
<1>12. \A v \in Deliverers : v # w /\ UnderWay(v)' =>
          /\ UnderWay(v) /\ KeyOf(v)' = KeyOf(v) /\ KeyOf(v) \in AlertEvents \X PushDevices
          /\ deliverers'[v] = deliverers[v]
          /\ deliverers[v].attempt \in 1..attempts /\ deliverers[v].attempt < n
  BY <1>2, <1>4 DEF UnderWay, KeyOf, DeliveriesHold, DelivererFits
<1>13. \A p \in pushes : /\ <<p.event, p.device>> \in AlertEvents \X PushDevices
                         /\ p.attempt \in Nat /\ p.attempt < n
  <2>1. \A p \in pushes : /\ <<p.event, p.device>> \in AlertEvents \X PushDevices
                          /\ p.attempt \in Nat
    BY DEF DeliveriesHold, DeliveriesTyped
  <2> QED
    <3> SUFFICES ASSUME NEW p \in pushes PROVE p.attempt < n
      BY <2>1
    <3> DEFINE k == <<p.event, p.device>>
    <3>1. p.attempt <= deliveries[k].attempt
      BY DEF DeliveriesHold, PushesAreOfRows
    <3>2. deliveries[k].attempt \in Nat /\ deliveries[k].attempt < n
      BY <1>11, <2>1
    <3> QED
      BY <1>2, <2>1, <3>1, <3>2
<1>14. DeliveriesTyped'
  <2>1. deliveries' \in [AlertEvents \X PushDevices -> DeliveryRow]
    BY <1>5 DEF Reserves, DeliveriesHold, DeliveriesTyped, new, n
  <2>2. deliverers' \in [Deliverers -> Deliverer]
    BY <1>3 DEF Reserves, DeliveriesHold, DeliveriesTyped, mine, n
  <2>3. attempts' \in 0..MaxAttempts
    BY <1>2
  <2>4. \A v \in Deliverers : deliverers'[v].step = "next" => deliverers'[v].todo # {}
    BY <1>3, <1>4 DEF DeliveriesHold, DeliveriesTyped
  <2> QED
    BY <1>7, <1>10, <2>1, <2>2, <2>3, <2>4 DEF DeliveriesHold, DeliveriesTyped
<1>15. SentMeansConfirmed'
  BY <1>5, <1>6, <1>10 DEF DeliveriesHold, DeliveriesTyped, SentMeansConfirmed
<1>16. DelivererFits'
  <2> SUFFICES ASSUME NEW v \in Deliverers
               PROVE  /\ deliverers'[v].step # "none" => deliverers'[v].event \in AlertEvents
                      /\ UnderWay(v)' => /\ deliverers'[v].token \in PushTokens
                                         /\ deliverers'[v].device \in PushDevices
                                         /\ deliverers'[v].attempt \in 1..attempts'
    BY DEF DelivererFits
  <2>1. CASE v = w
    BY <1>1, <1>2, <1>3, <1>4, <2>1
  <2>2. CASE v # w
    BY <1>2, <1>4, <1>12, <2>2 DEF DeliveriesHold, DelivererFits
  <2> QED
    BY <2>1, <2>2
<1>17. AttemptsAreDistinct'
  <2>1. \A v \in Deliverers : v # w /\ UnderWay(v)' => deliverers'[v].attempt # n
    BY <1>2, <1>12
  <2> QED
    BY <1>3, <1>4, <1>12, <2>1 DEF DeliveriesHold, AttemptsAreDistinct
<1>18. NoAttemptAhead'
  <2>1. confirmed' \subseteq 1..attempts'
    BY <1>2, <1>10 DEF DeliveriesHold, NoAttemptAhead
  <2>2. \A k \in AlertEvents \X PushDevices : deliveries'[k].attempt <= attempts'
    BY <1>2, <1>5, <1>6, <1>11
  <2>3. \A k \in AlertEvents \X PushDevices : deliveries'[k].status = "none" => deliveries'[k].attempt = 0
    BY <1>5, <1>6 DEF DeliveriesHold, NoAttemptAhead
  <2> QED
    BY <2>1, <2>2, <2>3 DEF NoAttemptAhead
<1>19. HeldOrLapsed'
  <2> SUFFICES ASSUME NEW v \in Deliverers, UnderWay(v)'
               PROVE  /\ deliverers'[v].attempt <= RowOf(v)'.attempt
                      /\ deliverers'[v].attempt = RowOf(v)'.attempt => RowOf(v)'.status = "pending"
                      /\ deliverers'[v].attempt < RowOf(v)'.attempt => KeyOf(v)' \in lapsed'
    BY DEF HeldOrLapsed
  <2>1. CASE v = w
    <3>1. KeyOf(v)' = key /\ RowOf(v)' = new /\ deliverers'[v].attempt = n
      BY <1>3, <1>4, <1>6, <2>1 DEF RowOf, KeyOf
    <3> QED
      BY <1>2, <1>5, <3>1
  <2>2. CASE v # w /\ KeyOf(v) # key
    BY <1>6, <1>7, <1>12, <2>2 DEF DeliveriesHold, HeldOrLapsed, RowOf
  <2>3. CASE v # w /\ KeyOf(v) = key
    <3>1. RowOf(v)' = new /\ deliverers'[v].attempt < n
      BY <1>6, <1>12, <2>3 DEF RowOf
    <3>2. KeyOf(v) \in lapsed'
      <4>1. CASE deliverers[v].attempt = deliveries[key].attempt
        BY <1>8, <1>12, <2>3, <4>1 DEF DeliveriesHold, HeldOrLapsed, RowOf
      <4>2. CASE deliverers[v].attempt # deliveries[key].attempt
        BY <1>1, <1>7, <1>11, <1>12, <2>3, <4>2 DEF DeliveriesHold, HeldOrLapsed, RowOf
      <4> QED
        BY <4>1, <4>2
    <3> QED
      BY <1>2, <1>5, <1>12, <2>3, <3>1, <3>2
  <2> QED
    BY <2>1, <2>2, <2>3
<1>20. NotYetPushed'
  <2>1. n \notin confirmed /\ \A p \in pushes : p.attempt # n
    <3>1. n \in Nat /\ ~(n < n)
      BY <1>2, OutboxConstants
    <3> QED
      BY <1>11, <1>13, <3>1
  <2> QED
    BY <1>3, <1>4, <1>10, <2>1 DEF DeliveriesHold, NotYetPushed
<1>21. AnswerIsConfirmed' /\ OkIsAnswered'
  BY <1>3, <1>4, <1>10 DEF DeliveriesHold, AnswerIsConfirmed, OkIsAnswered
<1>22. PushesAreOfRows'
  <2> SUFFICES ASSUME NEW p \in pushes
               PROVE  LET k == <<p.event, p.device>>
                      IN  /\ p.attempt <= deliveries'[k].attempt
                          /\ p.attempt < deliveries'[k].attempt => k \in lapsed' \/ p.attempt \notin confirmed
                          /\ p.attempt = deliveries'[k].attempt /\ deliveries'[k].status = "failed" =>
                                p.attempt \notin confirmed
    BY <1>10 DEF PushesAreOfRows
  <2> DEFINE k == <<p.event, p.device>>
  <2>1. CASE k # key
    BY <1>6, <1>7, <1>13, <2>1 DEF DeliveriesHold, PushesAreOfRows
  <2>2. CASE k = key
    <3>1. deliveries'[k] = new /\ p.attempt < n /\ p.attempt \in Nat
      BY <1>6, <1>13, <2>2
    <3>2. k \in lapsed' \/ p.attempt \notin confirmed
      <4>1. CASE p.attempt < deliveries[k].attempt
        BY <1>7, <4>1 DEF DeliveriesHold, PushesAreOfRows
      <4>2. CASE p.attempt = deliveries[k].attempt /\ deliveries[k].status = "none"
        <5>1. p.attempt = 0
          BY <1>13, <4>2 DEF DeliveriesHold, NoAttemptAhead
        <5>2. p.attempt \in 1..MaxAttempts
          BY DEF DeliveriesHold, DeliveriesTyped
        <5> QED
          BY <5>1, <5>2
      <4>3. CASE p.attempt = deliveries[k].attempt /\ deliveries[k].status # "none"
        BY <1>8, <1>9, <2>2, <4>3 DEF DeliveriesHold, PushesAreOfRows
      <4> QED
        BY <1>11, <1>13, <4>1, <4>2, <4>3 DEF DeliveriesHold, PushesAreOfRows
    <3> QED
      BY <1>2, <1>5, <3>1, <3>2
  <2> QED
    BY <2>1, <2>2
<1> QED
  BY <1>14, <1>15, <1>16, <1>17, <1>18, <1>19, <1>20, <1>21, <1>22 DEF DeliveriesHold

\* The caller moves towards its send, or past the question whether it may send;
\* the rows are as they were (recheck_device).
LEMMA RecheckHolds ==
  ASSUME DeliveriesHold, NEW w \in Deliverers, recheck_device(w)
  PROVE  DeliveriesHold'
<1>1. /\ deliverers[w].step = "reserved"
      /\ UNCHANGED <<deliveries, attempts, pushes, confirmed, lapsed>>
  BY DEF recheck_device
<1>2. PICK step \in {"sending", "answered"} : deliverers' = [deliverers EXCEPT ![w].step = step]
  BY DEF recheck_device
<1>3. [deliverers[w] EXCEPT !.step = step] \in Deliverer
  BY DEF DeliveriesHold, DeliveriesTyped, Deliverer
<1>4. /\ \A v \in Deliverers : /\ deliverers'[v].event = deliverers[v].event
                               /\ deliverers'[v].token = deliverers[v].token
                               /\ deliverers'[v].device = deliverers[v].device
                               /\ deliverers'[v].attempt = deliverers[v].attempt
                               /\ deliverers'[v].ok = deliverers[v].ok
                               /\ v # w => deliverers'[v] = deliverers[v]
      /\ deliverers'[w].step = step
      /\ deliverers' \in [Deliverers -> Deliverer]
  BY <1>2, <1>3 DEF DeliveriesHold, DeliveriesTyped, Deliverer
<1>5. \A v \in Deliverers : UnderWay(v)' <=> UnderWay(v)
  BY <1>1, <1>4 DEF UnderWay
<1>6. DeliveriesTyped'
  BY <1>1, <1>4 DEF DeliveriesHold, DeliveriesTyped
<1>7. SentMeansConfirmed' /\ PushesAreOfRows' /\ NoAttemptAhead'
  BY <1>1 DEF DeliveriesHold, SentMeansConfirmed, PushesAreOfRows, NoAttemptAhead
<1>8. DelivererFits' /\ AttemptsAreDistinct'
  BY <1>1, <1>4, <1>5 DEF DeliveriesHold, DelivererFits, AttemptsAreDistinct
<1>9. HeldOrLapsed'
  BY <1>1, <1>4, <1>5 DEF DeliveriesHold, HeldOrLapsed, RowOf, KeyOf
<1>10. NotYetPushed'
  BY <1>1, <1>4 DEF DeliveriesHold, NotYetPushed
<1>11. ~deliverers[w].ok
  BY <1>1 DEF DeliveriesHold, OkIsAnswered
<1>12. AnswerIsConfirmed' /\ OkIsAnswered'
  BY <1>1, <1>4, <1>11 DEF DeliveriesHold, AnswerIsConfirmed, OkIsAnswered, NotYetPushed
<1> QED
  BY <1>6, <1>7, <1>8, <1>9, <1>10, <1>12 DEF DeliveriesHold

\* One attempt is pushed and confirmed once: what it leaves in the history is
\* its own, and its row is still pending or has lapsed (push_sender).
LEMMA PushHolds ==
  ASSUME DeliveriesHold, NEW w \in Deliverers, NEW arrives \in BOOLEAN, NEW ok \in BOOLEAN,
         push_sender(w, arrives, ok)
  PROVE  DeliveriesHold'
<1> DEFINE a == deliverers[w].attempt
           mine == [deliverers[w] EXCEPT !.step = "answered", !.ok = ok]
           push == [token |-> deliverers[w].token, event |-> deliverers[w].event,
                    device |-> deliverers[w].device, attempt |-> a]
<1>1. /\ deliverers[w].step = "sending" /\ UnderWay(w) /\ (ok => arrives)
      /\ deliverers' = [deliverers EXCEPT ![w] = mine]
      /\ pushes' = IF arrives THEN pushes \cup {push} ELSE pushes
      /\ confirmed' = IF ok THEN confirmed \cup {a} ELSE confirmed
      /\ UNCHANGED <<deliveries, attempts, lapsed>>
  BY DEF push_sender, UnderWay
<1>2. /\ deliverers[w] \in Deliverer /\ deliverers[w].event \in AlertEvents
      /\ deliverers[w].token \in PushTokens /\ deliverers[w].device \in PushDevices
      /\ a \in 1..attempts /\ attempts \in 0..MaxAttempts
  BY <1>1 DEF DeliveriesHold, DeliveriesTyped, DelivererFits
<1>3. a \in 1..MaxAttempts
  BY <1>2, OutboxConstants
<1>4. /\ mine \in Deliverer /\ mine.step = "answered" /\ mine.ok = ok /\ mine.attempt = a
      /\ mine.event = deliverers[w].event /\ mine.device = deliverers[w].device
      /\ mine.token = deliverers[w].token
  BY <1>2 DEF Deliverer
<1>5. /\ push \in [token: PushTokens, event: AlertEvents, device: PushDevices,
                   attempt: 1..MaxAttempts]
      /\ push.attempt = a /\ <<push.event, push.device>> = KeyOf(w)
  BY <1>2, <1>3 DEF KeyOf
<1>6. a \notin confirmed /\ \A p \in pushes : p.attempt # a
  BY <1>1 DEF DeliveriesHold, NotYetPushed
<1> HIDE DEF mine, push
<1>7. \A v \in Deliverers : \/ v # w /\ deliverers'[v] = deliverers[v]
                            \/ v = w /\ deliverers'[v] = mine
  BY <1>1 DEF DeliveriesHold, DeliveriesTyped
<1>8. \A v \in Deliverers : /\ UnderWay(v)' <=> UnderWay(v)
                            /\ KeyOf(v)' = KeyOf(v) /\ RowOf(v)' = RowOf(v)
                            /\ deliverers'[v].attempt = deliverers[v].attempt
  BY <1>1, <1>4, <1>7 DEF UnderWay, KeyOf, RowOf
<1>9. \A v \in Deliverers : v # w /\ UnderWay(v) => deliverers[v].attempt # a
  BY <1>1 DEF DeliveriesHold, AttemptsAreDistinct
<1>10. /\ KeyOf(w) \in AlertEvents \X PushDevices
       /\ a <= deliveries[KeyOf(w)].attempt
       /\ a = deliveries[KeyOf(w)].attempt => deliveries[KeyOf(w)].status = "pending"
       /\ a < deliveries[KeyOf(w)].attempt => KeyOf(w) \in lapsed
  BY <1>1, <1>2 DEF DeliveriesHold, HeldOrLapsed, RowOf, KeyOf
<1>11. DeliveriesTyped'
  <2>1. pushes' \subseteq [token: PushTokens, event: AlertEvents, device: PushDevices,
                           attempt: 1..MaxAttempts]
    BY <1>1, <1>5 DEF DeliveriesHold, DeliveriesTyped
  <2>2. confirmed' \subseteq 1..MaxAttempts
    BY <1>1, <1>3 DEF DeliveriesHold, DeliveriesTyped
  <2>3. deliverers' \in [Deliverers -> Deliverer]
    BY <1>1, <1>4 DEF DeliveriesHold, DeliveriesTyped
  <2>4. \A v \in Deliverers : deliverers'[v].step = "next" => deliverers'[v].todo # {}
    BY <1>4, <1>7 DEF DeliveriesHold, DeliveriesTyped
  <2> QED
    BY <1>1, <2>1, <2>2, <2>3, <2>4 DEF DeliveriesHold, DeliveriesTyped
<1>12. SentMeansConfirmed' /\ NoAttemptAhead'
  BY <1>1, <1>2 DEF DeliveriesHold, SentMeansConfirmed, NoAttemptAhead
<1>13. DelivererFits'
  BY <1>1, <1>2, <1>4, <1>7, <1>8 DEF DeliveriesHold, DelivererFits
<1>14. AttemptsAreDistinct'
  BY <1>8 DEF DeliveriesHold, AttemptsAreDistinct
<1>15. HeldOrLapsed'
  BY <1>1, <1>8 DEF DeliveriesHold, HeldOrLapsed
<1>16. NotYetPushed'
  <2> SUFFICES ASSUME NEW v \in Deliverers, deliverers'[v].step \in {"reserved", "sending"}
               PROVE  /\ deliverers'[v].attempt \notin confirmed'
                      /\ \A p \in pushes' : p.attempt # deliverers'[v].attempt
    BY DEF NotYetPushed
  <2>1. v # w /\ deliverers'[v] = deliverers[v] /\ deliverers[v].attempt # a
    BY <1>4, <1>7, <1>9 DEF UnderWay
  <2> QED
    BY <1>1, <1>5, <2>1 DEF DeliveriesHold, NotYetPushed
<1>17. AnswerIsConfirmed' /\ OkIsAnswered'
  <2> SUFFICES ASSUME NEW v \in Deliverers
               PROVE  /\ deliverers'[v].step = "answered" =>
                            (deliverers'[v].ok <=> deliverers'[v].attempt \in confirmed')
                      /\ deliverers'[v].ok => deliverers'[v].step = "answered"
    BY DEF AnswerIsConfirmed, OkIsAnswered
  <2>1. CASE v = w
    BY <1>1, <1>4, <1>6, <1>7, <2>1
  <2>2. CASE v # w
    <3>1. deliverers'[v] = deliverers[v]
      BY <1>7, <2>2
    <3>2. deliverers[v].step = "answered" => deliverers[v].attempt # a
      BY <1>9, <2>2 DEF UnderWay
    <3> QED
      BY <1>1, <3>1, <3>2 DEF DeliveriesHold, AnswerIsConfirmed, OkIsAnswered
  <2> QED
    BY <2>1, <2>2
<1>18. PushesAreOfRows'
  <2> SUFFICES ASSUME NEW p \in pushes'
               PROVE  LET k == <<p.event, p.device>>
                      IN  /\ p.attempt <= deliveries[k].attempt
                          /\ p.attempt < deliveries[k].attempt => k \in lapsed \/ p.attempt \notin confirmed'
                          /\ p.attempt = deliveries[k].attempt /\ deliveries[k].status = "failed" =>
                                p.attempt \notin confirmed'
    BY <1>1 DEF PushesAreOfRows
  <2>1. CASE p \in pushes
    <3>1. p.attempt \in confirmed' => p.attempt \in confirmed
      BY <1>1, <1>6, <2>1
    <3> QED
      BY <2>1, <3>1 DEF DeliveriesHold, PushesAreOfRows
  <2>2. CASE p = push
    BY <1>5, <1>10, <2>2
  <2> QED
    BY <1>1, <2>1, <2>2
<1> QED
  BY <1>11, <1>12, <1>13, <1>14, <1>15, <1>16, <1>17, <1>18 DEF DeliveriesHold

\* What the ledger says changes for the one key, and only if the attempt that
\* reports has it (finish_mobile_notification_delivery).
LEMMA FinishHolds ==
  ASSUME DeliveriesHold, NEW w \in Deliverers, finish_mobile_notification_delivery(w)
  PROVE  DeliveriesHold'
<1> DEFINE a == deliverers[w].attempt
           key == KeyOf(w)
           verdict == IF deliverers[w].ok THEN "sent" ELSE "failed"
<1>1. /\ deliverers[w].step = "answered" /\ UnderWay(w)
      /\ deliverers' = [deliverers EXCEPT ![w] = Onward(w)]
      /\ deliveries' = IF Holds(deliveries[key], a)
                       THEN [deliveries EXCEPT ![key].status = verdict] ELSE deliveries
      /\ UNCHANGED <<attempts, pushes, confirmed, lapsed>>
  BY DEF finish_mobile_notification_delivery, UnderWay, KeyOf
<1>2. /\ deliverers[w] \in Deliverer /\ deliverers[w].event \in AlertEvents
      /\ key \in AlertEvents \X PushDevices
  BY <1>1 DEF DeliveriesHold, DeliveriesTyped, DelivererFits, KeyOf
<1>3. /\ Onward(w) \in Deliverer /\ Onward(w).step \in {"none", "next"} /\ ~Onward(w).ok
      /\ Onward(w).step = "next" => Onward(w).event \in AlertEvents /\ Onward(w).todo # {}
  BY <1>2, OutboxConstants DEF Onward, IdleDeliverer, Deliverer
<1>4. CASE ~Holds(deliveries[key], a)
  BY <1>1, <1>3, <1>4, LettingGoHolds
<1>5. CASE Holds(deliveries[key], a)
  <2>1. /\ deliveries[key].status = "pending" /\ deliveries[key].attempt = a
        /\ deliveries' = [deliveries EXCEPT ![key].status = verdict]
    BY <1>1, <1>5 DEF Holds
  <2>2. [deliveries[key] EXCEPT !.status = verdict] \in DeliveryRow
    BY <1>2 DEF DeliveriesHold, DeliveriesTyped, DeliveryRow
  <2>3. /\ deliveries' \in [AlertEvents \X PushDevices -> DeliveryRow]
        /\ deliveries'[key].status = verdict
        /\ \A k \in AlertEvents \X PushDevices :
              /\ deliveries'[k].attempt = deliveries[k].attempt
              /\ k # key => deliveries'[k] = deliveries[k]
    BY <1>2, <2>1, <2>2 DEF DeliveriesHold, DeliveriesTyped, DeliveryRow
  <2>4. \A v \in Deliverers : \/ v # w /\ deliverers'[v] = deliverers[v]
                              \/ v = w /\ deliverers'[v] = Onward(w)
    BY <1>1 DEF DeliveriesHold, DeliveriesTyped
  <2>5. \A v \in Deliverers : UnderWay(v)' =>
            /\ v # w /\ deliverers'[v] = deliverers[v] /\ UnderWay(v)
            /\ KeyOf(v)' = KeyOf(v) /\ KeyOf(v) \in AlertEvents \X PushDevices
            /\ deliverers[v].attempt # a
    BY <1>1, <1>3, <2>4 DEF UnderWay, KeyOf, DeliveriesHold, DelivererFits, AttemptsAreDistinct
  <2>6. deliverers[w].ok <=> a \in confirmed
    BY <1>1 DEF DeliveriesHold, AnswerIsConfirmed
  <2>7. DeliveriesTyped'
    <3>1. deliverers' \in [Deliverers -> Deliverer]
      BY <1>1, <1>3 DEF DeliveriesHold, DeliveriesTyped
    <3> QED
      BY <1>1, <1>3, <2>3, <2>4, <3>1 DEF DeliveriesHold, DeliveriesTyped
  <2>8. SentMeansConfirmed'
    <3> SUFFICES ASSUME NEW k \in AlertEvents \X PushDevices, deliveries'[k].status = "sent"
                 PROVE  deliveries'[k].attempt \in confirmed
      BY <1>1, <2>3 DEF SentMeansConfirmed
    <3>1. CASE k = key
      BY <2>1, <2>3, <2>6, <3>1
    <3>2. CASE k # key
      BY <2>3, <3>2 DEF DeliveriesHold, DeliveriesTyped, SentMeansConfirmed
    <3> QED
      BY <3>1, <3>2
  <2>9. DelivererFits'
    BY <1>1, <1>3, <2>4, <2>5 DEF DeliveriesHold, DelivererFits
  <2>10. AttemptsAreDistinct'
    BY <2>5 DEF DeliveriesHold, AttemptsAreDistinct
  <2>11. NoAttemptAhead'
    BY <1>1, <2>1, <2>3 DEF DeliveriesHold, NoAttemptAhead
  <2>12. HeldOrLapsed'
    <3> SUFFICES ASSUME NEW v \in Deliverers, UnderWay(v)'
                 PROVE  /\ deliverers'[v].attempt <= RowOf(v)'.attempt
                        /\ deliverers'[v].attempt = RowOf(v)'.attempt => RowOf(v)'.status = "pending"
                        /\ deliverers'[v].attempt < RowOf(v)'.attempt => KeyOf(v)' \in lapsed'
      BY DEF HeldOrLapsed
    <3>1. CASE KeyOf(v) = key
      BY <1>1, <2>1, <2>3, <2>5, <3>1 DEF DeliveriesHold, HeldOrLapsed, RowOf
    <3>2. CASE KeyOf(v) # key
      BY <1>1, <2>3, <2>5, <3>2 DEF DeliveriesHold, HeldOrLapsed, RowOf
    <3> QED
      BY <3>1, <3>2
  <2>13. NotYetPushed' /\ AnswerIsConfirmed' /\ OkIsAnswered'
    BY <1>1, <1>3, <2>4
       DEF DeliveriesHold, NotYetPushed, AnswerIsConfirmed, OkIsAnswered
  <2>14. PushesAreOfRows'
    <3>1. \A p \in pushes : <<p.event, p.device>> \in AlertEvents \X PushDevices
      BY DEF DeliveriesHold, DeliveriesTyped
    <3> SUFFICES ASSUME NEW p \in pushes
                 PROVE  LET k == <<p.event, p.device>>
                        IN  /\ p.attempt <= deliveries'[k].attempt
                            /\ p.attempt < deliveries'[k].attempt => k \in lapsed \/ p.attempt \notin confirmed
                            /\ p.attempt = deliveries'[k].attempt /\ deliveries'[k].status = "failed" =>
                                  p.attempt \notin confirmed
      BY <1>1 DEF PushesAreOfRows
    <3>2. CASE <<p.event, p.device>> = key
      BY <2>1, <2>3, <2>6, <3>1, <3>2 DEF DeliveriesHold, PushesAreOfRows
    <3>3. CASE <<p.event, p.device>> # key
      BY <2>3, <3>1, <3>3 DEF DeliveriesHold, PushesAreOfRows
    <3> QED
      BY <3>2, <3>3
  <2> QED
    BY <2>7, <2>8, <2>9, <2>10, <2>11, <2>12, <2>13, <2>14 DEF DeliveriesHold
<1> QED
  BY <1>4, <1>5

\* A lease that ends changes neither status nor attempt of its row.
LEMMA LeaseHolds ==
  ASSUME DeliveriesHold, NEW k \in AlertEvents \X PushDevices, LeaseExpires(k)
  PROVE  DeliveriesHold'
<1>1. /\ deliveries' = [deliveries EXCEPT ![k].leased = FALSE]
      /\ UNCHANGED <<deliverers, attempts, pushes, confirmed, lapsed>>
  BY DEF LeaseExpires
<1>2. [deliveries[k] EXCEPT !.leased = FALSE] \in DeliveryRow
  BY DEF DeliveriesHold, DeliveriesTyped, DeliveryRow
<1>3. /\ deliveries' \in [AlertEvents \X PushDevices -> DeliveryRow]
      /\ \A j \in AlertEvents \X PushDevices :
            /\ deliveries'[j].attempt = deliveries[j].attempt
            /\ deliveries'[j].status = deliveries[j].status
  BY <1>1, <1>2 DEF DeliveriesHold, DeliveriesTyped, DeliveryRow
<1>4. \A w \in Deliverers : /\ UnderWay(w)' <=> UnderWay(w)
                            /\ KeyOf(w)' = KeyOf(w)
                            /\ UnderWay(w) => KeyOf(w) \in AlertEvents \X PushDevices
  BY <1>1 DEF UnderWay, KeyOf, DeliveriesHold, DelivererFits
<1>5. DeliveriesTyped'
  BY <1>1, <1>3 DEF DeliveriesHold, DeliveriesTyped
<1>6. SentMeansConfirmed'
  BY <1>1, <1>3 DEF DeliveriesHold, DeliveriesTyped, SentMeansConfirmed
<1>7. DelivererFits' /\ AttemptsAreDistinct' /\ NotYetPushed' /\ AnswerIsConfirmed' /\ OkIsAnswered'
  BY <1>1, <1>4
     DEF DeliveriesHold, DelivererFits, AttemptsAreDistinct, NotYetPushed, AnswerIsConfirmed,
         OkIsAnswered
<1>8. NoAttemptAhead'
  BY <1>1, <1>3 DEF DeliveriesHold, NoAttemptAhead
<1>9. HeldOrLapsed'
  BY <1>1, <1>3, <1>4 DEF DeliveriesHold, HeldOrLapsed, RowOf
<1>10. PushesAreOfRows'
  <2>1. \A p \in pushes : <<p.event, p.device>> \in AlertEvents \X PushDevices
    BY DEF DeliveriesHold, DeliveriesTyped
  <2> QED
    BY <1>1, <1>3, <2>1 DEF DeliveriesHold, PushesAreOfRows
<1> QED
  BY <1>5, <1>6, <1>7, <1>8, <1>9, <1>10 DEF DeliveriesHold

-----------------------------------------------------------------------------
(* The theorems *)

\* The tables start empty.
LEMMA OutboxInitially == OutboxInit => OutboxInv
<1> SUFFICES ASSUME OutboxInit PROVE OutboxInv
  OBVIOUS
<1>1. RegistrationsHold
  BY DEF OutboxInit, RegistrationsHold, RegistrationRow, OneTokenPerDevice, ActiveHasDevice
<1>2. DeliveriesTyped
  BY IdleDelivererTyped, OutboxConstants
     DEF OutboxInit, DeliveriesTyped, DeliveryRow, IdleDeliverer
<1>3. SentMeansConfirmed /\ NoAttemptAhead /\ PushesAreOfRows
  BY OutboxConstants DEF OutboxInit, SentMeansConfirmed, NoAttemptAhead, PushesAreOfRows
<1>4. /\ DelivererFits /\ AttemptsAreDistinct /\ HeldOrLapsed
      /\ NotYetPushed /\ AnswerIsConfirmed /\ OkIsAnswered
  BY DEF OutboxInit, DelivererFits, AttemptsAreDistinct, HeldOrLapsed, NotYetPushed,
     AnswerIsConfirmed, OkIsAnswered, UnderWay, IdleDeliverer
<1> QED
  BY <1>1, <1>2, <1>3, <1>4 DEF OutboxInv, DeliveriesHold

\* Devices and their tokens (register_push_token, unregister_push_token,
\* revoke_mobile_device_and_push_registrations).
LEMMA DevicesKeepOutbox ==
  ASSUME OutboxInv, NEW d \in PushDevices,
         \/ \E t \in PushTokens : register_push_token(d, t)
         \/ unregister_push_token(d) \/ revoke_alert_device(d)
  PROVE  OutboxInv'
<1>1. UNCHANGED deliveryVars
  BY DEF register_push_token, unregister_push_token, revoke_alert_device, deliveryVars
<1>2. CASE \E t \in PushTokens : register_push_token(d, t)
  BY <1>1, <1>2, NewTokenHolds, DeliveriesLeftAlone DEF OutboxInv, register_push_token
<1>3. CASE unregister_push_token(d) \/ revoke_alert_device(d)
  <2>1. alert_devices' \in [PushDevices -> {"active", "revoked"}]
    BY <1>3 DEF OutboxInv, RegistrationsHold, unregister_push_token, revoke_alert_device
  <2>2. registrations' = RevokedRows(d, "none")
    BY <1>3 DEF unregister_push_token, revoke_alert_device
  <2> QED
    BY <1>1, <2>1, <2>2, RevokedRowsHold, DeliveriesLeftAlone DEF OutboxInv
<1> QED
  BY <1>2, <1>3

\* A caller that starts or is gone.
LEMMA CallersKeepOutbox ==
  ASSUME OutboxInv, NEW w \in Deliverers,
         DelivererDies(w) \/ \E e \in AlertEvents : deliver_push_event(w, e)
  PROVE  OutboxInv'
<1>1. UNCHANGED <<alert_devices, registrations, deliveries, attempts, pushes, confirmed, lapsed>>
  BY DEF DelivererDies, deliver_push_event
<1>2. RegistrationsHold'
  BY <1>1 DEF OutboxInv, RegistrationsHold, OneTokenPerDevice, ActiveHasDevice
<1>3. CASE DelivererDies(w)
  BY <1>1, <1>2, <1>3, LettingGoHolds, IdleDelivererTyped
     DEF OutboxInv, DelivererDies, IdleDeliverer
<1>4. ASSUME NEW e \in AlertEvents, deliver_push_event(w, e) PROVE OutboxInv'
  <2> DEFINE row == [IdleDeliverer EXCEPT !.event = e, !.todo = ActiveRows, !.step = "next"]
  <2>1. ActiveRows # {} /\ deliverers' = [deliverers EXCEPT ![w] = row]
    BY <1>4 DEF deliver_push_event
  <2>2. /\ row \in Deliverer /\ row.step = "next" /\ ~row.ok /\ row.event = e
        /\ row.todo = ActiveRows
    BY ActiveRowsTyped, OutboxConstants DEF OutboxInv, IdleDeliverer, Deliverer
  <2> HIDE DEF row
  <2> QED
    BY <1>1, <1>2, <2>1, <2>2, LettingGoHolds DEF OutboxInv
<1> QED
  BY <1>3, <1>4

\* The three ends of a reservation: the device is gone, the row is not to be
\* had, or it is reserved.
LEMMA ReserveKeepsOutbox ==
  ASSUME OutboxInv, NEW w \in Deliverers, NEW row \in deliverers[w].todo,
         reserve_mobile_notification_delivery(w, row)
  PROVE  OutboxInv'
<1> DEFINE rest == deliverers[w].todo \ {row}
           next == IF rest = {} THEN IdleDeliverer ELSE [deliverers[w] EXCEPT !.todo = rest]
<1>1. deliverers[w].step = "next" /\ UNCHANGED <<alert_devices, pushes, confirmed>>
  BY DEF reserve_mobile_notification_delivery
<1>2. /\ next \in Deliverer /\ next.step \in {"none", "next"} /\ ~next.ok
      /\ next.step = "next" => next.event \in AlertEvents /\ next.todo # {}
  <2>1. /\ deliverers[w] \in Deliverer /\ deliverers[w].event \in AlertEvents
        /\ ~deliverers[w].ok
    BY <1>1 DEF OutboxInv, DeliveriesHold, DeliveriesTyped, DelivererFits, OkIsAnswered
  <2>2. CASE rest = {}
    BY <2>2, IdleDelivererTyped DEF IdleDeliverer
  <2>3. CASE rest # {}
    BY <1>1, <2>1, <2>3 DEF Deliverer
  <2> QED
    BY <2>2, <2>3
<1> HIDE DEF next
<1>3. \/ /\ registrations' = RevokedRows(row.device, "none") \/ UNCHANGED registrations
         /\ deliverers' = [deliverers EXCEPT ![w] = next]
         /\ UNCHANGED <<deliveries, attempts, lapsed>>
      \/ Reserves(w, row) /\ UNCHANGED registrations
  BY <1>1 DEF reserve_mobile_notification_delivery, Reserves, next
<1>4. RegistrationsHold'
  <2>1. CASE registrations' = RevokedRows(row.device, "none")
    BY <1>1, <2>1, RevokedRowsHold DEF OutboxInv, RegistrationsHold
  <2>2. CASE UNCHANGED registrations
    BY <1>1, <2>2 DEF OutboxInv, RegistrationsHold, OneTokenPerDevice, ActiveHasDevice
  <2> QED
    BY <1>3, <2>1, <2>2
<1>5. DeliveriesHold'
  BY <1>1, <1>2, <1>3, LettingGoHolds, ReservationHolds DEF OutboxInv
<1> QED
  BY <1>4, <1>5 DEF OutboxInv

\* The invariant is inductive.
LEMMA OutboxStep == OutboxInv /\ [OutboxNext]_outboxVars => OutboxInv'
<1> SUFFICES ASSUME OutboxInv, [OutboxNext]_outboxVars PROVE OutboxInv'
  OBVIOUS
<1>1. ASSUME UNCHANGED <<alert_devices, registrations>> PROVE RegistrationsHold'
  BY <1>1 DEF OutboxInv, RegistrationsHold, OneTokenPerDevice, ActiveHasDevice
<1>2. CASE UNCHANGED outboxVars
  BY <1>1, <1>2, DeliveriesLeftAlone DEF OutboxInv, outboxVars, deliveryVars
<1>3. ASSUME NEW w \in Deliverers, recheck_device(w) PROVE OutboxInv'
  <2>1. UNCHANGED alert_devices /\ \/ UNCHANGED registrations
                                   \/ registrations' = RevokedRows(deliverers[w].device, "none")
    BY <1>3 DEF recheck_device
  <2>2. RegistrationsHold'
    BY <1>1, <2>1, RevokedRowsHold DEF OutboxInv, RegistrationsHold
  <2> QED
    BY <1>3, <2>2, RecheckHolds DEF OutboxInv
<1>4. ASSUME NEW w \in Deliverers, NEW arrives \in BOOLEAN, NEW ok \in BOOLEAN,
             push_sender(w, arrives, ok)
      PROVE  OutboxInv'
  BY <1>1, <1>4, PushHolds DEF OutboxInv, push_sender
<1>5. ASSUME NEW w \in Deliverers, finish_mobile_notification_delivery(w) PROVE OutboxInv'
  BY <1>1, <1>5, FinishHolds DEF OutboxInv, finish_mobile_notification_delivery
<1>6. ASSUME NEW k \in AlertEvents \X PushDevices, LeaseExpires(k) PROVE OutboxInv'
  BY <1>1, <1>6, LeaseHolds DEF OutboxInv, LeaseExpires
<1>7. CASE OutboxNext
  BY <1>3, <1>4, <1>5, <1>6, <1>7, DevicesKeepOutbox, CallersKeepOutbox, ReserveKeepsOutbox
     DEF OutboxNext, DelivererStep
<1> QED
  BY <1>2, <1>7

\* Two pushes of an event to a device: the first is not of the attempt that has
\* the row, so that its lease ran out or it failed.
LEMMA PushesAreExplained == OutboxInv => NoSecondPush
<1> SUFFICES ASSUME OutboxInv, NEW p \in pushes, NEW q \in pushes,
                    p.event = q.event, p.device = q.device, p.attempt < q.attempt
             PROVE  <<p.event, p.device>> \in lapsed \/ p.attempt \notin confirmed
  BY DEF NoSecondPush
<1> DEFINE k == <<p.event, p.device>>
<1>1. q.attempt <= deliveries[k].attempt
  BY DEF OutboxInv, DeliveriesHold, PushesAreOfRows
<1>2. p.attempt \in Nat /\ q.attempt \in Nat /\ deliveries[k].attempt \in Nat
  BY OutboxConstants DEF OutboxInv, DeliveriesHold, DeliveriesTyped, DeliveryRow
<1>3. p.attempt < deliveries[k].attempt
  BY <1>1, <1>2
<1> QED
  BY <1>3 DEF OutboxInv, DeliveriesHold, PushesAreOfRows

\* A send begins in recheck_device, which has just looked the device up.
LEMMA SendsToActive ==
  ASSUME OutboxInv, [OutboxNext]_outboxVars, NEW w \in Deliverers,
         deliverers'[w].step = "sending", deliverers[w].step # "sending"
  PROVE  alert_devices[deliverers'[w].device] = "active"
<1>1. deliverers \in [Deliverers -> Deliverer] /\ ~UNCHANGED deliverers
  BY DEF OutboxInv, DeliveriesHold, DeliveriesTyped
<1>2. PICK v \in Deliverers :
         \/ \E row \in deliverers[v].todo : reserve_mobile_notification_delivery(v, row)
         \/ recheck_device(v) \/ \E arrives, ok \in BOOLEAN : push_sender(v, arrives, ok)
         \/ finish_mobile_notification_delivery(v) \/ DelivererDies(v)
         \/ \E e \in AlertEvents : deliver_push_event(v, e)
  BY <1>1 DEF OutboxNext, DelivererStep, outboxVars, register_push_token, unregister_push_token,
     revoke_alert_device, LeaseExpires
<1>3. CASE recheck_device(v)
  BY <1>1, <1>3 DEF recheck_device, Deliverer
<1>4. ASSUME NEW row, deliverers' = [deliverers EXCEPT ![v] = row], row.step # "sending"
      PROVE  FALSE
  BY <1>1, <1>4
<1>5. CASE DelivererDies(v) \/ finish_mobile_notification_delivery(v)
           \/ \E e \in AlertEvents : deliver_push_event(v, e)
  BY <1>4, <1>5 DEF DelivererDies, finish_mobile_notification_delivery, Onward, IdleDeliverer,
     deliver_push_event
<1>6. CASE \E arrives, ok \in BOOLEAN : push_sender(v, arrives, ok)
  BY <1>1, <1>4, <1>6 DEF push_sender, Deliverer
<1>7. ASSUME NEW row \in deliverers[v].todo, reserve_mobile_notification_delivery(v, row)
      PROVE  FALSE
  <2> DEFINE rest == deliverers[v].todo \ {row}
             after == [deliverers[v] EXCEPT !.todo = rest]
             reserved == [deliverers[v] EXCEPT !.step = "reserved", !.todo = rest, !.token = row.token,
                                               !.device = row.device, !.attempt = attempts + 1]
  <2>1. deliverers[v] \in Deliverer /\ deliverers[v].step = "next"
    BY <1>1, <1>7 DEF reserve_mobile_notification_delivery
  <2>2. IdleDeliverer.step # "sending" /\ after.step # "sending" /\ reserved.step # "sending"
    BY <2>1 DEF Deliverer, IdleDeliverer
  <2> HIDE DEF rest
  <2>3. \/ deliverers' = [deliverers EXCEPT ![v] = IF rest = {} THEN IdleDeliverer ELSE after]
        \/ deliverers' = [deliverers EXCEPT ![v] = reserved]
    BY <1>1, <1>7 DEF reserve_mobile_notification_delivery, rest
  <2> HIDE DEF after, reserved
  <2> QED
    BY <1>4, <2>2, <2>3
<1> QED
  BY <1>2, <1>3, <1>5, <1>6, <1>7

-----------------------------------------------------------------------------
(***************************************************************************)
(* The outbox implements LeasedWork: an attempt that was taken over finds  *)
(* the number of another in its row, and its answer changes nothing.       *)
(***************************************************************************)

\* The empty sequence, which stands for no delivery, is none.
LEMMA NoKeyIsNone == <<>> \notin AlertEvents \X PushDevices
<1> SUFFICES ASSUME NEW e \in AlertEvents, NEW d \in PushDevices, <<>> = <<e, d>> PROVE FALSE
  OBVIOUS
<1>1. Len(<<>>) = 0 /\ Len(<<e, d>>) = 2
  OBVIOUS
<1> QED
  BY <1>1

\* A caller past its reservation is under way for a delivery.
LEMMA HeldIsKey ==
  ASSUME OutboxInv, NEW w \in Deliverers, UnderWay(w)
  PROVE  /\ KeyOf(w) \in AlertEvents \X PushDevices
         /\ deliverers[w].attempt \in Nat /\ attempts \in Nat
         /\ deliverers[w].attempt # attempts + 1
<1>1. /\ KeyOf(w) \in AlertEvents \X PushDevices
      /\ deliverers[w].attempt \in 1..attempts
  BY DEF OutboxInv, DeliveriesHold, DelivererFits, KeyOf, UnderWay
<1>2. attempts \in Nat
  BY OutboxConstants DEF OutboxInv, DeliveriesHold, DeliveriesTyped
<1> QED
  BY <1>1, <1>2

\* What a caller holds, in the words of the proofs above.
LEMMA HeldIs ==
  ASSUME NEW w
  PROVE  DeliveryHeld(w) = IF UnderWay(w) /\ Holds(RowOf(w), deliverers[w].attempt)
                           THEN KeyOf(w) ELSE <<>>
BY DEF DeliveryHeld, UnderWay, RowOf, KeyOf

\* ... and after a step.
LEMMA HeldIsThen ==
  ASSUME NEW w
  PROVE  DeliveryHeld(w)' = IF UnderWay(w)' /\ Holds(RowOf(w), deliverers[w].attempt)'
                            THEN KeyOf(w)' ELSE <<>>
BY DEF DeliveryHeld, UnderWay, RowOf, KeyOf

\* A row is given to a new attempt, or is not pending any more: whoever held it
\* holds it no more.
LEMMA DeliveryLetGo ==
  ASSUME OutboxInv, NEW key \in AlertEvents \X PushDevices, NEW v \in Deliverers,
         deliverers'[v] = deliverers[v],
         \A k \in AlertEvents \X PushDevices : k # key => deliveries'[k] = deliveries[k],
         deliveries'[key].status # "pending" \/ deliveries'[key].attempt = attempts + 1
  PROVE  DeliveryHeld(v)' = IF DeliveryHeld(v) = key THEN <<>> ELSE DeliveryHeld(v)
<1>1. KeyOf(v)' = KeyOf(v) /\ (UnderWay(v)' <=> UnderWay(v))
  BY DEF KeyOf, UnderWay
<1>2. CASE ~UnderWay(v)
  BY <1>1, <1>2, HeldIs, HeldIsThen
<1>3. CASE UnderWay(v) /\ KeyOf(v) # key
  <2>1. RowOf(v)' = RowOf(v)
    BY <1>1, <1>3, HeldIsKey DEF RowOf
  <2> QED
    BY <1>1, <1>3, <2>1, HeldIs, HeldIsThen DEF Holds
<1>4. CASE UnderWay(v) /\ KeyOf(v) = key
  <2>1. RowOf(v)' = deliveries'[key] /\ deliverers[v].attempt # attempts + 1
    BY <1>1, <1>4, HeldIsKey DEF RowOf
  <2>2. ~Holds(RowOf(v), deliverers[v].attempt)'
    BY <2>1 DEF Holds
  <2> QED
    BY <1>1, <1>4, <2>2, HeldIs, HeldIsThen
<1> QED
  BY <1>2, <1>3, <1>4

\* Rows that keep status and attempt are held as they were, by callers that keep
\* theirs.
LEMMA DeliveryHeldAlike ==
  ASSUME OutboxInv, NEW v \in Deliverers, UnderWay(v)' <=> UnderWay(v),
         deliverers'[v].event = deliverers[v].event, deliverers'[v].device = deliverers[v].device,
         deliverers'[v].attempt = deliverers[v].attempt,
         \A k \in AlertEvents \X PushDevices : /\ deliveries'[k].status = deliveries[k].status
                                               /\ deliveries'[k].attempt = deliveries[k].attempt
  PROVE  DeliveryHeld(v)' = DeliveryHeld(v)
<1>1. KeyOf(v)' = KeyOf(v)
  BY DEF KeyOf
<1>2. CASE ~UnderWay(v)
  BY <1>2, HeldIs, HeldIsThen
<1>3. CASE UnderWay(v)
  <2>1. /\ RowOf(v)'.status = RowOf(v).status /\ RowOf(v)'.attempt = RowOf(v).attempt
    BY <1>1, <1>3, HeldIsKey DEF RowOf
  <2> QED
    BY <1>1, <1>3, <2>1, HeldIs, HeldIsThen DEF Holds
<1> QED
  BY <1>2, <1>3

\* A caller that is not under way afterwards leaves the rows as they are.
LEMMA LettingGoRefines ==
  ASSUME OutboxInv, NEW w \in Deliverers, NEW row, deliverers' = [deliverers EXCEPT ![w] = row],
         row.step \in {"none", "next"}, UNCHANGED deliveries
  PROVE  Delivering!Quit(w)
<1>1. deliverers \in [Deliverers -> Deliverer]
  BY DEF OutboxInv, DeliveriesHold, DeliveriesTyped
<1>2. /\ deliverers'[w] = row
      /\ \A v \in Deliverers \ {w} : deliverers'[v] = deliverers[v]
  BY <1>1
<1>3. \A v \in Deliverers \ {w} : DeliveryHeld(v)' = DeliveryHeld(v)
  <2> SUFFICES ASSUME NEW v \in Deliverers \ {w} PROVE DeliveryHeld(v)' = DeliveryHeld(v)
    OBVIOUS
  <2>1. UnderWay(v)' <=> UnderWay(v)
    BY <1>2 DEF UnderWay
  <2> QED
    BY <1>2, <2>1, DeliveryHeldAlike
<1>4. DeliveryHeld(w)' = <<>>
  BY <1>2 DEF DeliveryHeld
<1>5. \A k \in AlertEvents \X PushDevices : /\ DeliveryWork(k)' = DeliveryWork(k)
                                            /\ DeliveryLeased(k)' = DeliveryLeased(k)
  BY DEF DeliveryWork, DeliveryLeased
<1> QED
  BY <1>3, <1>4, <1>5 DEF Delivering!Quit

\* A reservation takes the delivery (reserve_mobile_notification_delivery).
LEMMA ReservesRefines ==
  ASSUME OutboxInv, NEW w \in Deliverers, NEW row, Reserves(w, row)
  PROVE  \E k \in AlertEvents \X PushDevices : Delivering!Take(w, k)
<1>1. PICK mine : mine = [deliverers[w] EXCEPT
         !.step = "reserved", !.todo = deliverers[w].todo \ {row},
         !.token = row.token, !.device = row.device, !.attempt = attempts + 1]
  OBVIOUS
<1>2. PICK new : new = [status |-> "pending", attempt |-> attempts + 1, leased |-> TRUE]
  OBVIOUS
<1>3. /\ deliverers[w] \in Deliverer /\ deliverers \in [Deliverers -> Deliverer]
      /\ deliveries \in [AlertEvents \X PushDevices -> DeliveryRow]
      /\ deliverers[w].step = "next"
  BY DEF OutboxInv, DeliveriesHold, DeliveriesTyped, Reserves
<1>4. PICK key \in AlertEvents \X PushDevices : key = <<deliverers[w].event, row.device>>
  <2>1. row \in [token: PushTokens, device: PushDevices]
    BY <1>3 DEF Reserves, Deliverer
  <2>2. deliverers[w].event \in AlertEvents
    BY <1>3 DEF OutboxInv, DeliveriesHold, DelivererFits
  <2> QED
    BY <2>1, <2>2
<1>5. /\ deliveries' = [deliveries EXCEPT ![key] = new]
      /\ deliverers' = [deliverers EXCEPT ![w] = mine]
      /\ Reclaimable(deliveries[key])
  BY <1>1, <1>2, <1>4 DEF Reserves
<1>6. /\ mine.step = "reserved" /\ mine.event = deliverers[w].event
      /\ mine.device = row.device /\ mine.attempt = attempts + 1
  BY <1>1, <1>3 DEF Deliverer
<1>7. /\ deliveries'[key] = new /\ deliverers'[w] = mine
      /\ \A k \in AlertEvents \X PushDevices : k # key => deliveries'[k] = deliveries[k]
      /\ \A v \in Deliverers \ {w} : deliverers'[v] = deliverers[v]
  BY <1>3, <1>5
<1>8. DeliveryHeld(w) = <<>>
  BY <1>3 DEF DeliveryHeld
<1>9. DeliveryHeld(w)' = key
  <2>1. KeyOf(w)' = key /\ UnderWay(w)'
    BY <1>4, <1>6, <1>7 DEF KeyOf, UnderWay
  <2>2. RowOf(w)' = new /\ deliverers'[w].attempt = attempts + 1
    BY <1>6, <1>7, <2>1 DEF RowOf
  <2> QED
    BY <1>2, <2>1, <2>2, HeldIsThen DEF Holds
<1>10. \A v \in Deliverers \ {w} :
          DeliveryHeld(v)' = IF DeliveryHeld(v) = key THEN <<>> ELSE DeliveryHeld(v)
  BY <1>2, <1>7, DeliveryLetGo
<1>11. /\ DeliveryWork(key) = "open" /\ DeliveryLeased(key) = FALSE
       /\ DeliveryLeased(key)' = TRUE
       /\ \A k \in AlertEvents \X PushDevices : DeliveryWork(k)' = DeliveryWork(k)
       /\ \A k \in AlertEvents \X PushDevices : k # key => DeliveryLeased(k)' = DeliveryLeased(k)
  BY <1>2, <1>5, <1>7 DEF DeliveryWork, DeliveryLeased, Reclaimable
<1>12. Delivering!Take(w, key)
  BY <1>8, <1>9, <1>10, <1>11 DEF Delivering!Take, Delivering!Released
<1> QED
  BY <1>12

\* Towards the send and to its answer the caller holds what it held
\* (recheck_device, _push_sender).
LEMMA SendingRefines ==
  ASSUME OutboxInv, NEW w \in Deliverers,
         recheck_device(w) \/ \E arrives, ok \in BOOLEAN : push_sender(w, arrives, ok)
  PROVE  UNCHANGED Delivering!vars
<1>1. deliverers \in [Deliverers -> Deliverer] /\ UNCHANGED deliveries
  BY DEF OutboxInv, DeliveriesHold, DeliveriesTyped, recheck_device, push_sender
<1>2. PICK step \in {"sending", "answered"} : \E ok \in BOOLEAN :
         /\ deliverers' = [deliverers EXCEPT ![w] = [@ EXCEPT !.step = step, !.ok = ok]]
         /\ UnderWay(w)
  <2>1. CASE recheck_device(w)
    <3>1. PICK step \in {"sending", "answered"} : deliverers' = [deliverers EXCEPT ![w].step = step]
      BY <2>1 DEF recheck_device
    <3>2. deliverers[w].ok \in BOOLEAN /\ UnderWay(w)
      BY <1>1, <2>1 DEF Deliverer, recheck_device, UnderWay
    <3>3. [deliverers[w] EXCEPT !.step = step] = [deliverers[w] EXCEPT !.step = step, !.ok = deliverers[w].ok]
      BY <1>1 DEF Deliverer
    <3>4. deliverers' = [deliverers EXCEPT ![w] = [@ EXCEPT !.step = step, !.ok = deliverers[w].ok]]
      BY <3>1, <3>3
    <3> QED
      BY <3>2, <3>4
  <2>2. CASE \E arrives, ok \in BOOLEAN : push_sender(w, arrives, ok)
    BY <2>2 DEF push_sender, UnderWay
  <2> QED
    BY <2>1, <2>2
<1>3. PICK ok \in BOOLEAN :
         deliverers' = [deliverers EXCEPT ![w] = [@ EXCEPT !.step = step, !.ok = ok]]
  BY <1>2
<1>4. \A v \in Deliverers : /\ deliverers'[v].event = deliverers[v].event
                            /\ deliverers'[v].device = deliverers[v].device
                            /\ deliverers'[v].attempt = deliverers[v].attempt
                            /\ v # w => deliverers'[v] = deliverers[v]
  BY <1>1, <1>3 DEF Deliverer
<1>5. UnderWay(w)'
  BY <1>1, <1>3 DEF UnderWay, Deliverer
<1>6. \A v \in Deliverers : UnderWay(v)' <=> UnderWay(v)
  BY <1>2, <1>4, <1>5 DEF UnderWay
<1>7. \A v \in Deliverers : DeliveryHeld(v)' = DeliveryHeld(v)
  BY <1>1, <1>4, <1>6, DeliveryHeldAlike
<1>8. \A k \in AlertEvents \X PushDevices : /\ DeliveryWork(k)' = DeliveryWork(k)
                                            /\ DeliveryLeased(k)' = DeliveryLeased(k)
  BY <1>1 DEF DeliveryWork, DeliveryLeased
<1> QED
  BY <1>7, <1>8 DEF Delivering!vars

\* The attempt that has the row ends the delivery, or its try; another only goes
\* on (finish_mobile_notification_delivery).
LEMMA FinishingRefines ==
  ASSUME OutboxInv, NEW w \in Deliverers, finish_mobile_notification_delivery(w)
  PROVE  Delivering!Quit(w) \/ \E k \in AlertEvents \X PushDevices : Delivering!End(w, k)
<1>1. /\ deliverers[w].step = "answered" /\ UnderWay(w)
      /\ deliverers' = [deliverers EXCEPT ![w] = Onward(w)]
      /\ Onward(w).step \in {"none", "next"}
  BY DEF finish_mobile_notification_delivery, UnderWay, Onward, IdleDeliverer
<1>2. PICK key \in AlertEvents \X PushDevices : key = KeyOf(w)
  BY <1>1, HeldIsKey
<1>3. CASE ~Holds(deliveries[key], deliverers[w].attempt)
  <2>1. UNCHANGED deliveries
    BY <1>2, <1>3 DEF finish_mobile_notification_delivery, KeyOf
  <2> QED
    BY <1>1, <2>1, LettingGoRefines
<1>4. CASE Holds(deliveries[key], deliverers[w].attempt)
  <2>1. PICK verdict \in {"sent", "failed"} :
           deliveries' = [deliveries EXCEPT ![key].status = verdict]
    BY <1>2, <1>4 DEF finish_mobile_notification_delivery, KeyOf
  <2>2. /\ deliveries \in [AlertEvents \X PushDevices -> DeliveryRow]
        /\ deliverers \in [Deliverers -> Deliverer]
    BY DEF OutboxInv, DeliveriesHold, DeliveriesTyped
  <2>3. /\ deliveries'[key].status = verdict
        /\ \A k \in AlertEvents \X PushDevices : k # key => deliveries'[k] = deliveries[k]
        /\ deliverers'[w] = Onward(w)
        /\ \A v \in Deliverers \ {w} : deliverers'[v] = deliverers[v]
    BY <1>1, <2>1, <2>2 DEF DeliveryRow
  <2>4. DeliveryHeld(w) = key
    BY <1>1, <1>2, <1>4, HeldIs DEF RowOf
  <2>5. DeliveryHeld(w)' = <<>>
    BY <1>1, <2>3 DEF DeliveryHeld
  <2>6. \A v \in Deliverers :
           DeliveryHeld(v)' = IF DeliveryHeld(v) = key THEN <<>> ELSE DeliveryHeld(v)
    BY <2>3, <2>4, <2>5, DeliveryLetGo
  <2>7. PICK end \in {"open", "done", "given up"} : end = DeliveryWork(key)'
    BY DEF DeliveryWork
  <2>8. /\ DeliveryLeased(key)' = FALSE
        /\ \A k \in AlertEvents \X PushDevices : k # key =>
              DeliveryWork(k)' = DeliveryWork(k) /\ DeliveryLeased(k)' = DeliveryLeased(k)
    BY <2>3 DEF DeliveryWork, DeliveryLeased
  <2>9. [k \in AlertEvents \X PushDevices |-> DeliveryWork(k)']
          = [[k \in AlertEvents \X PushDevices |-> DeliveryWork(k)] EXCEPT ![key] = end]
    BY <2>7, <2>8
  <2>10. [k \in AlertEvents \X PushDevices |-> DeliveryLeased(k)']
           = [[k \in AlertEvents \X PushDevices |-> DeliveryLeased(k)] EXCEPT ![key] = FALSE]
    BY <2>8
  <2>11. PICK held : held = [v \in Deliverers |-> DeliveryHeld(v)]
    OBVIOUS
  <2>12. [v \in Deliverers |-> DeliveryHeld(v)']
           = [v \in Deliverers |-> IF held[v] = key THEN <<>> ELSE held[v]]
    BY <2>6, <2>11
  <2>13. held[w] = key
    BY <2>4, <2>11
  <2>14. Delivering!End(w, key)
    BY <2>9, <2>10, <2>11, <2>12, <2>13 DEF Delivering!End, Delivering!Released
  <2> QED
    BY <2>14
<1> QED
  BY <1>3, <1>4

\* A lease runs out.
LEMMA LapseRefines ==
  ASSUME OutboxInv, NEW key \in AlertEvents \X PushDevices, LeaseExpires(key)
  PROVE  Delivering!Lapse(key)
<1>1. /\ deliveries \in [AlertEvents \X PushDevices -> DeliveryRow]
      /\ deliveries' = [deliveries EXCEPT ![key].leased = FALSE] /\ UNCHANGED deliverers
  BY DEF OutboxInv, DeliveriesHold, DeliveriesTyped, LeaseExpires
<1>2. /\ deliveries'[key].leased = FALSE
      /\ \A k \in AlertEvents \X PushDevices : /\ deliveries'[k].status = deliveries[k].status
                                               /\ deliveries'[k].attempt = deliveries[k].attempt
                                               /\ k # key => deliveries'[k] = deliveries[k]
  BY <1>1 DEF DeliveryRow
<1>3. \A v \in Deliverers : UnderWay(v)' <=> UnderWay(v)
  BY <1>1 DEF UnderWay
<1>4. \A v \in Deliverers : DeliveryHeld(v)' = DeliveryHeld(v)
  BY <1>1, <1>2, <1>3, DeliveryHeldAlike
<1>5. /\ DeliveryLeased(key)' = FALSE
      /\ \A k \in AlertEvents \X PushDevices : /\ DeliveryWork(k)' = DeliveryWork(k)
                                               /\ k # key => DeliveryLeased(k)' = DeliveryLeased(k)
  BY <1>2 DEF DeliveryWork, DeliveryLeased
<1> QED
  BY <1>4, <1>5 DEF Delivering!Lapse

\* Every step of the outbox is a step of LeasedWork or a stutter.
LEMMA DeliveringNext ==
  ASSUME OutboxInv, [OutboxNext]_outboxVars
  PROVE  [Delivering!Next]_(Delivering!vars)
<1>1. ASSUME UNCHANGED <<deliveries, deliverers>> PROVE UNCHANGED Delivering!vars
  <2>1. \A v \in Deliverers : DeliveryHeld(v)' = DeliveryHeld(v)
    BY <1>1 DEF DeliveryHeld
  <2>2. \A k \in AlertEvents \X PushDevices : /\ DeliveryWork(k)' = DeliveryWork(k)
                                              /\ DeliveryLeased(k)' = DeliveryLeased(k)
    BY <1>1 DEF DeliveryWork, DeliveryLeased
  <2> QED
    BY <2>1, <2>2 DEF Delivering!vars
<1>2. ASSUME \/ UNCHANGED outboxVars
             \/ \E d \in PushDevices : \/ \E t \in PushTokens : register_push_token(d, t)
                                       \/ unregister_push_token(d) \/ revoke_alert_device(d)
      PROVE  UNCHANGED Delivering!vars
  BY <1>1, <1>2 DEF outboxVars, register_push_token, unregister_push_token, revoke_alert_device
<1>3. ASSUME NEW w \in Deliverers, DelivererDies(w) PROVE Delivering!Next
  <2>1. Delivering!Quit(w)
    BY <1>3, LettingGoRefines DEF DelivererDies, IdleDeliverer
  <2> QED
    BY <2>1 DEF Delivering!Next
<1>4. ASSUME NEW w \in Deliverers, NEW e \in AlertEvents, deliver_push_event(w, e)
      PROVE  Delivering!Next
  <2>1. PICK row : row = [IdleDeliverer EXCEPT !.event = e, !.todo = ActiveRows, !.step = "next"]
    OBVIOUS
  <2>2. row.step = "next" /\ deliverers' = [deliverers EXCEPT ![w] = row] /\ UNCHANGED deliveries
    BY <1>4, <2>1 DEF deliver_push_event, IdleDeliverer
  <2>3. Delivering!Quit(w)
    BY <2>2, LettingGoRefines
  <2> QED
    BY <2>3 DEF Delivering!Next
<1>5. ASSUME NEW w \in Deliverers, NEW row \in deliverers[w].todo,
             reserve_mobile_notification_delivery(w, row)
      PROVE  Delivering!Next
  <2>1. PICK rest : rest = deliverers[w].todo \ {row}
    OBVIOUS
  <2>2. PICK next : next = IF rest = {} THEN IdleDeliverer ELSE [deliverers[w] EXCEPT !.todo = rest]
    OBVIOUS
  <2>3. deliverers[w].step = "next" /\ deliverers[w] \in Deliverer /\ UNCHANGED <<pushes, confirmed>>
    BY <1>5 DEF reserve_mobile_notification_delivery, OutboxInv, DeliveriesHold, DeliveriesTyped
  <2>4. next.step \in {"none", "next"}
    BY <2>2, <2>3 DEF IdleDeliverer, Deliverer
  <2>5. \/ deliverers' = [deliverers EXCEPT ![w] = next] /\ UNCHANGED deliveries
        \/ Reserves(w, row)
    BY <1>5, <2>1, <2>2, <2>3 DEF reserve_mobile_notification_delivery, Reserves
  <2> QED
    BY <2>4, <2>5, LettingGoRefines, ReservesRefines DEF Delivering!Next
<1>6. ASSUME NEW w \in Deliverers,
             recheck_device(w) \/ \E arrives, ok \in BOOLEAN : push_sender(w, arrives, ok)
      PROVE  UNCHANGED Delivering!vars
  BY <1>6, SendingRefines
<1>7. ASSUME NEW w \in Deliverers, finish_mobile_notification_delivery(w) PROVE Delivering!Next
  BY <1>7, FinishingRefines DEF Delivering!Next
<1>8. ASSUME NEW k \in AlertEvents \X PushDevices, LeaseExpires(k) PROVE Delivering!Next
  BY <1>8, LapseRefines DEF Delivering!Next
<1> QED
  BY <1>2, <1>3, <1>4, <1>5, <1>6, <1>7, <1>8 DEF OutboxNext, DelivererStep

\* Deliveries and callers are LeasedWork: only the attempt that was reserved last
\* settles a delivery, and nobody reserves it before the lease of the one before
\* is over, or its push failed.
THEOREM DeliveringIsLeased == OutboxSpec => Delivering!Spec
<1>1. OutboxInit => Delivering!Init
  <2> SUFFICES ASSUME OutboxInit PROVE Delivering!Init
    OBVIOUS
  <2>1. /\ \A k \in AlertEvents \X PushDevices : deliveries[k].status = "none"
        /\ \A w \in Deliverers : deliverers[w].step = "none"
    BY DEF OutboxInit, IdleDeliverer
  <2>2. /\ \A k \in AlertEvents \X PushDevices : DeliveryWork(k) = "open" /\ DeliveryLeased(k) = FALSE
        /\ \A w \in Deliverers : DeliveryHeld(w) = <<>>
    BY <2>1 DEF DeliveryWork, DeliveryLeased, DeliveryHeld
  <2> QED
    BY <2>2 DEF Delivering!Init
<1> QED
  BY <1>1, OutboxInitially, OutboxStep, DeliveringNext, PTL DEF OutboxSpec, Delivering!Spec

\* A device hears of an event once, over the token it has now, unless a lease
\* ran out or a push failed; the outbox says sent only of what was confirmed,
\* and no send begins for a revoked device.
THEOREM OutboxHoldsAlways == OutboxSpec => OutboxHolds
<1>1. OutboxInv => OneTokenPerDevice /\ SentMeansConfirmed /\ NoSecondPush
  BY PushesAreExplained DEF OutboxInv, RegistrationsHold, DeliveriesHold
<1>2. OutboxInv /\ [OutboxNext]_outboxVars =>
        [\A w \in Deliverers :
            deliverers'[w].step = "sending" /\ deliverers[w].step # "sending" =>
               alert_devices[deliverers'[w].device] = "active"]_outboxVars
  BY SendsToActive
<1> QED
  BY OutboxInitially, OutboxStep, DeliveringIsLeased, <1>1, <1>2, PTL
     DEF OutboxSpec, OutboxHolds, NoPushToRevoked

\* The rows are of their types, and no caller waits for a next row it has not.
THEOREM OutboxTypeCorrect == OutboxSpec => []OutboxTypeOK
<1>1. OutboxInv => OutboxTypeOK
  BY DEF OutboxInv, RegistrationsHold, DeliveriesHold, DeliveriesTyped, OutboxTypeOK
<1> QED
  BY OutboxInitially, OutboxStep, <1>1, PTL DEF OutboxSpec

-----------------------------------------------------------------------------
(***************************************************************************)
(* The trading side of the backend as TLC runs it.                         *)
(***************************************************************************)

\* A step is one of one component, and leaves the others alone.
LEMMA OneComponentMoves ==
  ASSUME [Next]_vars
  PROVE  /\ [PilotNext]_pilotVars /\ [OutboxNext]_outboxVars
         /\ [ShadowNext]_shadowVars /\ [ReviewNext]_reviewVars
<1>1. CASE UNCHANGED vars
  BY <1>1 DEF vars
<1>2. CASE \/ Pilot(run_live_autonomy)
           \/ \E a \in PilotAudits, action \in {"buy", "sell"} :
                 Pilot(Trading /\ PilotAuditInOrder(a) /\ quote_live_intent(a, action))
           \/ Pilot(live_submit)
           \/ Pilot(tick_stopped)
           \/ Pilot(tick_gives_up)
           \/ \E a \in PilotAudits : Pilot(reconcile_live_audit(a))
           \/ \E a \in PilotAudits : Pilot(recover_failed_audit(a))
           \/ \E metadata \in BOOLEAN, pnl \in {0 - 1, 1} : Pilot(append_pilot_outcome(metadata, pnl))
           \/ Pilot(manual_sell)
           \/ \E on \in BOOLEAN : Pilot(Switching /\ set_kill_switch(on))
           \/ Pilot(arm_live_backend)
  <2>1. PilotNext /\ UNCHANGED <<outboxVars, shadowVars, reviewVars>>
    BY <1>2 DEF Pilot, Alone, PilotNext
  <2> QED
    BY <2>1
<1>3. CASE \/ Pilot(Switching /\ disarm_live_backend)
           \/ Pilot(Switching /\ update_settings)
           \/ Pilot(create_pilot_risk_policy)
           \/ \E evidence \in BOOLEAN :
                 Pilot((Reviewing \/ evidence) /\ evaluate_autonomous_pilot_window(evidence))
           \/ Pilot(OpenWindowRecorded)
           \/ \E w \in DOMAIN windows, clear \in BOOLEAN :
                 Pilot(Reviewing /\ close_post_pilot_review(w, clear))
           \/ \E j \in DOMAIN reviews : Pilot(Reviewing /\ record_post_pilot_decision(j))
           \/ Pilot(LatestIsOpen /\ WindowExpires)
           \/ Pilot(Switching /\ WorldTurns /\ Turning)
           \/ Pilot(Opened /\ PilotRestart)
  <2>1. PilotNext /\ UNCHANGED <<outboxVars, shadowVars, reviewVars>>
    BY <1>3 DEF Pilot, Alone, PilotNext
  <2> QED
    BY <2>1
<1>4. CASE \/ \E d \in PushDevices, t \in PushTokens : Outbox(Registers(d, t) /\ register_push_token(d, t))
           \/ Outbox(OneDeliverer /\ unregister_push_token("d1"))
           \/ Outbox(revoke_alert_device("d1"))
           \/ \E w \in Deliverers, e \in AlertEvents : Outbox(DelivererInOrder(w) /\ deliver_push_event(w, e))
           \/ \E w \in Deliverers, t \in PushTokens, d \in PushDevices :
                 Outbox(reserve_mobile_notification_delivery(w, [token |-> t, device |-> d]))
  <2>1. \A w, row : reserve_mobile_notification_delivery(w, row) => row \in deliverers[w].todo
    BY DEF reserve_mobile_notification_delivery
  <2>2. OutboxNext /\ UNCHANGED <<pilotVars, shadowVars, reviewVars>>
    BY <1>4, <2>1, BackendInstance DEF Outbox, Alone, OutboxNext, DelivererStep
  <2> QED
    BY <2>2
<1>5. CASE \/ \E w \in Deliverers : Outbox(recheck_device(w))
           \/ \E w \in Deliverers, arrives, ok \in BOOLEAN : Outbox(push_sender(w, arrives, ok))
           \/ \E w \in Deliverers : Outbox(finish_mobile_notification_delivery(w))
           \/ \E e \in AlertEvents : Outbox(LeaseExpires(<<e, "d1">>))
           \/ Outbox(deliverers["w1"].step # "next" /\ DelivererDies("w1"))
  <2>1. OutboxNext /\ UNCHANGED <<pilotVars, shadowVars, reviewVars>>
    BY <1>5, BackendInstance DEF Outbox, Alone, OutboxNext, DelivererStep
  <2> QED
    BY <2>1
<1>6. CASE \/ Shadow(Selects /\ generate_live_intents)
           \/ \E c \in Candidates, m \in Mints : Shadow(Asks(c, m) /\ save_live_intent(c, m))
           \/ Shadow(promotion_is_over)
           \/ \E c \in Candidates, a \in ShadowAudits, answer \in {"ready", "blocked", "raises"} :
                 Shadow(Answers(a, answer) /\ quote_shadow_intent(c, a, answer))
           \/ \E c \in Candidates : Shadow(discard_invalid_audit(c))
           \/ \E c \in Candidates : Shadow(track_shadow_candidate(c))
           \/ Shadow(save_quoted_intent)
           \/ Shadow(strategy_version = 0 /\ cancel_live_intent("c1"))
           \/ \E clean, exits \in BOOLEAN :
                 Shadow(Sighting(clean, exits) /\ save_accepted_market_observation("m1", clean, exits))
           \/ Shadow(expire_shadow_tracking_candidates)
           \/ Shadow(save_shadow_tracking_candidate)
           \/ Shadow(bind_accepted_market_observation)
  <2>1. ShadowNext /\ UNCHANGED <<pilotVars, outboxVars, reviewVars>>
    BY <1>6, BackendInstance DEF Shadow, Alone, ShadowNext
  <2> QED
    BY <2>1
<1>7. CASE \/ Shadow(activation_is_over)
           \/ Shadow(close_pending_shadow_audit_capture)
           \/ Shadow(complete_shadow_candidates)
           \/ Shadow(strategy_version = 0 /\ shadow_audits["q1"].status = "stale" /\ shadow_report)
           \/ \E a \in ShadowAudits, economic \in BOOLEAN : Shadow(persist_economic_comparison(a, economic))
           \/ Shadow(strategy_version = 0 /\ QuoteExpires("q1"))
           \/ Shadow(arrived = <<>> /\ EventArrives)
           \/ Shadow(Active # {} /\ TimePasses)
           \/ Shadow(MayChange /\ strategy_version_changes)
           \/ Shadow(job.step \notin {"idle", "saved"} /\ ShadowCrash)
  <2>1. ShadowNext /\ UNCHANGED <<pilotVars, outboxVars, reviewVars>>
    BY <1>7, BackendInstance DEF Shadow, Alone, ShadowNext
  <2> QED
    BY <2>1
<1>8. CASE \/ \E r \in Revisions : Review(save_trade(r))
           \/ Review(enqueue_trade_review)
           \/ Review(BackendStops)
           \/ Review(clear_all_data)
           \/ \E w \in Graders : Review(claim_trade_review(w))
           \/ \E w \in Graders : Review(finish_trade_review(w))
  <2>1. ReviewNext /\ UNCHANGED <<pilotVars, outboxVars, shadowVars>>
    BY <1>8 DEF Review, Alone, ReviewNext
  <2> QED
    BY <2>1
<1>9. CASE \/ \E w \in Graders : Review(fail_trade_review(w))
           \/ \E w \in Graders, tokens \in 1..2 : Review(reserve_model_budget(w, tokens))
           \/ \E w \in Graders, answers \in BOOLEAN : Review(save_model_classification(w, answers))
           \/ \E w \in Graders : Review(grading_is_done(w))
           \/ \E r \in Revisions : Review(ReviewLeaseExpires(r))
           \/ \E w \in Graders : Review(GraderDies(w))
  <2>1. ReviewNext /\ UNCHANGED <<pilotVars, outboxVars, shadowVars>>
    BY <1>9 DEF Review, Alone, ReviewNext
  <2> QED
    BY <2>1
<1> QED
  BY <1>1, <1>2, <1>3, <1>4, <1>5, <1>6, <1>7, <1>8, <1>9 DEF Next

\* What the run checks is a behaviour of each of the four, so that every theorem
\* about one of them holds in it.
THEOREM BackendIsItsParts == Spec => PilotSpec /\ OutboxSpec /\ ShadowSpec /\ ReviewSpec
<1>1. Init => PilotInit /\ OutboxInit /\ ShadowInit /\ ReviewInit
  BY DEF Init
<1> QED
  BY <1>1, OneComponentMoves, PTL DEF Spec, PilotSpec, OutboxSpec, ShadowSpec, ReviewSpec

\* Every variable of the four is of its type.
THEOREM BackendTypeCorrect == Spec => []BackendTypeOK
  BY BackendIsItsParts, PilotTypeCorrect, OutboxTypeCorrect, ShadowTypeCorrect, ReviewTypeCorrect,
     PTL DEF BackendTypeOK
=============================================================================
