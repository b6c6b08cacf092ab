--------------------------- MODULE JobQueueProofs ---------------------------
(***************************************************************************)
(* Proofs about JobQueue for any number of jobs, tenants and workers.      *)
(*                                                                         *)
(* The invariants of JobQueue are not inductive one by one: that a result  *)
(* is charged once needs the row lock of a running job to name the worker  *)
(* that finalizes it, which needs every worker that holds a job to hold an *)
(* attempt the row has counted.  IInv joins them.                          *)
(***************************************************************************)
EXTENDS JobQueue, FiniteSetTheorems, TLAPS

\* A worker inside a round has a job and an attempt of it that was counted.
RoundsHoldJobs ==
  \A w \in Workers :
    IF pc[w] \in HoldingJob
      THEN job[w] \in Jobs /\ tries[w] > 0 /\ tries[w] <= attempts[job[w]]
      ELSE job[w] = None

\* Rows have a company, and no attempt before they exist.
RowsAreWhole ==
  \A j \in Jobs : /\ companyId[j] = None <=> status[j] = "absent"
                  /\ status[j] = "absent" => attempts[j] = 0

IInv ==
  /\ TypeOK
  /\ RoundsHoldJobs
  /\ RowsAreWhole
  /\ ClaimsBelongToTheirWorker
  /\ OneWorkerPerAttempt
  /\ ResultIffDone
  /\ DeadLettersAreExhausted
-----------------------------------------------------------------------------
(* Types.                                                                  *)

LEMMA InitTypeOK == Init => TypeOK
<1> SUFFICES ASSUME Init PROVE TypeOK
  OBVIOUS
<1>1. audit \in [Jobs -> Seq(Events)]
  <2>1. <<>> \in Seq(Events) /\ <<"submitted">> \in Seq(Events)
    BY DEF Events
  <2> QED
    BY <2>1 DEF Init
<1>2. results \subseteq Jobs /\ deadLetters \subseteq Jobs /\ quota \in [Companies -> Int]
  BY QuotaIsANumber DEF Init
<1> QED
  BY <1>1, <1>2, AttemptsLimit DEF Init, TypeOK, Statuses, Leases, Backoffs, Phases, HoldingJob

LEMMA RecordedType ==
  ASSUME NEW S, NEW event \in Events, audit \in [Jobs -> Seq(Events)]
  PROVE  Recorded(S, event) \in [Jobs -> Seq(Events)]
BY DEF Recorded

LEMMA ApiTypeOK ==
  ASSUME TypeOK, NEW c \in Companies, NEW j \in Jobs,
         CreateJob(c, j) \/ CancelJob(c, j) \/ RetryJob(c, j)
  PROVE  TypeOK'
<1>1. CASE CreateJob(c, j)
  BY <1>1, RecordedType DEF TypeOK, CreateJob, Statuses, Events, workers
<1>2. CASE CancelJob(c, j)
  BY <1>2, RecordedType DEF TypeOK, CancelJob, Statuses, Events, Leases, workers
<1>3. CASE RetryJob(c, j)
  BY <1>3, RecordedType DEF TypeOK, RetryJob, Statuses, Events, Leases, Backoffs, workers
<1> QED
  BY <1>1, <1>2, <1>3

LEMMA ClockTypeOK ==
  ASSUME TypeOK, NEW j \in Jobs, LeaseExpires(j) \/ BackoffEnds(j)
  PROVE  TypeOK'
BY DEF TypeOK, LeaseExpires, BackoffEnds, Leases, Backoffs, workers

LocalTypes ==
  /\ pc \in [Workers -> Phases]
  /\ job \in [Workers -> Jobs \cup {None}]
  /\ tries \in [Workers -> 0 .. MaxAttempts]
  /\ token \in [Workers -> BOOLEAN]

LEMMA FailedTypeOK ==
  ASSUME TypeOK, LocalTypes', NEW S, NEW exhausted \in SUBSET Jobs, Failed(S, exhausted)
  PROVE  TypeOK'
BY RecordedType DEF TypeOK, LocalTypes, Failed, Statuses, Events, Leases, Backoffs

LEMMA DoneTypeOK ==
  ASSUME TypeOK, LocalTypes', NEW j \in Jobs, Done(j)
  PROVE  TypeOK'
<1>1. quota' \in [Companies -> Int]
  <2>1. CASE j \in results
    BY <2>1 DEF TypeOK, Done
  <2>2. CASE j \notin results
    <3>1. quota' = [quota EXCEPT ![companyId[j]] = @ - 1]
      BY <2>2 DEF Done
    <3>2. quota' = [c \in Companies |-> IF c = companyId[j] THEN quota[c] - 1 ELSE quota[c]]
      BY <3>1 DEF TypeOK
    <3> QED
      BY <3>2 DEF TypeOK
  <2> QED
    BY <2>1, <2>2
<1>2. audit' \in [Jobs -> Seq(Events)]
  BY RecordedType DEF TypeOK, Done, Events
<1> QED
  BY <1>1, <1>2 DEF TypeOK, LocalTypes, Done, Statuses, Leases

LEMMA DropTypes ==
  ASSUME TypeOK, NEW w \in Workers, NEW phase \in Phases, Drop(w, phase)
  PROVE  LocalTypes'
BY AttemptsLimit DEF TypeOK, LocalTypes, Drop, Goto

LEMMA WorkerTypeOK ==
  ASSUME TypeOK, RoundsHoldJobs, NEW w \in Workers, WorkerStep(w)
  PROVE  TypeOK'
<1>1. CASE Start(w) \/ FindNothing(w) \/ CancelToken(w) \/ FinishWork(w)
           \/ AbortWork(w) \/ FailWork(w) \/ MonitorHangs(w)
  BY <1>1 DEF TypeOK, Start, FindNothing, CancelToken, FinishWork, AbortWork,
              FailWork, MonitorHangs, Goto, tables, Phases, HoldingJob
<1>2. CASE RecoverStaleJobs(w)
  <2>1. {j \in Stale : attempts[j] >= MaxAttempts} \in SUBSET Jobs
    BY DEF Stale
  <2>2. LocalTypes'
    BY <1>2 DEF RecoverStaleJobs, Goto, TypeOK, LocalTypes, Phases
  <2> QED
    BY <1>2, <2>1, <2>2, FailedTypeOK DEF RecoverStaleJobs
<1>3. CASE Claim(w)
  BY <1>3, AttemptsLimit DEF Claim, Goto, TypeOK, Claimable, Statuses, Leases, Phases, HoldingJob
<1>4. CASE RenewLease(w)
  BY <1>4 DEF RenewLease, TypeOK, Leases, workers
<1>5. CASE Finalize(w)
  <2>1. job[w] \in Jobs
    BY <1>5 DEF Finalize, RoundsHoldJobs, HoldingJob
  <2>2. LocalTypes'
    BY <1>5, DropTypes DEF Finalize, Phases
  <2>3. CASE OwnsClaim(w)
    BY <1>5, <2>1, <2>2, <2>3, DoneTypeOK DEF Finalize
  <2>4. CASE ~OwnsClaim(w)
    BY <1>5, <2>2, <2>4 DEF Finalize, TypeOK, LocalTypes, tables
  <2> QED
    BY <2>3, <2>4
<1>6. CASE Acknowledge(w)
  BY <1>6, DropTypes DEF Acknowledge, Goto, TypeOK, LocalTypes, tables, Phases, HoldingJob
<1>7. CASE RecordFailure(w)
  <2>1. job[w] \in Jobs
    BY <1>7 DEF RecordFailure, RoundsHoldJobs, HoldingJob
  <2>2. LocalTypes'
    BY <1>7, DropTypes DEF RecordFailure, Phases
  <2>3. CASE OwnsClaim(w)
    BY <1>7, <2>1, <2>2, <2>3, FailedTypeOK DEF RecordFailure
  <2>4. CASE ~OwnsClaim(w)
    BY <1>7, <2>2, <2>4 DEF RecordFailure, TypeOK, LocalTypes, tables
  <2> QED
    BY <2>3, <2>4
<1>8. CASE Crash(w)
  BY <1>8, DropTypes DEF Crash, TypeOK, LocalTypes, tables, Phases
<1> QED
  BY <1>1, <1>2, <1>3, <1>4, <1>5, <1>6, <1>7, <1>8 DEF WorkerStep
-----------------------------------------------------------------------------
(* The inductive invariant.                                                *)

LEMMA InitIInv == Init => IInv
<1> SUFFICES ASSUME Init PROVE IInv
  OBVIOUS
<1>1. TypeOK
  BY InitTypeOK
<1>2. RoundsHoldJobs /\ RowsAreWhole /\ OneWorkerPerAttempt
  BY DEF Init, RoundsHoldJobs, RowsAreWhole, OneWorkerPerAttempt, HoldingJob
<1>3. ClaimsBelongToTheirWorker /\ ResultIffDone
  BY DEF Init, ClaimsBelongToTheirWorker, ResultIffDone
<1>4. DeadLettersAreExhausted
  BY AttemptsLimit DEF Init, DeadLettersAreExhausted
<1> QED
  BY <1>1, <1>2, <1>3, <1>4 DEF IInv

LEMMA ApiIInv ==
  ASSUME IInv, NEW c \in Companies, NEW j \in Jobs,
         CreateJob(c, j) \/ CancelJob(c, j) \/ RetryJob(c, j)
  PROVE  IInv'
<1> USE DEF IInv
<1>1. TypeOK'
  BY ApiTypeOK
<1>2. RoundsHoldJobs' /\ OneWorkerPerAttempt'
  BY DEF CreateJob, CancelJob, RetryJob, RoundsHoldJobs, OneWorkerPerAttempt, workers
<1>3. RowsAreWhole'
  BY NoneIsNull DEF CreateJob, CancelJob, RetryJob, RowsAreWhole, TypeOK
<1>4. ClaimsBelongToTheirWorker'
  BY DEF CreateJob, CancelJob, RetryJob, ClaimsBelongToTheirWorker, TypeOK, workers
<1>5. ResultIffDone'
  BY DEF CreateJob, CancelJob, RetryJob, ResultIffDone, TypeOK
<1>6. DeadLettersAreExhausted'
  BY AttemptsLimit DEF CreateJob, CancelJob, RetryJob, DeadLettersAreExhausted, TypeOK, RowsAreWhole
<1> QED
  BY <1>1, <1>2, <1>3, <1>4, <1>5, <1>6

LEMMA ClockIInv ==
  ASSUME IInv, NEW j \in Jobs, LeaseExpires(j) \/ BackoffEnds(j)
  PROVE  IInv'
<1> USE DEF IInv
<1>1. TypeOK'
  BY ClockTypeOK
<1>2. RoundsHoldJobs' /\ RowsAreWhole' /\ OneWorkerPerAttempt'
  BY DEF LeaseExpires, BackoffEnds, RoundsHoldJobs, RowsAreWhole, OneWorkerPerAttempt, workers
<1>3. ClaimsBelongToTheirWorker'
  BY DEF LeaseExpires, BackoffEnds, ClaimsBelongToTheirWorker, TypeOK, workers
<1>4. ResultIffDone' /\ DeadLettersAreExhausted'
  BY DEF LeaseExpires, BackoffEnds, ResultIffDone, DeadLettersAreExhausted
<1> QED
  BY <1>1, <1>2, <1>3, <1>4

\* A step that leaves the tables alone and moves a worker within its round,
\* or between rounds.
LEMMA MoveIInv ==
  ASSUME IInv, TypeOK', UNCHANGED tables, UNCHANGED <<job, tries>>,
         NEW w \in Workers, NEW phase, pc' = [pc EXCEPT ![w] = phase],
         pc[w] \in HoldingJob <=> phase \in HoldingJob, pc[w] # "dead"
  PROVE  IInv'
<1> USE DEF IInv
<1>1. RoundsHoldJobs'
  BY DEF RoundsHoldJobs, TypeOK, tables
<1>2. RowsAreWhole' /\ OneWorkerPerAttempt' /\ ResultIffDone' /\ DeadLettersAreExhausted'
  BY DEF RowsAreWhole, OneWorkerPerAttempt, ResultIffDone, DeadLettersAreExhausted, tables
<1>3. ClaimsBelongToTheirWorker'
  BY DEF ClaimsBelongToTheirWorker, TypeOK, tables
<1> QED
  BY <1>1, <1>2, <1>3

\* A round that ends without owning a row, or with the process.
LEMMA EndIInv ==
  ASSUME IInv, TypeOK', UNCHANGED tables, NEW w \in Workers, NEW phase,
         Drop(w, phase), phase \notin HoldingJob,
         phase = "dead" \/ \A j \in Jobs : workerId[j] # w
  PROVE  IInv'
<1> USE DEF IInv, Drop, Goto
<1>1. RoundsHoldJobs'
  BY DEF RoundsHoldJobs, TypeOK, tables
<1>2. RowsAreWhole' /\ ResultIffDone' /\ DeadLettersAreExhausted'
  BY DEF RowsAreWhole, ResultIffDone, DeadLettersAreExhausted, tables
<1>3. OneWorkerPerAttempt'
  BY DEF OneWorkerPerAttempt, TypeOK
<1>4. ClaimsBelongToTheirWorker'
  BY DEF ClaimsBelongToTheirWorker, TypeOK, tables
<1> QED
  BY <1>1, <1>2, <1>3, <1>4

\* A worker whose round ends without owning the claim owns no row.
LEMMA OwnsAtMostItsJob ==
  ASSUME IInv, NEW w \in Workers, NEW j \in Jobs, workerId[j] = w, pc[w] # "dead"
  PROVE  /\ pc[w] \in HoldingJob /\ job[w] = j /\ tries[w] = attempts[j]
         /\ status[j] = "running" /\ OwnsClaim(w)
BY NoneIsNull DEF IInv, TypeOK, ClaimsBelongToTheirWorker, OwnsClaim

LEMMA ClaimIInv ==
  ASSUME IInv, TypeOK', NEW w \in Workers, Claim(w)
  PROVE  IInv'
<1> USE DEF IInv
<1>1. PICK j \in Claimable :
        /\ status' = [status EXCEPT ![j] = "running"]
        /\ attempts' = [attempts EXCEPT ![j] = @ + 1]
        /\ lease' = [lease EXCEPT ![j] = "live"]
        /\ workerId' = [workerId EXCEPT ![j] = w]
        /\ job' = [job EXCEPT ![w] = j]
        /\ tries' = [tries EXCEPT ![w] = attempts[j] + 1]
  BY DEF Claim
<1>2. /\ j \in Jobs /\ status[j] = "queued" /\ attempts[j] < MaxAttempts
      /\ pc[w] = "claiming" /\ pc' = [pc EXCEPT ![w] = "working"]
      /\ UNCHANGED <<companyId, results, deadLetters>>
  BY DEF Claim, Claimable, Goto
<1>3. RoundsHoldJobs'
  BY <1>1, <1>2 DEF RoundsHoldJobs, TypeOK, HoldingJob
<1>4. RowsAreWhole' /\ ResultIffDone'
  BY <1>1, <1>2 DEF RowsAreWhole, ResultIffDone, TypeOK
<1>5. ClaimsBelongToTheirWorker'
  BY <1>1, <1>2, NoneIsNull DEF ClaimsBelongToTheirWorker, TypeOK, HoldingJob
<1>6. OneWorkerPerAttempt'
  BY <1>1, <1>2, NoneIsNull DEF OneWorkerPerAttempt, RoundsHoldJobs, TypeOK
<1>7. DeadLettersAreExhausted'
  BY <1>1, <1>2, AttemptsLimit DEF DeadLettersAreExhausted, TypeOK
<1> QED
  BY <1>3, <1>4, <1>5, <1>6, <1>7

\* Failing running jobs keeps the row invariants; the dead letters need the
\* exhausted ones among them.
LEMMA FailedIInv ==
  ASSUME IInv, TypeOK', NEW S \in SUBSET Jobs, \A j \in S : status[j] = "running",
         Failed(S, {j \in S : attempts[j] = MaxAttempts}),
         NEW w \in Workers,
         \/ UNCHANGED <<job, tries>> /\ pc' = [pc EXCEPT ![w] = "claiming"] /\ pc[w] = "idle"
         \/ /\ \E phase : Drop(w, phase) /\ phase \notin HoldingJob
            /\ \A j \in Jobs \ S : workerId[j] # w
  PROVE  IInv'
<1> USE DEF IInv
<1>0. \/ /\ UNCHANGED <<job, tries>> /\ pc' = [pc EXCEPT ![w] = "claiming"] /\ pc[w] = "idle"
      \/ /\ job'[w] = None /\ pc'[w] \notin HoldingJob
         /\ \A j \in Jobs \ S : workerId[j] # w
  BY DEF Drop, Goto, TypeOK
<1>1. \A v \in Workers \ {w} : pc'[v] = pc[v] /\ job'[v] = job[v] /\ tries'[v] = tries[v]
  BY DEF Drop, Goto, TypeOK
<1>2. RoundsHoldJobs'
  <2>1. \A v \in Workers : pc'[v] \in HoldingJob => pc[v] \in HoldingJob
    BY <1>0, <1>1 DEF HoldingJob, TypeOK
  <2>2. attempts' = attempts
    BY DEF Failed
  <2> QED
    BY <1>0, <1>1, <2>1, <2>2 DEF RoundsHoldJobs, HoldingJob, TypeOK
<1>3. RowsAreWhole' /\ ResultIffDone' /\ DeadLettersAreExhausted'
  BY DEF RowsAreWhole, ResultIffDone, DeadLettersAreExhausted, Failed, TypeOK
<1>4. OneWorkerPerAttempt'
  <2>1. \A v \in Workers : job'[v] = None \/ (job'[v] = job[v] /\ tries'[v] = tries[v])
    BY <1>0, <1>1
  <2> QED
    BY <2>1 DEF OneWorkerPerAttempt
<1>5. ClaimsBelongToTheirWorker'
  BY <1>0, <1>1 DEF ClaimsBelongToTheirWorker, TypeOK, Failed, HoldingJob
<1> QED
  BY <1>2, <1>3, <1>4, <1>5

LEMMA FinalizeIInv ==
  ASSUME IInv, TypeOK', NEW w \in Workers, Finalize(w)
  PROVE  IInv'
<1>1. pc[w] = "finalizing" /\ Drop(w, "idle") /\ "idle" \notin HoldingJob /\ job[w] \in Jobs
  BY DEF Finalize, HoldingJob, IInv, RoundsHoldJobs
<1>2. CASE ~OwnsClaim(w)
  <2>1. \A j \in Jobs : workerId[j] # w
    BY <1>1, <1>2, OwnsAtMostItsJob
  <2> QED
    BY <1>1, <1>2, <2>1, EndIInv DEF Finalize
<1>3. CASE OwnsClaim(w)
  <2> DEFINE j == job[w]
  <2>1. Done(j) /\ status[j] = "running" /\ j \in Jobs
    BY <1>1, <1>3 DEF Finalize, OwnsClaim
  <2>2. \A i \in Jobs \ {j} : workerId[i] # w
    BY <1>1, OwnsAtMostItsJob
  <2> USE DEF IInv
  <2> HIDE DEF j
  <2>3. RoundsHoldJobs'
    BY <1>1, <2>1 DEF RoundsHoldJobs, Done, Drop, Goto, TypeOK
  <2>4. RowsAreWhole' /\ ResultIffDone' /\ DeadLettersAreExhausted'
    BY <2>1 DEF RowsAreWhole, ResultIffDone, DeadLettersAreExhausted, Done, TypeOK
  <2>5. OneWorkerPerAttempt'
    BY <1>1 DEF OneWorkerPerAttempt, TypeOK, Drop, Goto
  <2>6. ClaimsBelongToTheirWorker'
    BY <1>1, <2>1, <2>2 DEF ClaimsBelongToTheirWorker, TypeOK, Done, Drop, Goto, HoldingJob
  <2> QED
    BY <2>3, <2>4, <2>5, <2>6
<1> QED
  BY <1>2, <1>3

LEMMA RecordFailureIInv ==
  ASSUME IInv, TypeOK', NEW w \in Workers, RecordFailure(w)
  PROVE  IInv'
<1>1. PICK phase \in {"idle", "dead"} : Drop(w, phase)
  BY DEF RecordFailure
<1>2. phase \notin HoldingJob /\ job[w] \in Jobs /\ pc[w] # "dead"
  BY DEF RecordFailure, HoldingJob, IInv, RoundsHoldJobs
<1>3. CASE ~OwnsClaim(w)
  <2>1. \A j \in Jobs : workerId[j] # w
    BY <1>2, <1>3, OwnsAtMostItsJob
  <2> QED
    BY <1>1, <1>2, <1>3, <2>1, EndIInv DEF RecordFailure
<1>4. CASE OwnsClaim(w)
  <2> DEFINE S == {job[w]}
  <2>1. tries[w] = attempts[job[w]] /\ status[job[w]] = "running"
    BY <1>2, <1>4, OwnsAtMostItsJob DEF OwnsClaim
  <2>2. Failed(S, IF tries[w] >= MaxAttempts THEN S ELSE {})
    BY <1>4 DEF RecordFailure
  <2>3. (IF tries[w] >= MaxAttempts THEN S ELSE {}) = {j \in S : attempts[j] = MaxAttempts}
    BY <1>2, <2>1, AttemptsLimit DEF IInv, TypeOK
  <2>4. \A j \in Jobs \ S : workerId[j] # w
    BY <1>2, OwnsAtMostItsJob
  <2>5. S \in SUBSET Jobs /\ \A j \in S : status[j] = "running"
    BY <1>2, <2>1
  <2> QED
    BY <1>1, <1>2, <2>2, <2>3, <2>4, <2>5, FailedIInv
<1> QED
  BY <1>3, <1>4

LEMMA WorkerIInv ==
  ASSUME IInv, NEW w \in Workers, WorkerStep(w)
  PROVE  IInv'
<1>0. TypeOK'
  BY WorkerTypeOK DEF IInv
<1>1. CASE Start(w)
  BY <1>0, <1>1, MoveIInv DEF Start, Goto, HoldingJob
<1>2. CASE RecoverStaleJobs(w)
  <2>1. {j \in Stale : attempts[j] >= MaxAttempts} = {j \in Stale : attempts[j] = MaxAttempts}
    BY AttemptsLimit DEF Stale, IInv, TypeOK
  <2>2. Stale \in SUBSET Jobs /\ \A j \in Stale : status[j] = "running"
    BY DEF Stale
  <2> QED
    BY <1>0, <1>2, <2>1, <2>2, FailedIInv DEF RecoverStaleJobs, Goto
<1>3. CASE Claim(w)
  BY <1>0, <1>3, ClaimIInv
<1>4. CASE FindNothing(w)
  BY <1>0, <1>4, MoveIInv DEF FindNothing, Goto, HoldingJob
<1>5. CASE RenewLease(w)
  <2> USE DEF IInv
  <2>1. RoundsHoldJobs' /\ RowsAreWhole' /\ OneWorkerPerAttempt' /\ ResultIffDone'
        /\ DeadLettersAreExhausted'
    BY <1>5 DEF RenewLease, RoundsHoldJobs, RowsAreWhole, OneWorkerPerAttempt, ResultIffDone,
                DeadLettersAreExhausted, workers
  <2>2. ClaimsBelongToTheirWorker'
    BY <1>5, NoneIsNull DEF RenewLease, OwnsClaim, ClaimsBelongToTheirWorker, TypeOK, workers
  <2> QED
    BY <1>0, <2>1, <2>2
<1>6. CASE CancelToken(w)
  <2>1. UNCHANGED <<status, attempts, companyId, lease, workerId, results, deadLetters,
                    pc, job, tries>>
    BY <1>6 DEF CancelToken, tables
  <2> QED
    BY <1>0, <2>1 DEF IInv, RoundsHoldJobs, RowsAreWhole, OneWorkerPerAttempt, ResultIffDone,
         DeadLettersAreExhausted, ClaimsBelongToTheirWorker
<1>7. CASE FinishWork(w)
  BY <1>0, <1>7, MoveIInv DEF FinishWork, Goto, HoldingJob
<1>8. CASE AbortWork(w)
  BY <1>0, <1>8, MoveIInv DEF AbortWork, Goto, HoldingJob
<1>9. CASE FailWork(w)
  BY <1>0, <1>9, MoveIInv DEF FailWork, Goto, HoldingJob
<1>10. CASE MonitorHangs(w)
  BY <1>0, <1>10, MoveIInv DEF MonitorHangs, Goto, HoldingJob
<1>11. CASE Finalize(w)
  BY <1>0, <1>11, FinalizeIInv
<1>12. CASE Acknowledge(w)
  <2>1. CASE status[job[w]] = "cancelled"
    <3>1. pc[w] # "dead" /\ ~OwnsClaim(w) /\ Drop(w, "idle") /\ "idle" \notin HoldingJob
      BY <1>12, <2>1 DEF Acknowledge, OwnsClaim, HoldingJob
    <3>2. \A j \in Jobs : workerId[j] # w
      BY <3>1, OwnsAtMostItsJob
    <3> QED
      BY <1>0, <1>12, <3>1, <3>2, EndIInv DEF Acknowledge
  <2>2. CASE status[job[w]] # "cancelled"
    BY <1>0, <1>12, <2>2, MoveIInv DEF Acknowledge, Goto, HoldingJob
  <2> QED
    BY <2>1, <2>2
<1>13. CASE RecordFailure(w)
  BY <1>0, <1>13, RecordFailureIInv
<1>14. CASE Crash(w)
  BY <1>0, <1>14, EndIInv DEF Crash, HoldingJob
<1> QED
  BY <1>1, <1>2, <1>3, <1>4, <1>5, <1>6, <1>7, <1>8, <1>9, <1>10, <1>11, <1>12, <1>13, <1>14
  DEF WorkerStep

LEMMA NextIInv == IInv /\ [Next]_vars => IInv'
<1> SUFFICES ASSUME IInv, [Next]_vars PROVE IInv'
  OBVIOUS
<1>1. CASE ApiStep
  BY <1>1, ApiIInv DEF ApiStep
<1>2. CASE ClockStep
  BY <1>2, ClockIInv DEF ClockStep
<1>3. ASSUME NEW w \in Workers, WorkerStep(w) PROVE IInv'
  BY <1>3, WorkerIInv
<1>4. CASE UNCHANGED vars
  BY <1>4 DEF vars, IInv, TypeOK, RoundsHoldJobs, RowsAreWhole, ClaimsBelongToTheirWorker,
       OneWorkerPerAttempt, ResultIffDone, DeadLettersAreExhausted
<1> QED
  BY <1>1, <1>2, <1>3, <1>4 DEF Next

LEMMA AlwaysIInv == Spec => []IInv
BY InitIInv, NextIInv, PTL DEF Spec
-----------------------------------------------------------------------------
(* The invariants the runs check.                                          *)

\* Every variable keeps its type (JobQueue: all actions).
THEOREM TypeCorrect == Spec => []TypeOK
BY AlwaysIInv, PTL DEF IInv

\* The worker_id of a row names the worker that executes this very attempt,
\* or one that died (processor.py: every conditional UPDATE of a worker).
THEOREM ClaimsAreOwned == Spec => []ClaimsBelongToTheirWorker
BY AlwaysIInv, PTL DEF IInv

\* No two workers ever execute the same attempt of a job (_claim_next).
THEOREM AttemptsAreExclusive == Spec => []OneWorkerPerAttempt
BY AlwaysIInv, PTL DEF IInv

\* Results and done jobs are the same jobs (_finalize).
THEOREM ResultsAreAtomic == Spec => []ResultIffDone
BY AlwaysIInv, PTL DEF IInv

\* Dead letters and exhausted failures are the same jobs, and no queued job is
\* out of attempts (_record_failure, recover_stale_jobs, retry_job).
THEOREM DeadLettersAreExact == Spec => []DeadLettersAreExhausted
BY AlwaysIInv, PTL DEF IInv
-----------------------------------------------------------------------------
(* The charge.                                                             *)

LEMMA CompletedIsFinite ==
  ASSUME TypeOK, NEW c
  PROVE  IsFiniteSet(Completed(c)) /\ Cardinality(Completed(c)) \in Nat
<1>1. Completed(c) \subseteq Jobs
  BY DEF Completed, TypeOK
<1> QED
  BY <1>1, JobIdsAreNumbers, FS_Subset, FS_CardinalityType

LEMMA InitQuota == Init => QuotaPaysForResults
<1> SUFFICES ASSUME Init, NEW c \in Companies
             PROVE  quota[c] = InitialQuota - Cardinality(Completed(c))
  BY DEF QuotaPaysForResults
<1>1. Completed(c) = {}
  BY DEF Completed, Init
<1> QED
  BY <1>1, FS_EmptySet, QuotaIsANumber DEF Init

\* A step that finalizes nothing charges nobody.
LEMMA SameCharge ==
  ASSUME IInv, QuotaPaysForResults, UNCHANGED <<quota, results>>,
         \A j \in results : companyId'[j] = companyId[j] /\ attempts'[j] = attempts[j]
  PROVE  QuotaPaysForResults'
<1>1. \A c \in Companies : Completed(c)' = Completed(c)
  BY DEF Completed
<1> QED
  BY <1>1 DEF QuotaPaysForResults

LEMMA DoneCharges ==
  ASSUME IInv, QuotaPaysForResults, NEW j \in Jobs, status[j] = "running",
         attempts[j] > 0, Done(j)
  PROVE  QuotaPaysForResults'
<1> USE DEF IInv
<1>1. j \notin results /\ companyId[j] \in Companies
  BY DEF ResultIffDone, RowsAreWhole, TypeOK
<1>2. quota' = [quota EXCEPT ![companyId[j]] = @ - 1]
  BY <1>1 DEF Done
<1>3. SUFFICES ASSUME NEW c \in Companies
               PROVE  quota'[c] = InitialQuota - Cardinality(Completed(c)')
  BY DEF QuotaPaysForResults
<1>4. /\ IsFiniteSet(Completed(c)) /\ Cardinality(Completed(c)) \in Nat
      /\ quota[c] = InitialQuota - Cardinality(Completed(c))
  BY CompletedIsFinite DEF QuotaPaysForResults
<1>5. CASE c = companyId[j]
  <2>1. Completed(c)' = Completed(c) \cup {j} /\ j \notin Completed(c)
    BY <1>1, <1>5 DEF Completed, Done
  <2>2. Cardinality(Completed(c)') = Cardinality(Completed(c)) + 1
    BY <1>4, <2>1, FS_AddElement
  <2> QED
    BY <1>2, <1>4, <1>5, <2>2, QuotaIsANumber DEF TypeOK
<1>6. CASE c # companyId[j]
  <2>1. Completed(c)' = Completed(c)
    BY <1>6 DEF Completed, Done
  <2> QED
    BY <1>2, <1>4, <1>6, <2>1 DEF TypeOK
<1> QED
  BY <1>5, <1>6

LEMMA NextQuota == IInv /\ QuotaPaysForResults /\ [Next]_vars => QuotaPaysForResults'
<1> SUFFICES ASSUME IInv, QuotaPaysForResults, [Next]_vars PROVE QuotaPaysForResults'
  OBVIOUS
<1> USE DEF IInv
<1>1. CASE ApiStep
  <2>1. PICK c \in Companies, j \in Jobs : CreateJob(c, j) \/ CancelJob(c, j) \/ RetryJob(c, j)
    BY <1>1 DEF ApiStep
  <2> QED
    BY <2>1, SameCharge DEF CreateJob, CancelJob, RetryJob, ResultIffDone, TypeOK
<1>2. CASE ClockStep
  BY <1>2, SameCharge DEF ClockStep, LeaseExpires, BackoffEnds
<1>3. ASSUME NEW w \in Workers, WorkerStep(w) PROVE QuotaPaysForResults'
  <2>1. CASE Claim(w)
    <3>1. PICK j \in Claimable : attempts' = [attempts EXCEPT ![j] = @ + 1]
      BY <2>1 DEF Claim
    <3>2. j \notin results
      BY <3>1 DEF Claimable, ResultIffDone
    <3> QED
      BY <2>1, <3>1, <3>2, SameCharge DEF Claim, TypeOK
  <2>2. CASE Finalize(w) /\ OwnsClaim(w)
    <3>1. job[w] \in Jobs /\ tries[w] > 0 /\ status[job[w]] = "running"
          /\ workerId[job[w]] = w /\ pc[w] # "dead" /\ Done(job[w])
      BY <2>2 DEF Finalize, OwnsClaim, RoundsHoldJobs, HoldingJob
    <3>2. tries[w] = attempts[job[w]]
      BY <3>1, OwnsAtMostItsJob
    <3> QED
      BY <3>1, <3>2, DoneCharges
  <2>3. CASE Finalize(w) /\ ~OwnsClaim(w)
    BY <2>3, SameCharge DEF Finalize, tables
  <2>4. CASE RecoverStaleJobs(w) \/ RecordFailure(w)
    BY <2>4, SameCharge DEF RecoverStaleJobs, RecordFailure, Failed, tables
  <2>5. CASE Start(w) \/ FindNothing(w) \/ RenewLease(w) \/ CancelToken(w) \/ FinishWork(w)
             \/ AbortWork(w) \/ FailWork(w) \/ MonitorHangs(w) \/ Acknowledge(w) \/ Crash(w)
    BY <2>5, SameCharge DEF Start, FindNothing, RenewLease, CancelToken, FinishWork, AbortWork,
         FailWork, MonitorHangs, Acknowledge, Crash, tables
  <2> QED
    BY <1>3, <2>1, <2>2, <2>3, <2>4, <2>5 DEF WorkerStep
<1>4. CASE UNCHANGED vars
  BY <1>4, SameCharge DEF vars
<1> QED
  BY <1>1, <1>2, <1>3, <1>4 DEF Next

\* A company is charged once per job a worker completed, and never otherwise
\* (_finalize).
THEOREM ChargesAreExact == Spec => []QuotaPaysForResults
BY InitQuota, NextQuota, AlwaysIInv, PTL DEF Spec
-----------------------------------------------------------------------------
(* The audit trail.                                                        *)

Occurrences(s, event) == Cardinality({i \in DOMAIN s : s[i] = event})

LEMMA EmptyCount == \A event : Occurrences(<<>>, event) = 0
<1>1. \A event : {i \in DOMAIN <<>> : <<>>[i] = event} = {}
  OBVIOUS
<1> QED
  BY <1>1, FS_EmptySet DEF Occurrences

\* An event that is appended is one more of its kind and none of another.
LEMMA AppendCount ==
  ASSUME NEW s \in Seq(Events), NEW e \in Events, NEW event
  PROVE  /\ Occurrences(s, event) \in Nat
         /\ Occurrences(Append(s, e), event) =
              IF e = event THEN Occurrences(s, event) + 1 ELSE Occurrences(s, event)
<1> DEFINE At(t) == {i \in DOMAIN t : t[i] = event}
<1>1. /\ DOMAIN s = 1..Len(s) /\ Len(s) \in Nat
      /\ DOMAIN Append(s, e) = 1..(Len(s) + 1)
      /\ Append(s, e)[Len(s) + 1] = e
      /\ \A i \in 1..Len(s) : Append(s, e)[i] = s[i]
  OBVIOUS
<1>2. IsFiniteSet(At(s)) /\ Cardinality(At(s)) \in Nat
  <2>1. At(s) \subseteq 1..Len(s) /\ IsFiniteSet(1..Len(s))
    BY <1>1, FS_Interval
  <2> QED
    BY <2>1, FS_Subset, FS_CardinalityType
<1>3. CASE e = event
  <2>1. At(Append(s, e)) = At(s) \cup {Len(s) + 1} /\ Len(s) + 1 \notin At(s)
    BY <1>1, <1>3
  <2>2. Cardinality(At(Append(s, e))) = Cardinality(At(s)) + 1
    BY <1>2, <2>1, FS_AddElement
  <2> QED
    BY <1>2, <1>3, <2>2 DEF Occurrences
<1>4. CASE e # event
  <2>1. At(Append(s, e)) = At(s)
    BY <1>1, <1>4
  <2> QED
    BY <1>2, <1>4, <2>1 DEF Occurrences
<1> QED
  BY <1>3, <1>4

\* What AuditExplainsTheRow says of a row with status st, n attempts and trail s:
\* how many of its attempts are open, how many failures were not retried, and
\* which event came last.
Open(n, s) == n - Occurrences(s, "failed") - Occurrences(s, "completed")
Unretried(s) == Occurrences(s, "failed") - Occurrences(s, "retry_requested")
LastIs(st, s) == s[Len(s)] \in LastEventOf[st]

Counted(st, n, s) ==
  /\ st = "running" => Open(n, s) = 1
  /\ st = "cancelled" => Open(n, s) = 0 \/ Open(n, s) = 1
  /\ st # "running" /\ st # "cancelled" => Open(n, s) = 0
  /\ st = "failed" => Unretried(s) = 1
  /\ st # "failed" => Unretried(s) = 0

Explained(st, n, s) == st # "absent" => Counted(st, n, s) /\ LastIs(st, s)

AuditIsExplained ==
  \A j \in Jobs \ Seeded :
    /\ Explained(status[j], attempts[j], audit[j])
    /\ status[j] = "absent" => audit[j] = <<>>

LEMMA ExplanationIsTheInvariant == AuditIsExplained => AuditExplainsTheRow
BY DEF AuditIsExplained, AuditExplainsTheRow, Explained, Counted, LastIs, Open, Unretried, Count,
       Occurrences

\* The ways a row changes together with its trail.
Moves(j, from, to, more, event) ==
  /\ status[j] \in from /\ status'[j] = to
  /\ attempts'[j] = attempts[j] + more
  /\ audit'[j] = Append(audit[j], event)
Begins(j) ==
  /\ status[j] = "queued" /\ status'[j] = "running"
  /\ attempts'[j] = attempts[j] + 1 /\ audit'[j] = audit[j]
Rests(j) == status'[j] = status[j] /\ attempts'[j] = attempts[j] /\ audit'[j] = audit[j]

RowMoves(j) ==
  \/ Rests(j) \/ Begins(j)
  \/ Moves(j, {"absent"}, "queued", 0, "submitted")
  \/ Moves(j, {"queued", "running"}, "cancelled", 0, "cancelled")
  \/ Moves(j, {"failed"}, "queued", 0, "retry_requested")
  \/ Moves(j, {"running"}, "failed", 0, "failed")
  \/ Moves(j, {"running"}, "done", 0, "completed")

LEMMA NextMovesRows ==
  ASSUME IInv, [Next]_vars, NEW j \in Jobs
  PROVE  RowMoves(j)
<1> USE DEF IInv, TypeOK, RowMoves, Rests
<1>1. CASE ApiStep
  <2>1. PICK c \in Companies, i \in Jobs : CreateJob(c, i) \/ CancelJob(c, i) \/ RetryJob(c, i)
    BY <1>1 DEF ApiStep
  <2>2. CASE CreateJob(c, i)
    BY <2>2 DEF CreateJob, Recorded, Moves
  <2>3. CASE CancelJob(c, i)
    BY <2>3 DEF CancelJob, Recorded, Moves
  <2>4. CASE RetryJob(c, i)
    BY <2>4 DEF RetryJob, Recorded, Moves
  <2> QED
    BY <2>1, <2>2, <2>3, <2>4
<1>2. CASE ClockStep
  BY <1>2 DEF ClockStep, LeaseExpires, BackoffEnds
<1>3. ASSUME NEW w \in Workers, WorkerStep(w) PROVE RowMoves(j)
  <2>1. CASE RecoverStaleJobs(w)
    BY <2>1 DEF RecoverStaleJobs, Failed, Stale, Recorded, Moves
  <2>2. CASE Claim(w)
    BY <2>2 DEF Claim, Claimable, Begins
  <2>3. CASE Finalize(w)
    <3>1. CASE OwnsClaim(w)
      <4>1. /\ status[job[w]] = "running" /\ status' = [status EXCEPT ![job[w]] = "done"]
            /\ audit' = Recorded({job[w]}, "completed") /\ UNCHANGED attempts
        BY <2>3, <3>1 DEF Finalize, Done, OwnsClaim
      <4> QED
        BY <4>1 DEF Recorded, Moves
    <3>2. CASE ~OwnsClaim(w)
      BY <2>3, <3>2 DEF Finalize, tables
    <3> QED
      BY <3>1, <3>2
  <2>4. CASE RecordFailure(w)
    <3>1. CASE OwnsClaim(w)
      BY <2>4, <3>1 DEF RecordFailure, Failed, OwnsClaim, Recorded, Moves
    <3>2. CASE ~OwnsClaim(w)
      BY <2>4, <3>2 DEF RecordFailure, tables
    <3> QED
      BY <3>1, <3>2
  <2>5. CASE Start(w) \/ FindNothing(w) \/ RenewLease(w) \/ CancelToken(w) \/ FinishWork(w)
             \/ AbortWork(w) \/ FailWork(w) \/ MonitorHangs(w) \/ Acknowledge(w) \/ Crash(w)
    BY <2>5 DEF Start, FindNothing, RenewLease, CancelToken, FinishWork, AbortWork,
         FailWork, MonitorHangs, Acknowledge, Crash, tables
  <2> QED
    BY <1>3, <2>1, <2>2, <2>3, <2>4, <2>5 DEF WorkerStep
<1>4. CASE UNCHANGED vars
  BY <1>4 DEF vars
<1> QED
  BY <1>1, <1>2, <1>3, <1>4 DEF Next

LEMMA RowMovesExplain ==
  ASSUME IInv, NEW j \in Jobs, RowMoves(j),
         Explained(status[j], attempts[j], audit[j]), status[j] = "absent" => audit[j] = <<>>
  PROVE  /\ Explained(status'[j], attempts'[j], audit'[j])
         /\ status'[j] = "absent" => audit'[j] = <<>>
<1> DEFINE s == audit[j]
<1>1. /\ s \in Seq(Events) /\ attempts[j] \in Nat /\ status[j] \in Statuses
      /\ status[j] = "absent" => attempts[j] = 0
  BY AttemptsLimit DEF IInv, TypeOK, RowsAreWhole
<1>2. \A e \in Events : Append(s, e)[Len(Append(s, e))] = e
  BY <1>1
<1>3. \A e, event \in Events :
        /\ Occurrences(s, event) \in Nat
        /\ Occurrences(Append(s, e), event) =
             IF e = event THEN Occurrences(s, event) + 1 ELSE Occurrences(s, event)
  BY <1>1, AppendCount
<1>4. /\ Occurrences(s, "failed") \in Nat /\ Occurrences(s, "completed") \in Nat
      /\ Occurrences(s, "retry_requested") \in Nat
  BY <1>3 DEF Events
<1> HIDE DEF s
<1>5. CASE Rests(j)
  BY <1>5 DEF Rests, s
<1>6. CASE Begins(j)
  <2>1. LastIs("running", s)
    BY <1>6 DEF Begins, Explained, LastIs, LastEventOf, s
  <2>2. Open(attempts[j], s) = 0 /\ Unretried(s) = 0
    BY <1>6 DEF Begins, Explained, Counted, s
  <2>3. Open(attempts[j] + 1, s) = 1
    BY <1>1, <1>4, <2>2 DEF Open
  <2>4. Counted("running", attempts[j] + 1, s)
    BY <2>2, <2>3 DEF Counted
  <2> QED
    BY <1>6, <2>1, <2>4 DEF Begins, Explained, s
<1>7. CASE Moves(j, {"absent"}, "queued", 0, "submitted")
  <2>1. /\ audit'[j] = Append(s, "submitted") /\ "submitted" \in Events
        /\ status[j] \in {"absent"} /\ status'[j] = "queued" /\ attempts'[j] = attempts[j]
    BY <1>1, <1>7 DEF Moves, Events, s
  <2>2. LastIs(status'[j], audit'[j])
    BY <1>2, <2>1 DEF LastIs, LastEventOf
  <2>3. Open(attempts[j], s) = 0 /\ Unretried(s) = 0
    <3>1. attempts[j] = 0 /\ \A event : Occurrences(s, event) = 0
      BY <1>1, <2>1, EmptyCount DEF s
    <3> QED
      BY <3>1 DEF Open, Unretried
  <2>4. /\ Occurrences(audit'[j], "failed") = Occurrences(s, "failed")
        /\ Occurrences(audit'[j], "completed") = Occurrences(s, "completed")
        /\ Occurrences(audit'[j], "retry_requested") = Occurrences(s, "retry_requested")
    BY <1>3, <2>1 DEF Events
  <2>5. Open(attempts'[j], audit'[j]) = 0 /\ Unretried(audit'[j]) = 0
    BY <1>1, <1>4, <2>1, <2>3, <2>4 DEF Open, Unretried
  <2>6. Counted(status'[j], attempts'[j], audit'[j])
    BY <2>1, <2>5 DEF Counted
  <2> QED
    BY <2>1, <2>2, <2>6 DEF Explained
<1>8. CASE Moves(j, {"queued", "running"}, "cancelled", 0, "cancelled")
  <2>1. /\ audit'[j] = Append(s, "cancelled") /\ "cancelled" \in Events
        /\ status[j] \in {"queued", "running"} /\ status'[j] = "cancelled" /\ attempts'[j] = attempts[j]
    BY <1>1, <1>8 DEF Moves, Events, s
  <2>2. LastIs(status'[j], audit'[j])
    BY <1>2, <2>1 DEF LastIs, LastEventOf
  <2>3. Open(attempts[j], s) \in {0, 1} /\ Unretried(s) = 0
    BY <2>1 DEF Explained, Counted, s
  <2>4. /\ Occurrences(audit'[j], "failed") = Occurrences(s, "failed")
        /\ Occurrences(audit'[j], "completed") = Occurrences(s, "completed")
        /\ Occurrences(audit'[j], "retry_requested") = Occurrences(s, "retry_requested")
    BY <1>3, <2>1 DEF Events
  <2>5. Open(attempts'[j], audit'[j]) \in {0, 1} /\ Unretried(audit'[j]) = 0
    BY <1>1, <1>4, <2>1, <2>3, <2>4 DEF Open, Unretried
  <2>6. Counted(status'[j], attempts'[j], audit'[j])
    BY <2>1, <2>5 DEF Counted
  <2> QED
    BY <2>1, <2>2, <2>6 DEF Explained
<1>9. CASE Moves(j, {"failed"}, "queued", 0, "retry_requested")
  <2>1. /\ audit'[j] = Append(s, "retry_requested") /\ "retry_requested" \in Events
        /\ status[j] \in {"failed"} /\ status'[j] = "queued" /\ attempts'[j] = attempts[j]
    BY <1>1, <1>9 DEF Moves, Events, s
  <2>2. LastIs(status'[j], audit'[j])
    BY <1>2, <2>1 DEF LastIs, LastEventOf
  <2>3. Open(attempts[j], s) = 0 /\ Unretried(s) = 1
    BY <2>1 DEF Explained, Counted, s
  <2>4. /\ Occurrences(audit'[j], "failed") = Occurrences(s, "failed")
        /\ Occurrences(audit'[j], "completed") = Occurrences(s, "completed")
        /\ Occurrences(audit'[j], "retry_requested") = Occurrences(s, "retry_requested") + 1
    BY <1>3, <2>1 DEF Events
  <2>5. Open(attempts'[j], audit'[j]) = 0 /\ Unretried(audit'[j]) = 0
    BY <1>1, <1>4, <2>1, <2>3, <2>4 DEF Open, Unretried
  <2>6. Counted(status'[j], attempts'[j], audit'[j])
    BY <2>1, <2>5 DEF Counted
  <2> QED
    BY <2>1, <2>2, <2>6 DEF Explained
<1>10. CASE Moves(j, {"running"}, "failed", 0, "failed")
  <2>1. /\ audit'[j] = Append(s, "failed") /\ "failed" \in Events
        /\ status[j] \in {"running"} /\ status'[j] = "failed" /\ attempts'[j] = attempts[j]
    BY <1>1, <1>10 DEF Moves, Events, s
  <2>2. LastIs(status'[j], audit'[j])
    BY <1>2, <2>1 DEF LastIs, LastEventOf
  <2>3. Open(attempts[j], s) = 1 /\ Unretried(s) = 0
    BY <2>1 DEF Explained, Counted, s
  <2>4. /\ Occurrences(audit'[j], "failed") = Occurrences(s, "failed") + 1
        /\ Occurrences(audit'[j], "completed") = Occurrences(s, "completed")
        /\ Occurrences(audit'[j], "retry_requested") = Occurrences(s, "retry_requested")
    BY <1>3, <2>1 DEF Events
  <2>5. Open(attempts'[j], audit'[j]) = 0 /\ Unretried(audit'[j]) = 1
    BY <1>1, <1>4, <2>1, <2>3, <2>4 DEF Open, Unretried
  <2>6. Counted(status'[j], attempts'[j], audit'[j])
    BY <2>1, <2>5 DEF Counted
  <2> QED
    BY <2>1, <2>2, <2>6 DEF Explained
<1>11. CASE Moves(j, {"running"}, "done", 0, "completed")
  <2>1. /\ audit'[j] = Append(s, "completed") /\ "completed" \in Events
        /\ status[j] \in {"running"} /\ status'[j] = "done" /\ attempts'[j] = attempts[j]
    BY <1>1, <1>11 DEF Moves, Events, s
  <2>2. LastIs(status'[j], audit'[j])
    BY <1>2, <2>1 DEF LastIs, LastEventOf
  <2>3. Open(attempts[j], s) = 1 /\ Unretried(s) = 0
    BY <2>1 DEF Explained, Counted, s
  <2>4. /\ Occurrences(audit'[j], "failed") = Occurrences(s, "failed")
        /\ Occurrences(audit'[j], "completed") = Occurrences(s, "completed") + 1
        /\ Occurrences(audit'[j], "retry_requested") = Occurrences(s, "retry_requested")
    BY <1>3, <2>1 DEF Events
  <2>5. Open(attempts'[j], audit'[j]) = 0 /\ Unretried(audit'[j]) = 0
    BY <1>1, <1>4, <2>1, <2>3, <2>4 DEF Open, Unretried
  <2>6. Counted(status'[j], attempts'[j], audit'[j])
    BY <2>1, <2>5 DEF Counted
  <2> QED
    BY <2>1, <2>2, <2>6 DEF Explained
<1> QED
  BY <1>5, <1>6, <1>7, <1>8, <1>9, <1>10, <1>11 DEF RowMoves

LEMMA InitAudit == Init => AuditIsExplained
BY DEF Init, AuditIsExplained, Explained

LEMMA NextAudit == IInv /\ AuditIsExplained /\ [Next]_vars => AuditIsExplained'
BY NextMovesRows, RowMovesExplain DEF AuditIsExplained

\* The audit trail of a submitted job accounts for each of its attempts
\* (processor.py and service.py: _record_audit_event).
THEOREM AuditIsComplete == Spec => []AuditExplainsTheRow
BY InitAudit, NextAudit, AlwaysIInv, ExplanationIsTheInvariant, PTL DEF Spec
-----------------------------------------------------------------------------
(* What a step may never do.                                               *)

\* The rows a step may touch: a running or queued job, a failed one with
\* attempts left, or no row at all.
LEMMA FinalStep ==
  ASSUME IInv, [Next]_vars, NEW j \in Jobs, Final(j)
  PROVE  /\ status'[j] = status[j] /\ attempts'[j] = attempts[j]
         /\ j \in deadLetters => j \in deadLetters'
<1> USE DEF IInv
<1>0. /\ status[j] \notin {"absent", "queued", "running"}
      /\ status[j] = "failed" => attempts[j] = MaxAttempts
  BY DEF Final, DeadLettersAreExhausted
<1>1. CASE ApiStep
  BY <1>0, <1>1, AttemptsLimit DEF ApiStep, CreateJob, CancelJob, RetryJob, TypeOK
<1>2. CASE ClockStep
  BY <1>2 DEF ClockStep, LeaseExpires, BackoffEnds
<1>3. ASSUME NEW w \in Workers, WorkerStep(w)
      PROVE  /\ status'[j] = status[j] /\ attempts'[j] = attempts[j]
             /\ j \in deadLetters => j \in deadLetters'
  <2>1. CASE RecoverStaleJobs(w)
    BY <1>0, <2>1 DEF RecoverStaleJobs, Failed, Stale, TypeOK
  <2>2. CASE Claim(w)
    BY <1>0, <2>2 DEF Claim, Claimable, TypeOK
  <2>3. CASE Finalize(w)
    BY <1>0, <2>3 DEF Finalize, Done, OwnsClaim, tables, TypeOK
  <2>4. CASE RecordFailure(w)
    BY <1>0, <2>4 DEF RecordFailure, Failed, OwnsClaim, tables, TypeOK
  <2>5. CASE Start(w) \/ FindNothing(w) \/ RenewLease(w) \/ CancelToken(w) \/ FinishWork(w)
             \/ AbortWork(w) \/ FailWork(w) \/ MonitorHangs(w) \/ Acknowledge(w) \/ Crash(w)
    BY <2>5 DEF Start, FindNothing, RenewLease, CancelToken, FinishWork, AbortWork,
         FailWork, MonitorHangs, Acknowledge, Crash, tables
  <2> QED
    BY <1>3, <2>1, <2>2, <2>3, <2>4, <2>5 DEF WorkerStep
<1>4. CASE UNCHANGED vars
  BY <1>4 DEF vars
<1> QED
  BY <1>1, <1>2, <1>3, <1>4 DEF Next

\* done, cancelled and dead-lettered jobs never change again, whatever stale
\* worker comes late (the status tests of every UPDATE).
THEOREM FinalStatesStay == Spec => FinalStatesAreKept
<1>1. IInv /\ [Next]_vars =>
        [\A j \in Jobs : Final(j) =>
           /\ status'[j] = status[j] /\ attempts'[j] = attempts[j]
           /\ (j \in deadLetters => j \in deadLetters')]_vars
  BY FinalStep
<1> QED
  BY <1>1, AlwaysIInv, PTL DEF Spec, FinalStatesAreKept

LEMMA LiveClaimStep ==
  ASSUME IInv, Next, NEW j \in Jobs,
         status[j] = "running", lease[j] = "live", status'[j] # "running"
  PROVE  \/ status'[j] = "cancelled"
         \/ \E w \in Workers : workerId[j] = w /\ job[w] = j /\ pc[w] # pc'[w]
<1> USE DEF IInv
<1>1. CASE ApiStep
  BY <1>1 DEF ApiStep, CreateJob, CancelJob, RetryJob, TypeOK
<1>2. CASE ClockStep
  BY <1>2 DEF ClockStep, LeaseExpires, BackoffEnds
<1>3. ASSUME NEW w \in Workers, WorkerStep(w)
      PROVE  workerId[j] = w /\ job[w] = j /\ pc[w] # pc'[w]
  <2>1. CASE RecoverStaleJobs(w)
    BY <2>1 DEF RecoverStaleJobs, Failed, Stale, TypeOK
  <2>2. CASE Claim(w)
    BY <2>2 DEF Claim, Claimable, TypeOK
  <2>3. CASE Finalize(w)
    <3>1. CASE ~OwnsClaim(w)
      BY <2>3, <3>1 DEF Finalize, tables
    <3>2. CASE OwnsClaim(w)
      BY <2>3, <3>2 DEF Finalize, Done, OwnsClaim, Drop, Goto, TypeOK
    <3> QED
      BY <3>1, <3>2
  <2>4. CASE RecordFailure(w)
    <3>1. CASE ~OwnsClaim(w)
      BY <2>4, <3>1 DEF RecordFailure, tables
    <3>2. CASE OwnsClaim(w)
      BY <2>4, <3>2 DEF RecordFailure, Failed, OwnsClaim, Drop, Goto, TypeOK
    <3> QED
      BY <3>1, <3>2
  <2>5. CASE Start(w) \/ FindNothing(w) \/ RenewLease(w) \/ CancelToken(w) \/ FinishWork(w)
             \/ AbortWork(w) \/ FailWork(w) \/ MonitorHangs(w) \/ Acknowledge(w) \/ Crash(w)
    BY <2>5 DEF Start, FindNothing, RenewLease, CancelToken, FinishWork, AbortWork,
         FailWork, MonitorHangs, Acknowledge, Crash, tables
  <2> QED
    BY <1>3, <2>1, <2>2, <2>3, <2>4, <2>5 DEF WorkerStep
<1> QED
  BY <1>1, <1>2, <1>3 DEF Next

\* A live lease protects a run from every worker but its own
\* (recover_stale_jobs, _finalize, _record_failure).
THEOREM LiveClaimsAreSafe == Spec => LiveClaimsAreNotStolen
<1>1. IInv /\ [Next]_vars =>
        [\A j \in Jobs :
           status[j] = "running" /\ lease[j] = "live" /\ status'[j] # "running" =>
             \/ status'[j] = "cancelled"
             \/ \E w \in Workers : /\ workerId[j] = w /\ job[w] = j
                                   /\ pc[w] # pc'[w]]_vars
  BY LiveClaimStep
<1> QED
  BY <1>1, AlwaysIInv, PTL DEF Spec, LiveClaimsAreNotStolen
-----------------------------------------------------------------------------
(* The queue implements the life cycle.                                    *)

LEMMA LifecycleInit == Init => Lifecycle!Init
BY DEF Init, Lifecycle!Init

LEMMA LifecycleApi ==
  ASSUME TypeOK, NEW c \in Companies, NEW j \in Jobs,
         CreateJob(c, j) \/ CancelJob(c, j) \/ RetryJob(c, j)
  PROVE  Lifecycle!Submit(j) \/ Lifecycle!Cancel(j) \/ Lifecycle!Retry(j)
<1>1. CASE CreateJob(c, j)
  BY <1>1 DEF TypeOK, CreateJob, Lifecycle!Submit, Lifecycle!Move
<1>2. CASE CancelJob(c, j)
  BY <1>2 DEF TypeOK, CancelJob, Lifecycle!Cancel, Lifecycle!Move
<1>3. CASE RetryJob(c, j)
  BY <1>3 DEF TypeOK, RetryJob, Lifecycle!Retry, Lifecycle!Move
<1> QED
  BY <1>1, <1>2, <1>3

LEMMA LifecycleFail ==
  ASSUME TypeOK, NEW S \in SUBSET Jobs, \A j \in S : status[j] = "running",
         Failed(S, {j \in S : attempts[j] = MaxAttempts})
  PROVE  Lifecycle!Fail(S)
BY DEF TypeOK, Failed, Lifecycle!Fail, Lifecycle!Move

LEMMA LifecycleWorker ==
  ASSUME IInv, NEW w \in Workers, WorkerStep(w)
  PROVE  [Lifecycle!Next]_(Lifecycle!lifecycleVars)
<1> USE DEF IInv
<1>1. CASE Claim(w)
  <2>1. PICK j \in Claimable : /\ status' = [status EXCEPT ![j] = "running"]
                               /\ attempts' = [attempts EXCEPT ![j] = @ + 1]
    BY <1>1 DEF Claim
  <2>2. Lifecycle!Begin(j) /\ j \in Jobs
    BY <1>1, <2>1 DEF Claim, Claimable, TypeOK, Lifecycle!Begin, Lifecycle!Move
  <2> QED
    BY <2>2 DEF Lifecycle!Next
<1>2. CASE RecoverStaleJobs(w)
  <2>1. {j \in Stale : attempts[j] >= MaxAttempts} = {j \in Stale : attempts[j] = MaxAttempts}
    BY AttemptsLimit DEF Stale, TypeOK
  <2>2. Stale \in SUBSET Jobs /\ \A j \in Stale : status[j] = "running"
    BY DEF Stale
  <2> QED
    BY <1>2, <2>1, <2>2, LifecycleFail DEF RecoverStaleJobs, Lifecycle!Next
<1>3. CASE Finalize(w) /\ OwnsClaim(w)
  <2>1. job[w] \in Jobs /\ status[job[w]] = "running" /\ Done(job[w])
    BY <1>3 DEF Finalize, OwnsClaim, RoundsHoldJobs, HoldingJob
  <2>2. Lifecycle!Complete(job[w])
    BY <2>1 DEF Done, ResultIffDone, TypeOK, Lifecycle!Complete, Lifecycle!Move
  <2> QED
    BY <2>1, <2>2 DEF Lifecycle!Next
<1>4. CASE RecordFailure(w) /\ OwnsClaim(w)
  <2> DEFINE S == {job[w]}
  <2>1. job[w] \in Jobs /\ pc[w] # "dead" /\ status[job[w]] = "running" /\ workerId[job[w]] = w
    BY <1>4 DEF RecordFailure, OwnsClaim, RoundsHoldJobs, HoldingJob
  <2>2. tries[w] = attempts[job[w]]
    BY <2>1, OwnsAtMostItsJob
  <2>3. (IF tries[w] >= MaxAttempts THEN S ELSE {}) = {j \in S : attempts[j] = MaxAttempts}
    BY <2>1, <2>2, AttemptsLimit DEF TypeOK
  <2>4. Failed(S, {j \in S : attempts[j] = MaxAttempts})
    BY <1>4, <2>3 DEF RecordFailure
  <2>5. Lifecycle!Fail(S) /\ S \in SUBSET Jobs
    BY <2>1, <2>4, LifecycleFail
  <2> QED
    BY <2>5 DEF Lifecycle!Next
<1>5. CASE (Finalize(w) \/ RecordFailure(w)) /\ ~OwnsClaim(w)
  BY <1>5 DEF Finalize, RecordFailure, tables, Lifecycle!lifecycleVars
<1>6. CASE Start(w) \/ FindNothing(w) \/ RenewLease(w) \/ CancelToken(w) \/ FinishWork(w)
           \/ AbortWork(w) \/ FailWork(w) \/ MonitorHangs(w) \/ Acknowledge(w) \/ Crash(w)
  BY <1>6 DEF Start, FindNothing, RenewLease, CancelToken, FinishWork, AbortWork,
       FailWork, MonitorHangs, Acknowledge, Crash, tables, Lifecycle!lifecycleVars
<1> QED
  BY <1>1, <1>2, <1>3, <1>4, <1>5, <1>6 DEF WorkerStep

LEMMA LifecycleNext == IInv /\ [Next]_vars => [Lifecycle!Next]_(Lifecycle!lifecycleVars)
<1> SUFFICES ASSUME IInv, [Next]_vars PROVE [Lifecycle!Next]_(Lifecycle!lifecycleVars)
  OBVIOUS
<1>1. CASE ApiStep
  BY <1>1, LifecycleApi DEF ApiStep, IInv, Lifecycle!Next
<1>2. CASE ClockStep
  BY <1>2 DEF ClockStep, LeaseExpires, BackoffEnds, Lifecycle!lifecycleVars
<1>3. ASSUME NEW w \in Workers, WorkerStep(w) PROVE [Lifecycle!Next]_(Lifecycle!lifecycleVars)
  BY <1>3, LifecycleWorker
<1>4. CASE UNCHANGED vars
  BY <1>4 DEF vars, Lifecycle!lifecycleVars
<1> QED
  BY <1>1, <1>2, <1>3, <1>4 DEF Next

\* With its leases, workers and tokens hidden, the queue is a JobLifecycle
\* (process_next; create_job, cancel_job, retry_job).
THEOREM QueueImplementsLifecycle == Spec => ImplementsLifecycle
BY LifecycleInit, LifecycleNext, AlwaysIInv, PTL DEF Spec, ImplementsLifecycle, Lifecycle!Spec
-----------------------------------------------------------------------------
(* Rounds.                                                                 *)

\* What others do to a round: they cancel its job, or take it over.
LEMMA OthersGoOn ==
  ASSUME NEW w \in Workers, NEW j \in Jobs, job[w] = j,
         UNCHANGED <<pc[w], job[w], token[w]>>,
         RowSeen(w) = "cancelled" => RowSeen(w)' = "cancelled",
         RowSeen(w) = "lost" => RowSeen(w)' # "running"
  PROVE  GoesOnAsRound(w, j)
<1> DEFINE R == Round(w, j, "lost", FALSE)!Next
           v == Round(w, j, "lost", FALSE)!roundVars
<1>1. RowSeen(w) \in {"running", "lost", "cancelled"} /\ RowSeen(w)' \in {"running", "lost", "cancelled"}
  BY DEF RowSeen
<1>2. CASE RowSeen(w)' = RowSeen(w)
  BY <1>2 DEF GoesOnAsRound, Round!roundVars
<1>3. CASE RowSeen(w) = "running" /\ RowSeen(w)' = "lost"
  <2>1. Round(w, j, "lost", FALSE)!TakeOver
    BY <1>3 DEF Round!TakeOver
  <2> QED
    BY <2>1 DEF GoesOnAsRound, Round!Next
<1>4. CASE RowSeen(w) # "cancelled" /\ RowSeen(w)' = "cancelled"
  <2>1. Round(w, j, "lost", FALSE)!Cancel
    BY <1>1, <1>4 DEF Round!Cancel
  <2> QED
    BY <2>1 DEF GoesOnAsRound, Round!Next
<1> QED
  BY <1>1, <1>2, <1>3, <1>4

\* What its worker does in a round, without touching a row.
LEMMA WorkerGoesOn ==
  ASSUME IInv, NEW w \in Workers, NEW j \in Jobs, job[w] = j,
         \/ CancelToken(w) \/ FinishWork(w) \/ AbortWork(w) \/ FailWork(w) \/ MonitorHangs(w)
         \/ (Acknowledge(w) /\ status[j] # "cancelled")
  PROVE  GoesOnAsRound(w, j)
<1>1. job' = job /\ RowSeen(w)' = RowSeen(w) /\ pc \in [Workers -> Phases] /\ token \in [Workers -> BOOLEAN]
  BY DEF CancelToken, FinishWork, AbortWork, FailWork, MonitorHangs, Acknowledge, RowSeen, OwnsClaim,
     tables, IInv, TypeOK
<1>2. CASE CancelToken(w)
  <2>1. Round(w, j, "lost", FALSE)!CancelToken
    BY <1>1, <1>2 DEF CancelToken, Round!CancelToken
  <2> QED
    BY <2>1 DEF GoesOnAsRound, Round!Next
<1>3. CASE FinishWork(w)
  <2>1. Round(w, j, "lost", FALSE)!FinishWork
    BY <1>1, <1>3 DEF FinishWork, Goto, Round!FinishWork, Round!Goto
  <2> QED
    BY <2>1 DEF GoesOnAsRound, Round!Next
<1>4. CASE AbortWork(w)
  <2>1. Round(w, j, "lost", FALSE)!AbortWork
    BY <1>1, <1>4 DEF AbortWork, Goto, Round!AbortWork, Round!Goto
  <2> QED
    BY <2>1 DEF GoesOnAsRound, Round!Next
<1>5. CASE FailWork(w)
  <2>1. Round(w, j, "lost", FALSE)!FailWork
    BY <1>1, <1>5 DEF FailWork, Goto, Round!FailWork, Round!Goto
  <2> QED
    BY <2>1 DEF GoesOnAsRound, Round!Next
<1>6. CASE MonitorHangs(w)
  <2>1. Round(w, j, "lost", FALSE)!MonitorHangs
    BY <1>1, <1>6 DEF MonitorHangs, Goto, Round!MonitorHangs, Round!Goto
  <2> QED
    BY <2>1 DEF GoesOnAsRound, Round!Next
<1>7. CASE Acknowledge(w) /\ status[j] # "cancelled"
  <2>1. Round(w, j, "lost", FALSE)!Acknowledge
    BY <1>1, <1>7 DEF Acknowledge, Goto, Round!Acknowledge, Round!Goto, RowSeen, OwnsClaim
  <2> QED
    BY <2>1 DEF GoesOnAsRound, Round!Next
<1> QED
  BY <1>2, <1>3, <1>4, <1>5, <1>6, <1>7

\* How its worker ends it, and what it leaves of the row.
LEMMA RoundEnds ==
  ASSUME IInv, NEW w \in Workers, NEW j \in Jobs, job[w] = j,
         \/ Finalize(w) \/ RecordFailure(w) \/ Crash(w)
         \/ (Acknowledge(w) /\ status[j] = "cancelled")
  PROVE  GoesOnAsRound(w, j)
<1>1. /\ job'[w] # j /\ pc \in [Workers -> Phases] /\ token \in [Workers -> BOOLEAN]
      /\ status \in [Jobs -> Statuses]
  BY NoneIsNull DEF Finalize, RecordFailure, Crash, Acknowledge, Drop, IInv, TypeOK
<1>2. PICK seen \in {"running", "lost", "cancelled"} : RowSeen(w) = seen
  BY DEF RowSeen
<1>3. PICK mark \in BOOLEAN : (token[w] \/ pc[w] = "dying") = mark
  OBVIOUS
<1>4. /\ seen = "running" <=> OwnsClaim(w)
      /\ seen = "running" => status[j] = "running" /\ workerId[j] = w
      /\ seen = "cancelled" <=> status[j] = "cancelled"
  BY <1>2 DEF RowSeen, OwnsClaim
<1>5. ASSUME NEW last \in {"running", "lost", "cancelled", "done", "failed"},
             last = "lost" \/ status'[j] = last,
             \/ Round(w, j, last, mark)!Finalize \/ Round(w, j, last, mark)!RecordFailure
             \/ Round(w, j, last, mark)!Crash \/ Round(w, j, last, mark)!Acknowledge
      PROVE  GoesOnAsRound(w, j)
  BY <1>5 DEF GoesOnAsRound, Round!Next
<1>6. CASE Finalize(w)
  <2>1. pc[w] = "finalizing" /\ pc'[w] = "idle"
    BY <1>1, <1>6 DEF Finalize, Drop, Goto
  <2>2. CASE OwnsClaim(w)
    <3>1. status'[j] = "done"
      BY <1>1, <1>6, <2>2 DEF Finalize, Done, OwnsClaim
    <3>2. Round(w, j, "done", mark)!Finalize
      BY <1>1, <1>2, <1>3, <1>4, <2>1, <2>2 DEF Round!Finalize, Round!Goto
    <3> QED
      BY <1>5, <3>1, <3>2
  <2>3. CASE ~OwnsClaim(w)
    <3>1. seen = "lost" \/ status'[j] = seen
      BY <1>4, <1>6, <2>3 DEF Finalize, tables
    <3>2. Round(w, j, seen, mark)!Finalize
      BY <1>1, <1>2, <1>3, <1>4, <2>1, <2>3 DEF Round!Finalize, Round!Goto
    <3> QED
      BY <1>5, <3>1, <3>2
  <2> QED
    BY <2>2, <2>3
<1>7. CASE RecordFailure(w)
  <2>1. (pc[w] = "failing" /\ pc'[w] = "idle") \/ (pc[w] = "dying" /\ pc'[w] = "dead")
    BY <1>1, <1>7 DEF RecordFailure, Drop, Goto
  <2>2. CASE OwnsClaim(w)
    <3>1. status'[j] = "failed"
      BY <1>1, <1>7, <2>2 DEF RecordFailure, Failed
    <3>2. Round(w, j, "failed", mark)!RecordFailure
      BY <1>1, <1>2, <1>3, <1>4, <2>1, <2>2 DEF Round!RecordFailure, Round!Goto
    <3> QED
      BY <1>5, <3>1, <3>2
  <2>3. CASE ~OwnsClaim(w)
    <3>1. seen = "lost" \/ status'[j] = seen
      BY <1>4, <1>7, <2>3 DEF RecordFailure, tables
    <3>2. Round(w, j, seen, mark)!RecordFailure
      BY <1>1, <1>2, <1>3, <1>4, <2>1, <2>3 DEF Round!RecordFailure, Round!Goto
    <3> QED
      BY <1>5, <3>1, <3>2
  <2> QED
    BY <2>2, <2>3
<1>8. CASE Crash(w)
  <2>1. pc[w] # "dead" /\ pc'[w] = "dead"
    BY <1>1, <1>8 DEF Crash, Drop, Goto
  <2>2. seen = "lost" \/ status'[j] = seen
    BY <1>4, <1>8 DEF Crash, tables
  <2>3. Round(w, j, seen, mark)!Crash
    BY <1>1, <1>2, <1>3, <2>1 DEF Round!Crash
  <2> QED
    BY <1>5, <2>2, <2>3
<1>9. CASE Acknowledge(w) /\ status[j] = "cancelled"
  <2>1. pc[w] = "acknowledging" /\ pc'[w] = "idle" /\ seen = "cancelled" /\ status'[j] = "cancelled"
    BY <1>1, <1>4, <1>9 DEF Acknowledge, Drop, Goto, tables
  <2>2. Round(w, j, seen, mark)!Acknowledge
    BY <1>1, <1>2, <1>3, <2>1 DEF Round!Acknowledge, Round!Goto
  <2> QED
    BY <1>5, <2>1, <2>2
<1> QED
  BY <1>6, <1>7, <1>8, <1>9

\* Only a worker itself moves through its round.
LEMMA OwnSteps ==
  ASSUME TypeOK, [Next]_vars, NEW w \in Workers, ~UNCHANGED <<pc[w], job[w], tries[w], token[w]>>
  PROVE  WorkerStep(w)
<1>1. CASE ApiStep
  BY <1>1 DEF ApiStep, CreateJob, CancelJob, RetryJob, workers
<1>2. CASE ClockStep
  BY <1>2 DEF ClockStep, LeaseExpires, BackoffEnds, workers
<1>3. ASSUME NEW v \in Workers, WorkerStep(v), v # w PROVE FALSE
  BY <1>3 DEF WorkerStep, TypeOK, Start, RecoverStaleJobs, Claim, FindNothing, RenewLease,
     CancelToken, FinishWork, AbortWork, FailWork, MonitorHangs, Finalize, Acknowledge,
     RecordFailure, Crash, Drop, Goto, workers
<1>4. CASE UNCHANGED vars
  BY <1>4 DEF vars
<1> QED
  BY <1>1, <1>2, <1>3, <1>4 DEF Next

\* A row gets the name of a worker from that worker's claim alone.
LEMMA OwnClaims ==
  ASSUME TypeOK, [Next]_vars, NEW w \in Workers, NEW j \in Jobs,
         workerId[j] # w, workerId'[j] = w
  PROVE  Claim(w)
<1>1. CASE ApiStep
  BY <1>1, NoneIsNull DEF ApiStep, CreateJob, CancelJob, RetryJob, TypeOK
<1>2. CASE ClockStep
  BY <1>2 DEF ClockStep, LeaseExpires, BackoffEnds
<1>3. ASSUME NEW v \in Workers, WorkerStep(v) PROVE Claim(w)
  <2>1. CASE Claim(v)
    BY <2>1 DEF Claim, TypeOK
  <2>2. CASE RecoverStaleJobs(v) \/ Finalize(v) \/ RecordFailure(v)
    BY <2>2, NoneIsNull DEF RecoverStaleJobs, Finalize, RecordFailure, Done, Failed, tables, TypeOK
  <2>3. CASE \/ Start(v) \/ FindNothing(v) \/ RenewLease(v) \/ CancelToken(v) \/ FinishWork(v)
             \/ AbortWork(v) \/ FailWork(v) \/ MonitorHangs(v) \/ Acknowledge(v) \/ Crash(v)
    BY <2>3 DEF Start, FindNothing, RenewLease, CancelToken, FinishWork, AbortWork, FailWork,
       MonitorHangs, Acknowledge, Crash, tables
  <2> QED
    BY <1>3, <2>1, <2>2, <2>3 DEF WorkerStep
<1>4. CASE UNCHANGED vars
  BY <1>4 DEF vars
<1> QED
  BY <1>1, <1>2, <1>3, <1>4 DEF Next

\* A cancellation is final, and a job that was lost is not won back: a claim
\* of it would be a round of its own.
LEMMA RowSeenStep ==
  ASSUME IInv, [Next]_vars, NEW w \in Workers, NEW j \in Jobs, job[w] = j,
         UNCHANGED <<pc[w], job[w], token[w]>>
  PROVE  /\ RowSeen(w) = "cancelled" => RowSeen(w)' = "cancelled"
         /\ RowSeen(w) = "lost" => RowSeen(w)' # "running"
<1>1. ASSUME RowSeen(w) = "cancelled" PROVE RowSeen(w)' = "cancelled"
  <2>1. status[j] = "cancelled"
    BY <1>1 DEF RowSeen
  <2>2. status'[j] = "cancelled"
    BY <2>1, FinalStep DEF Final
  <2> QED
    BY <2>2 DEF RowSeen, OwnsClaim
<1>2. ASSUME RowSeen(w) = "lost", RowSeen(w)' = "running" PROVE FALSE
  <2>1. ~OwnsClaim(w) /\ workerId'[j] = w
    BY <1>2 DEF RowSeen, OwnsClaim
  <2>2. workerId[j] # w
    BY <2>1, NoneIsNull DEF OwnsClaim, IInv, ClaimsBelongToTheirWorker
  <2>3. Claim(w)
    BY <2>1, <2>2, OwnClaims DEF IInv
  <2> QED
    BY <2>3 DEF Claim, Goto, IInv, TypeOK
<1> QED
  BY <1>1, <1>2

LEMMA RoundGoesOn ==
  ASSUME IInv, [Next]_vars, NEW w \in Workers, NEW j \in Jobs, job[w] = j
  PROVE  GoesOnAsRound(w, j)
<1>1. CASE UNCHANGED <<pc[w], job[w], token[w]>>
  BY <1>1, RowSeenStep, OthersGoOn
<1>2. CASE ~UNCHANGED <<pc[w], job[w], token[w]>>
  <2>1. WorkerStep(w)
    BY <1>2, OwnSteps DEF IInv
  <2>2. pc[w] \in HoldingJob
    BY NoneIsNull DEF IInv, RoundsHoldJobs
  <2>3. ~Start(w) /\ ~RecoverStaleJobs(w) /\ ~Claim(w) /\ ~FindNothing(w) /\ ~RenewLease(w)
    BY <1>2, <2>2 DEF Start, RecoverStaleJobs, Claim, FindNothing, RenewLease, HoldingJob, workers
  <2> QED
    BY <2>1, <2>3, WorkerGoesOn, RoundEnds DEF WorkerStep
<1> QED
  BY <1>1, <1>2

\* A round begins with a claim, as JobRound does.
LEMMA RoundBegins ==
  ASSUME IInv, [Next]_vars, NEW w \in Workers
  PROVE  BeginsRound(w)
<1> SUFFICES ASSUME pc'[w] = "working", pc[w] # "working"
             PROVE  \E j \in Jobs : job'[w] = j /\ Round(w, j, "lost", FALSE)!Init'
  BY DEF BeginsRound
<1>1. WorkerStep(w)
  BY OwnSteps DEF IInv
<1>2. Claim(w)
  BY <1>1 DEF WorkerStep, Start, RecoverStaleJobs, FindNothing, RenewLease, CancelToken,
     FinishWork, AbortWork, FailWork, MonitorHangs, Finalize, Acknowledge, RecordFailure,
     Crash, Drop, Goto, workers, IInv, TypeOK
<1>3. PICK j \in Claimable : /\ status' = [status EXCEPT ![j] = "running"]
                             /\ workerId' = [workerId EXCEPT ![j] = w]
                             /\ job' = [job EXCEPT ![w] = j]
  BY <1>2 DEF Claim
<1>4. j \in Jobs /\ job'[w] = j /\ OwnsClaim(w)' /\ ~token'[w]
  BY <1>2, <1>3 DEF Claim, Claimable, OwnsClaim, IInv, TypeOK
<1> QED
  BY <1>4 DEF Round!Init, RowSeen

\* Whatever the queue does is to every round a step of JobRound or nothing,
\* and rounds begin and end as JobRound says: what JobExecution implements is
\* what JobQueue relies on (process_next, _execute).
THEOREM RoundsAreAsExecuted == Spec => RoundsAreJobRounds
<1>1. IInv /\ [Next]_vars =>
        [\A w \in Workers :
           /\ BeginsRound(w)
           /\ \A j \in Jobs : job[w] = j => GoesOnAsRound(w, j)]_vars
  BY RoundGoesOn, RoundBegins
<1> QED
  BY <1>1, AlwaysIInv, PTL DEF Spec, RoundsAreJobRounds
-----------------------------------------------------------------------------
(* The limit of concurrent jobs.                                           *)

\* What docs and tests call the limit of a company, as the code keeps it: a step
\* that leaves a company with more active jobs than before leaves it within the
\* limit, or is a retry, which does not look at it.
OnlyRetriesExceedTheLimit ==
  [][\A c \in Companies :
       Cardinality(Active(c)') > Cardinality(Active(c)) =>
         \/ Cardinality(Active(c)') <= MaxConcurrentJobs
         \/ \E j \in Jobs : /\ status[j] = "failed" /\ status'[j] = "queued"
                            /\ attempts[j] < MaxAttempts /\ companyId[j] = c]_vars

LEMMA ActiveIsFinite ==
  ASSUME NEW c \in Companies
  PROVE  /\ IsFiniteSet(Active(c)) /\ Cardinality(Active(c)) \in Nat
         /\ IsFiniteSet(Active(c)') /\ Cardinality(Active(c)') \in Nat
<1>1. IsFiniteSet(Active(c)) /\ IsFiniteSet(Active(c)')
  BY JobIdsAreNumbers, FS_Subset DEF Active
<1> QED
  BY <1>1, FS_CardinalityType

LEMMA LimitStep ==
  ASSUME IInv, Next, NEW c \in Companies,
         Cardinality(Active(c)') > Cardinality(Active(c))
  PROVE  \/ Cardinality(Active(c)') <= MaxConcurrentJobs
         \/ \E j \in Jobs : /\ status[j] = "failed" /\ status'[j] = "queued"
                            /\ attempts[j] < MaxAttempts /\ companyId[j] = c
<1> USE DEF IInv
<1>1. ASSUME Active(c)' \subseteq Active(c) PROVE FALSE
  <2>1. Cardinality(Active(c)') <= Cardinality(Active(c))
    BY <1>1, ActiveIsFinite, FS_Subset
  <2> QED
    BY <2>1, ActiveIsFinite
<1>2. ASSUME NEW d \in Companies, NEW j \in Jobs, CreateJob(d, j)
      PROVE  Cardinality(Active(c)') <= MaxConcurrentJobs
  <2>1. CASE d = c
    <3>1. Active(c)' = Active(c) \cup {j} /\ j \notin Active(c)
      BY <1>2, <2>1 DEF CreateJob, Active, TypeOK
    <3>2. Cardinality(Active(c)') = Cardinality(Active(c)) + 1
      BY <3>1, ActiveIsFinite, FS_AddElement
    <3> QED
      BY <1>2, <2>1, <3>2, ActiveIsFinite, ConcurrencyLimit DEF CreateJob
  <2>2. CASE d # c
    <3>1. Active(c)' \subseteq Active(c)
      BY <1>2, <2>2 DEF CreateJob, Active, TypeOK
    <3> QED
      BY <1>1, <3>1
  <2> QED
    BY <2>1, <2>2
<1>3. ASSUME NEW d \in Companies, NEW j \in Jobs, CancelJob(d, j) PROVE FALSE
  <2>1. Active(c)' \subseteq Active(c)
    BY <1>3 DEF CancelJob, Active, TypeOK
  <2> QED
    BY <1>1, <2>1
<1>4. ASSUME NEW d \in Companies, NEW j \in Jobs, RetryJob(d, j)
      PROVE  \E i \in Jobs : /\ status[i] = "failed" /\ status'[i] = "queued"
                             /\ attempts[i] < MaxAttempts /\ companyId[i] = c
  <2>1. CASE d = c
    BY <1>4, <2>1 DEF RetryJob, TypeOK
  <2>2. CASE d # c
    <3>1. Active(c)' \subseteq Active(c)
      BY <1>4, <2>2 DEF RetryJob, Active, TypeOK
    <3> QED
      BY <1>1, <3>1
  <2> QED
    BY <2>1, <2>2
<1>5. CASE ClockStep
  <2>1. Active(c)' \subseteq Active(c)
    BY <1>5 DEF ClockStep, LeaseExpires, BackoffEnds, Active
  <2> QED
    BY <1>1, <2>1
<1>6. ASSUME NEW w \in Workers, WorkerStep(w) PROVE FALSE
  <2>1. CASE Claim(w)
    <3>1. Active(c)' \subseteq Active(c)
      BY <2>1 DEF Claim, Claimable, Active, TypeOK
    <3> QED
      BY <1>1, <3>1
  <2>2. CASE RecoverStaleJobs(w) \/ RecordFailure(w) \/ Finalize(w)
    <3>1. companyId' = companyId /\ \A j \in Jobs : status'[j] \in {status[j], "failed", "done"}
      BY <2>2 DEF RecoverStaleJobs, RecordFailure, Finalize, Failed, Done, tables, TypeOK
    <3>2. Active(c)' \subseteq Active(c)
      BY <3>1 DEF Active
    <3> QED
      BY <1>1, <3>2
  <2>3. CASE \/ Start(w) \/ FindNothing(w) \/ RenewLease(w) \/ CancelToken(w) \/ FinishWork(w)
             \/ AbortWork(w) \/ FailWork(w) \/ MonitorHangs(w) \/ Acknowledge(w) \/ Crash(w)
    <3>1. Active(c)' = Active(c)
      BY <2>3 DEF Start, FindNothing, RenewLease, CancelToken, FinishWork, AbortWork, FailWork,
         MonitorHangs, Acknowledge, Crash, tables, Active
    <3> QED
      BY <1>1, <3>1
  <2> QED
    BY <1>6, <2>1, <2>2, <2>3 DEF WorkerStep
<1> QED
  BY <1>2, <1>3, <1>4, <1>5, <1>6 DEF Next, ApiStep

\* The finding of limit_on_retry, from the other side: creates never take a company
\* over its limit, whatever runs meanwhile, and nothing but a retry does
\* (service.py: create_job, retry_job).
THEOREM RetriesAloneExceedTheLimit == Spec => OnlyRetriesExceedTheLimit
<1>1. IInv /\ [Next]_vars =>
        [\A c \in Companies :
           Cardinality(Active(c)') > Cardinality(Active(c)) =>
             \/ Cardinality(Active(c)') <= MaxConcurrentJobs
             \/ \E j \in Jobs : /\ status[j] = "failed" /\ status'[j] = "queued"
                                /\ attempts[j] < MaxAttempts /\ companyId[j] = c]_vars
  BY LimitStep
<1> QED
  BY <1>1, AlwaysIInv, PTL DEF Spec, OnlyRetriesExceedTheLimit
-----------------------------------------------------------------------------
(* Claims that were lost.                                                  *)

\* What became of an attempt whose worker lost the claim: the job was cancelled,
\* or the attempt was failed by a recovery, after which the job waits, ended as
\* failed or is in a later attempt, by which alone it can be done.
Superseded(w) ==
  \/ status[job[w]] \in {"cancelled", "failed", "queued"}
  \/ tries[w] < attempts[job[w]]
LostClaimsAreSuperseded ==
  \A w \in Workers : pc[w] \in HoldingJob => OwnsClaim(w) \/ Superseded(w)
UnmatchedFinalizeWasSuperseded ==
  [][\A w \in Workers :
       pc[w] = "finalizing" /\ pc'[w] = "idle" =>
         \/ status'[job[w]] = "done" /\ OwnsClaim(w)
         \/ Superseded(w) /\ status'[job[w]] = status[job[w]]]_vars

\* The row of a job, seen from a worker that holds it and goes on holding it.
LEMMA HeldRowStep ==
  ASSUME IInv, [Next]_vars, NEW w \in Workers, NEW j \in Jobs, job[w] = j, job'[w] = j,
         OwnsClaim(w) \/ Superseded(w)
  PROVE  (OwnsClaim(w) \/ Superseded(w))'
<1> USE DEF IInv, OwnsClaim, Superseded
<1>0. /\ pc[w] \in HoldingJob /\ tries[w] \in Nat /\ attempts[j] \in Nat /\ tries[w] <= attempts[j]
      /\ workerId \in [Jobs -> Workers \cup {None}] /\ status \in [Jobs -> Statuses]
      /\ attempts \in [Jobs -> 0 .. MaxAttempts] /\ w # None
  BY NoneIsNull, AttemptsLimit DEF RoundsHoldJobs, TypeOK
<1>1. tries'[w] = tries[w]
  <2> SUFFICES ASSUME tries'[w] # tries[w] PROVE FALSE
    OBVIOUS
  <2>1. WorkerStep(w)
    BY OwnSteps
  <2> QED
    BY <1>0, <2>1, NoneIsNull DEF WorkerStep, TypeOK, Start, RecoverStaleJobs, Claim, FindNothing,
       RenewLease, CancelToken, FinishWork, AbortWork, FailWork, MonitorHangs, Finalize,
       Acknowledge, RecordFailure, Crash, Drop, Goto, workers, HoldingJob
<1>2. CASE ApiStep
  BY <1>0, <1>1, <1>2 DEF ApiStep, CreateJob, CancelJob, RetryJob, workers
<1>3. CASE ClockStep \/ UNCHANGED vars
  BY <1>0, <1>1, <1>3 DEF ClockStep, LeaseExpires, BackoffEnds, vars
<1>4. ASSUME NEW v \in Workers, WorkerStep(v) PROVE (OwnsClaim(w) \/ Superseded(w))'
  <2>1. CASE Claim(v)
    <3>1. PICK i \in Claimable : /\ status' = [status EXCEPT ![i] = "running"]
                                 /\ attempts' = [attempts EXCEPT ![i] = @ + 1]
                                 /\ workerId' = [workerId EXCEPT ![i] = v]
      BY <2>1 DEF Claim
    <3>2. CASE i = j
      BY <1>0, <1>1, <3>1, <3>2, AttemptsLimit DEF Claimable
    <3>3. CASE i # j
      BY <1>0, <1>1, <3>1, <3>3 DEF Claimable
    <3> QED
      BY <3>2, <3>3
  <2>2. CASE RecoverStaleJobs(v)
    BY <1>0, <1>1, <2>2 DEF RecoverStaleJobs, Failed
  <2>3. CASE Finalize(v) /\ OwnsClaim(v)
    <3>1. /\ job[v] \in Jobs /\ pc[v] # "dead" /\ workerId[job[v]] = v
          /\ Done(job[v]) /\ job'[v] = None
      BY <2>3 DEF Finalize, RoundsHoldJobs, HoldingJob, Drop, TypeOK
    <3>2. v # w /\ tries[v] = attempts[job[v]]
      BY <1>0, <3>1, NoneIsNull, OwnsAtMostItsJob
    <3>3. CASE job[v] = j
      <4>1. tries[w] # tries[v] /\ attempts'[j] = attempts[j]
        BY <3>1, <3>2, <3>3, NoneIsNull DEF OneWorkerPerAttempt, Done
      <4>2. tries[w] < attempts'[j]
        BY <1>0, <3>2, <3>3, <4>1
      <4> QED
        BY <1>1, <4>2
    <3>4. CASE job[v] # j
      BY <1>0, <1>1, <3>1, <3>4 DEF Done
    <3> QED
      BY <3>3, <3>4
  <2>4. CASE RecordFailure(v) /\ OwnsClaim(v)
    BY <1>0, <1>1, <2>4 DEF RecordFailure, Failed
  <2>5. CASE \/ (Finalize(v) \/ RecordFailure(v)) /\ ~OwnsClaim(v)
             \/ Start(v) \/ FindNothing(v) \/ RenewLease(v) \/ CancelToken(v) \/ FinishWork(v)
             \/ AbortWork(v) \/ FailWork(v) \/ MonitorHangs(v) \/ Acknowledge(v) \/ Crash(v)
    <3>1. UNCHANGED <<status, attempts, workerId>>
      BY <2>5 DEF Finalize, RecordFailure, Start, FindNothing, RenewLease, CancelToken, FinishWork,
         AbortWork, FailWork, MonitorHangs, Acknowledge, Crash, tables
    <3> QED
      BY <1>1, <3>1
  <2> QED
    BY <1>4, <2>1, <2>2, <2>3, <2>4, <2>5 DEF WorkerStep
<1> QED
  BY <1>2, <1>3, <1>4 DEF Next

LEMMA NextSuperseded ==
  IInv /\ IInv' /\ LostClaimsAreSuperseded /\ [Next]_vars => LostClaimsAreSuperseded'
<1> SUFFICES ASSUME IInv, IInv', LostClaimsAreSuperseded, [Next]_vars,
                    NEW w \in Workers, pc'[w] \in HoldingJob
             PROVE  (OwnsClaim(w) \/ Superseded(w))'
  BY DEF LostClaimsAreSuperseded
<1>1. job'[w] \in Jobs
  BY DEF IInv, RoundsHoldJobs
<1>2. CASE job'[w] = job[w]
  <2>1. pc[w] \in HoldingJob
    BY <1>1, <1>2, NoneIsNull DEF IInv, RoundsHoldJobs
  <2> QED
    BY <1>1, <1>2, <2>1, HeldRowStep DEF LostClaimsAreSuperseded
<1>3. CASE job'[w] # job[w]
  <2>1. WorkerStep(w)
    BY <1>3, OwnSteps DEF IInv
  <2>2. Claim(w)
    BY <1>1, <1>3, <2>1, NoneIsNull DEF WorkerStep, IInv, TypeOK, Start, RecoverStaleJobs, FindNothing,
       RenewLease, CancelToken, FinishWork, AbortWork, FailWork, MonitorHangs, Finalize,
       Acknowledge, RecordFailure, Crash, Drop, Goto, workers
  <2>3. PICK j \in Claimable : /\ status' = [status EXCEPT ![j] = "running"]
                               /\ workerId' = [workerId EXCEPT ![j] = w]
                               /\ job' = [job EXCEPT ![w] = j]
    BY <2>2 DEF Claim
  <2> QED
    BY <2>2, <2>3 DEF Claimable, OwnsClaim, IInv, TypeOK
<1> QED
  BY <1>2, <1>3

LEMMA UnmatchedStep ==
  ASSUME IInv, LostClaimsAreSuperseded, Next, NEW w \in Workers, pc[w] = "finalizing", pc'[w] = "idle"
  PROVE  \/ status'[job[w]] = "done" /\ OwnsClaim(w)
         \/ Superseded(w) /\ status'[job[w]] = status[job[w]]
<1>1. WorkerStep(w)
  BY OwnSteps DEF IInv
<1>2. Finalize(w)
  BY <1>1 DEF WorkerStep, IInv, TypeOK, Start, RecoverStaleJobs, Claim, FindNothing, RenewLease,
     CancelToken, FinishWork, AbortWork, FailWork, MonitorHangs, Acknowledge, RecordFailure,
     Crash, Drop, Goto, workers
<1>3. job[w] \in Jobs /\ (OwnsClaim(w) \/ Superseded(w))
  BY DEF IInv, RoundsHoldJobs, LostClaimsAreSuperseded, HoldingJob
<1> QED
  BY <1>2, <1>3 DEF Finalize, Done, tables, IInv, TypeOK

\* The finding of finalize_unmatched, from the other side: a finalize that matches
\* no row belongs to a cancelled job or to an attempt that was recovered, and
\* never to a job that this attempt completed (_finalize, recover_stale_jobs).
THEOREM UnmatchedFinalizesAreSuperseded ==
  Spec => []LostClaimsAreSuperseded /\ UnmatchedFinalizeWasSuperseded
<1>1. Init => LostClaimsAreSuperseded
  BY DEF Init, LostClaimsAreSuperseded, HoldingJob
<1>2. Spec => []LostClaimsAreSuperseded
  BY <1>1, NextSuperseded, AlwaysIInv, PTL DEF Spec
<1>3. IInv /\ LostClaimsAreSuperseded /\ [Next]_vars =>
        [\A w \in Workers :
           pc[w] = "finalizing" /\ pc'[w] = "idle" =>
             \/ status'[job[w]] = "done" /\ OwnsClaim(w)
             \/ Superseded(w) /\ status'[job[w]] = status[job[w]]]_vars
  BY UnmatchedStep
<1> QED
  BY <1>2, <1>3, AlwaysIInv, PTL DEF Spec, UnmatchedFinalizeWasSuperseded
=============================================================================
