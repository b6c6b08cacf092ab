------------------------------ MODULE JobQueue ------------------------------
(***************************************************************************)
(* The durable job queue: the jobs table and the tables written with it    *)
(* (job_results, dead_letter_jobs, job_audit_events, companies.job_quota), *)
(* the API calls that change a job (create, cancel, retry) and the worker  *)
(* processes that claim jobs, execute them and record how they ended.      *)
(*                                                                         *)
(* Every transaction of the code is one action: PostgreSQL takes the row   *)
(* lock of each conditional UPDATE and re-evaluates its WHERE clause on    *)
(* the committed row, so the guard and the write are atomic.  Between two  *)
(* transactions of one worker anything else may happen, and a worker may   *)
(* stop at any point.                                                      *)
(*                                                                         *)
(* Time is abstracted to what the WHERE clauses compare with now(): a      *)
(* lease is live or expired, a retry's backoff is pending or over.         *)
(***************************************************************************)
EXTENDS Integers, FiniteSets, Sequences

CONSTANTS
  Jobs,               \* ids of the jobs table, in the order of the sequence
  Seeded,             \* ids that db/seed.sql may have inserted
  Companies,          \* tenants
  Workers,            \* worker processes; a restarted one is another element
  MaxAttempts,        \* MAX_ATTEMPTS
  MaxConcurrentJobs,  \* companies.max_concurrent_jobs
  InitialQuota,       \* companies.job_quota at the start
  MaxCrashes,         \* bound of the model: processes that may die
  None                \* SQL NULL, and "no job" in a worker

ASSUME JobIdsAreNumbers == Jobs \subseteq Nat /\ IsFiniteSet(Jobs)
ASSUME SeededAreJobs == Seeded \subseteq Jobs
ASSUME AttemptsLimit == MaxAttempts \in Nat \ {0}
ASSUME ConcurrencyLimit == MaxConcurrentJobs \in Nat \ {0}
ASSUME QuotaIsANumber == InitialQuota \in Int
ASSUME CrashBudget == MaxCrashes \in Nat
ASSUME NoneIsNull == None \notin Jobs \cup Companies \cup Workers

VARIABLES
  status,       \* jobs.status; "absent" before the row exists
  attempts,     \* jobs.attempts
  companyId,    \* jobs.company_id
  lease,        \* jobs.locked_at against now() - LEASE_TIMEOUT_S
  workerId,     \* jobs.worker_id
  backoff,      \* jobs.next_attempt_at against now()
  results,      \* jobs with a row in job_results (job_id is unique)
  deadLetters,  \* jobs with a row in dead_letter_jobs (job_id is unique)
  quota,        \* companies.job_quota
  audit,        \* job_audit_events of each job, oldest first
  pc,           \* where each worker process is
  job,          \* the job a worker claimed
  tries,        \* job["attempts"], read by the claim
  token         \* the job's CancellationToken

tables == <<status, attempts, companyId, lease, workerId, backoff,
            results, deadLetters, quota, audit>>
workers == <<pc, job, tries, token>>
vars == <<status, attempts, companyId, lease, workerId, backoff,
          results, deadLetters, quota, audit, pc, job, tries, token>>

Statuses == {"absent", "queued", "running", "done", "failed", "cancelled"}
Leases == {"none", "live", "expired"}
Backoffs == {"none", "pending", "over"}
Events == {"submitted", "cancelled", "retry_requested", "completed", "failed"}
HoldingJob == {"working", "finalizing", "acknowledging", "failing", "dying"}
Phases == HoldingJob \cup {"off", "idle", "claiming", "dead"}

TypeOK ==
  /\ status \in [Jobs -> Statuses]
  /\ attempts \in [Jobs -> 0 .. MaxAttempts]
  /\ companyId \in [Jobs -> Companies \cup {None}]
  /\ lease \in [Jobs -> Leases]
  /\ workerId \in [Jobs -> Workers \cup {None}]
  /\ backoff \in [Jobs -> Backoffs]
  /\ results \subseteq Jobs
  /\ deadLetters \subseteq Jobs
  /\ quota \in [Companies -> Int]
  /\ audit \in [Jobs -> Seq(Events)]
  /\ pc \in [Workers -> Phases]
  /\ job \in [Workers -> Jobs \cup {None}]
  /\ tries \in [Workers -> 0 .. MaxAttempts]
  /\ token \in [Workers -> BOOLEAN]
-----------------------------------------------------------------------------
(* What the WHERE clauses select.                                          *)

\* The rows the concurrency limit of a company counts.
Active(c) == {j \in Jobs : companyId[j] = c /\ status[j] \in {"queued", "running"}}

\* Mutant: rows without locked_at are not stale.
StaleByLease == {j \in Jobs : status[j] = "running" /\ lease[j] = "expired"}

\* Claims whose worker stopped renewing, or that never had a lease.
Stale == {j \in Jobs : status[j] = "running" /\ lease[j] # "live"}

\* Mutant: a retried job is not due once its time has come.
ClaimableNeverRetried ==
  {j \in Jobs : /\ status[j] = "queued" /\ attempts[j] < MaxAttempts
                /\ backoff[j] = "none"}

\* Rows a worker may take now.
Claimable == {j \in Jobs : /\ status[j] = "queued"
                           /\ attempts[j] < MaxAttempts
                           /\ backoff[j] # "pending"}

\* Mutants: the row is found without its worker_id; by its id alone.
OwnsAnyClaim(w) == status[job[w]] = "running"
OwnsById(w) == job[w] \in Jobs

\* The claim of the job a worker holds is still its own.
OwnsClaim(w) == status[job[w]] = "running" /\ workerId[job[w]] = w

\* Processes that died or are about to.
Doomed == {w \in Workers : pc[w] \in {"dying", "dead"}}
-----------------------------------------------------------------------------
(* The seed inserts finished and failed jobs and one abandoned run: all    *)
(* with zero attempts, none with a lease, and results never charged.       *)
Init ==
  /\ status \in [Jobs -> {"absent", "done", "failed", "running"}]
  /\ \A j \in Jobs \ Seeded : status[j] = "absent"
  /\ \A i, j \in Jobs : status[i] = "running" /\ status[j] = "running" => i = j
  /\ attempts = [j \in Jobs |-> 0]
  /\ companyId \in [Jobs -> Companies \cup {None}]
  /\ \A j \in Jobs : companyId[j] = None <=> status[j] = "absent"
  /\ lease = [j \in Jobs |-> "none"]
  /\ workerId = [j \in Jobs |-> None]
  /\ backoff = [j \in Jobs |-> "none"]
  /\ results = {j \in Jobs : status[j] = "done"}
  /\ deadLetters = {}
  /\ quota = [c \in Companies |-> InitialQuota]
  /\ audit = [j \in Jobs |-> IF status[j] = "absent" THEN <<>> ELSE <<"submitted">>]
  /\ pc = [w \in Workers |-> "off"]
  /\ job = [w \in Workers |-> None]
  /\ tries = [w \in Workers |-> 0]
  /\ token = [w \in Workers |-> FALSE]
-----------------------------------------------------------------------------
(* The API.                                                                *)

Recorded(S, event) ==
  [j \in Jobs |-> IF j \in S THEN Append(audit[j], event) ELSE audit[j]]

\* POST /jobs that inserts.  The company's row lock serialises its creates,
\* so the count cannot change before the insert and ids grow per company.
CreateJob(c, j) ==
  /\ status[j] = "absent"
  /\ \A i \in Jobs : companyId[i] = c => i < j
  /\ Cardinality(Active(c)) < MaxConcurrentJobs
  /\ status' = [status EXCEPT ![j] = "queued"]
  /\ companyId' = [companyId EXCEPT ![j] = c]
  /\ audit' = Recorded({j}, "submitted")
  /\ UNCHANGED <<attempts, lease, workerId, backoff, results, deadLetters, quota>>
  /\ UNCHANGED workers

\* POST /jobs/{id}/cancel: takes the row from whoever runs it.
CancelJob(c, j) ==
  /\ companyId[j] = c
  /\ status[j] \in {"queued", "running"}
  /\ status' = [status EXCEPT ![j] = "cancelled"]
  /\ lease' = [lease EXCEPT ![j] = "none"]
  /\ workerId' = [workerId EXCEPT ![j] = None]
  /\ audit' = Recorded({j}, "cancelled")
  /\ UNCHANGED <<attempts, companyId, backoff, results, deadLetters, quota>>
  /\ UNCHANGED workers

\* Mutant: a retry starts to count the attempts again.
RetryResetsAttempts(c, j) ==
  /\ companyId[j] = c
  /\ status[j] = "failed"
  /\ attempts[j] < MaxAttempts
  /\ status' = [status EXCEPT ![j] = "queued"]
  /\ attempts' = [attempts EXCEPT ![j] = 0]
  /\ backoff' = [backoff EXCEPT ![j] = "pending"]
  /\ audit' = Recorded({j}, "retry_requested")
  /\ UNCHANGED <<companyId, lease, workerId, results, deadLetters, quota>>
  /\ UNCHANGED workers

\* POST /jobs/{id}/retry: the limit of attempts is checked, the limit of
\* concurrent jobs is not.
RetryJob(c, j) ==
  /\ companyId[j] = c
  /\ status[j] = "failed"
  /\ attempts[j] < MaxAttempts
  /\ status' = [status EXCEPT ![j] = "queued"]
  /\ backoff' = [backoff EXCEPT ![j] = "pending"]
  /\ lease' = [lease EXCEPT ![j] = "none"]
  /\ workerId' = [workerId EXCEPT ![j] = None]
  /\ audit' = Recorded({j}, "retry_requested")
  /\ UNCHANGED <<attempts, companyId, results, deadLetters, quota>>
  /\ UNCHANGED workers
-----------------------------------------------------------------------------
(* The passage of time.                                                    *)

\* 30s without a renewal.
LeaseExpires(j) ==
  /\ lease[j] = "live"
  /\ lease' = [lease EXCEPT ![j] = "expired"]
  /\ UNCHANGED <<status, attempts, companyId, workerId, backoff>>
  /\ UNCHANGED <<results, deadLetters, quota, audit>>
  /\ UNCHANGED workers

\* next_attempt_at is reached.
BackoffEnds(j) ==
  /\ backoff[j] = "pending"
  /\ backoff' = [backoff EXCEPT ![j] = "over"]
  /\ UNCHANGED <<status, attempts, companyId, lease, workerId>>
  /\ UNCHANGED <<results, deadLetters, quota, audit>>
  /\ UNCHANGED workers
-----------------------------------------------------------------------------
(* One round of a worker: process_next.                                    *)

Goto(w, phase) == pc' = [pc EXCEPT ![w] = phase]

\* The local state of process_next goes away when it returns or dies.
Drop(w, phase) ==
  /\ Goto(w, phase)
  /\ job' = [job EXCEPT ![w] = None]
  /\ tries' = [tries EXCEPT ![w] = 0]
  /\ token' = [token EXCEPT ![w] = FALSE]

\* Jobs in S end as failed; those out of attempts get a dead letter (the
\* insert skips a job that has one).
Failed(S, exhausted) ==
  /\ status' = [j \in Jobs |-> IF j \in S THEN "failed" ELSE status[j]]
  /\ backoff' = [j \in Jobs |-> IF j \in S THEN "none" ELSE backoff[j]]
  /\ lease' = [j \in Jobs |-> IF j \in S THEN "none" ELSE lease[j]]
  /\ workerId' = [j \in Jobs |-> IF j \in S THEN None ELSE workerId[j]]
  /\ audit' = Recorded(S, "failed")
  /\ deadLetters' = deadLetters \cup exhausted
  /\ UNCHANGED <<attempts, companyId, results, quota>>

Start(w) ==
  /\ pc[w] = "off"
  /\ Goto(w, "idle")
  /\ UNCHANGED <<job, tries, token>>
  /\ UNCHANGED tables

\* Mutant: a recovered job gets no dead letter.
RecoverWithoutDeadLetter(w) ==
  /\ pc[w] = "idle"
  /\ Failed(Stale, {})
  /\ Goto(w, "claiming")
  /\ UNCHANGED <<job, tries, token>>

\* recover_stale_jobs: every abandoned claim in one transaction.
RecoverStaleJobs(w) ==
  /\ pc[w] = "idle"
  /\ Failed(Stale, {j \in Stale : attempts[j] >= MaxAttempts})
  /\ Goto(w, "claiming")
  /\ UNCHANGED <<job, tries, token>>

\* The oldest due row, passing over the rows other transactions hold locked.
Claim(w) ==
  /\ pc[w] = "claiming"
  /\ \E locked \in SUBSET Claimable :
       \E j \in Claimable \ locked :
         /\ \A i \in Claimable \ locked : j <= i
         /\ status' = [status EXCEPT ![j] = "running"]
         /\ attempts' = [attempts EXCEPT ![j] = @ + 1]
         /\ lease' = [lease EXCEPT ![j] = "live"]
         /\ workerId' = [workerId EXCEPT ![j] = w]
         /\ job' = [job EXCEPT ![w] = j]
         /\ tries' = [tries EXCEPT ![w] = attempts[j] + 1]
  /\ token' = [token EXCEPT ![w] = FALSE]
  /\ Goto(w, "working")
  /\ UNCHANGED <<companyId, backoff, results, deadLetters, quota, audit>>

\* No due row, or all of them locked by other transactions.
FindNothing(w) ==
  /\ pc[w] = "claiming"
  /\ Goto(w, "idle")
  /\ UNCHANGED <<job, tries, token>>
  /\ UNCHANGED tables

\* The heartbeat thread renews the claim while the job executes.
RenewLease(w) ==
  /\ pc[w] = "working"
  /\ OwnsClaim(w)
  /\ lease' = [lease EXCEPT ![job[w]] = "live"]
  /\ UNCHANGED <<status, attempts, companyId, workerId, backoff>>
  /\ UNCHANGED <<results, deadLetters, quota, audit>>
  /\ UNCHANGED workers

\* The token is cancelled: the heartbeat found the claim gone or failed three
\* times, the monitor heard of the cancellation, or the monitor itself failed.
\* The last causes need no reason in the tables.
CancelToken(w) ==
  /\ pc[w] = "working"
  /\ token' = [token EXCEPT ![w] = TRUE]
  /\ UNCHANGED <<pc, job, tries>>
  /\ UNCHANGED tables

\* Execution ended and the token was found clear.
FinishWork(w) ==
  /\ pc[w] = "working"
  /\ ~token[w]
  /\ Goto(w, "finalizing")
  /\ UNCHANGED <<job, tries, token>>
  /\ UNCHANGED tables

\* raise_if_cancelled raised JobCancelledError.
AbortWork(w) ==
  /\ pc[w] = "working"
  /\ token[w]
  /\ Goto(w, "acknowledging")
  /\ UNCHANGED <<job, tries, token>>
  /\ UNCHANGED tables

\* The monitor did not start, the company is missing, the heartbeat failed
\* after the body ended, or the finalizing transaction was rolled back.
FailWork(w) ==
  /\ pc[w] \in {"working", "finalizing"}
  /\ Goto(w, "failing")
  /\ UNCHANGED <<job, tries, token>>
  /\ UNCHANGED tables

\* The monitor thread survives the forced close of its connection: the
\* failure is recorded and the error is raised again, which ends the process.
MonitorHangs(w) ==
  /\ pc[w] = "working"
  /\ Cardinality(Doomed) < MaxCrashes
  /\ Goto(w, "dying")
  /\ UNCHANGED <<job, tries, token>>
  /\ UNCHANGED tables

\* _finalize: result, audit event and charge go with the status, or nothing.
\* The charge depends on the insert of the result, which a result of the job
\* already there would skip.
Done(j) ==
  /\ status' = [status EXCEPT ![j] = "done"]
  /\ lease' = [lease EXCEPT ![j] = "none"]
  /\ workerId' = [workerId EXCEPT ![j] = None]
  /\ results' = results \cup {j}
  /\ audit' = Recorded({j}, "completed")
  /\ quota' = IF j \in results THEN quota ELSE [quota EXCEPT ![companyId[j]] = @ - 1]
  /\ UNCHANGED <<attempts, companyId, backoff, deadLetters>>

\* Mutants: the result is inserted, or the charge made, before the row is
\* known to be the worker's.
FinalizeInsertsFirst(w) ==
  /\ pc[w] = "finalizing"
  /\ \/ OwnsClaim(w) /\ Done(job[w])
     \/ /\ ~OwnsClaim(w)
        /\ results' = results \cup {job[w]}
        /\ UNCHANGED <<status, attempts, companyId, lease, workerId, backoff>>
        /\ UNCHANGED <<deadLetters, quota, audit>>
  /\ Drop(w, "idle")
FinalizeChargesFirst(w) ==
  /\ pc[w] = "finalizing"
  /\ \/ OwnsClaim(w) /\ Done(job[w])
     \/ /\ ~OwnsClaim(w)
        /\ quota' = [quota EXCEPT ![companyId[job[w]]] = @ - 1]
        /\ UNCHANGED <<status, attempts, companyId, lease, workerId, backoff>>
        /\ UNCHANGED <<results, deadLetters, audit>>
  /\ Drop(w, "idle")

Finalize(w) ==
  /\ pc[w] = "finalizing"
  /\ \/ OwnsClaim(w) /\ Done(job[w])
     \/ ~OwnsClaim(w) /\ UNCHANGED tables
  /\ Drop(w, "idle")

\* Mutant: every cancelled token passes for a cancelled job.
AcknowledgeAlways(w) ==
  /\ pc[w] = "acknowledging"
  /\ Drop(w, "idle")
  /\ UNCHANGED tables

\* _acknowledge_cancellation: a cancelled token without a cancelled job is a
\* failure.  Its UPDATE clears columns that cancel_job left cleared.
Acknowledge(w) ==
  /\ pc[w] = "acknowledging"
  /\ IF status[job[w]] = "cancelled"
       THEN Drop(w, "idle")
       ELSE Goto(w, "failing") /\ UNCHANGED <<job, tries, token>>
  /\ UNCHANGED tables

\* Mutant: the audit event is written before the row is known to match.
RecordFailureOfAny(w) ==
  /\ pc[w] \in {"failing", "dying"}
  /\ \/ OwnsClaim(w) /\ Failed({job[w]}, IF tries[w] >= MaxAttempts THEN {job[w]} ELSE {})
     \/ /\ ~OwnsClaim(w)
        /\ audit' = Recorded({job[w]}, "failed")
        /\ UNCHANGED <<status, attempts, companyId, lease, workerId, backoff>>
        /\ UNCHANGED <<results, deadLetters, quota>>
  /\ Drop(w, IF pc[w] = "dying" THEN "dead" ELSE "idle")

\* _record_failure: exhaustion is judged by the attempts the claim read.
RecordFailure(w) ==
  /\ pc[w] \in {"failing", "dying"}
  /\ \/ OwnsClaim(w) /\ Failed({job[w]}, IF tries[w] >= MaxAttempts THEN {job[w]} ELSE {})
     \/ ~OwnsClaim(w) /\ UNCHANGED tables
  /\ Drop(w, IF pc[w] = "dying" THEN "dead" ELSE "idle")

\* The process dies; an open transaction is rolled back by the server.
Crash(w) ==
  /\ pc[w] \notin {"off", "dying", "dead"}
  /\ Cardinality(Doomed) < MaxCrashes
  /\ Drop(w, "dead")
  /\ UNCHANGED tables
-----------------------------------------------------------------------------
ApiStep ==
  \E c \in Companies, j \in Jobs :
    CreateJob(c, j) \/ CancelJob(c, j) \/ RetryJob(c, j)

ClockStep == \E j \in Jobs : LeaseExpires(j) \/ BackoffEnds(j)

WorkerStep(w) ==
  \/ Start(w) \/ RecoverStaleJobs(w) \/ Claim(w) \/ FindNothing(w)
  \/ RenewLease(w) \/ CancelToken(w) \/ FinishWork(w) \/ AbortWork(w)
  \/ FailWork(w) \/ MonitorHangs(w) \/ Finalize(w) \/ Acknowledge(w)
  \/ RecordFailure(w) \/ Crash(w)

Next == ApiStep \/ ClockStep \/ \E w \in Workers : WorkerStep(w)

Spec == Init /\ [][Next]_vars

\* Clocks advance; an executing job ends (its work is bounded, and every way
\* out of "working" leaves it); a process takes its steps and polls at least
\* every 30s; a claim is not passed over forever, since the row locks it skips
\* are held for one short transaction.
Fairness ==
  /\ \A j \in Jobs : WF_vars(LeaseExpires(j)) /\ WF_vars(BackoffEnds(j))
  /\ \A w \in Workers :
       /\ WF_vars(Start(w))
       /\ WF_vars(RecoverStaleJobs(w))
       /\ SF_vars(Claim(w))
       /\ WF_vars(FindNothing(w))
       /\ WF_vars(FinishWork(w) \/ AbortWork(w) \/ FailWork(w))
       /\ WF_vars(Finalize(w) \/ Acknowledge(w) \/ RecordFailure(w))

FairSpec == Spec /\ Fairness
-----------------------------------------------------------------------------
(* Invariants.                                                             *)

\* A row that names a worker is running, and that worker is still executing
\* this attempt of it or has died: no claim outlives the round that made it,
\* so the worker_id in a WHERE clause identifies the attempt
\* (processor.py: _claim_next, _renew_lease, _finalize, _record_failure).
ClaimsBelongToTheirWorker ==
  \A j \in Jobs :
    IF workerId[j] = None
      THEN lease[j] = "none" /\ (status[j] = "running" => attempts[j] = 0)
      ELSE LET w == workerId[j]
           IN /\ status[j] = "running" /\ lease[j] # "none"
              /\ \/ pc[w] = "dead"
                 \/ pc[w] \in HoldingJob /\ job[w] = j /\ tries[w] = attempts[j]

\* Two processes may be executing one job (a slow worker and its successor),
\* but never the same attempt of it, whatever was recovered, retried or
\* cancelled in between (processor.py: _claim_next, SKIP LOCKED).
OneWorkerPerAttempt ==
  \A v, w \in Workers :
    job[v] # None /\ job[v] = job[w] /\ tries[v] = tries[w] => v = w

\* A job has a result exactly when it is done: a cancelled, failed or
\* recovered run leaves none behind (processor.py: _finalize).
ResultIffDone == results = {j \in Jobs : status[j] = "done"}

\* Each company pays once per job completed by a worker, and for nothing else
\* (processor.py: _finalize, the debit guarded by the insert).
Completed(c) == {j \in results : companyId[j] = c /\ attempts[j] > 0}
QuotaPaysForResults ==
  \A c \in Companies : quota[c] = InitialQuota - Cardinality(Completed(c))

\* The dead letters are the failed jobs with no attempt left, however their
\* last run ended, and a queued job always has one left: none is stuck in the
\* queue (processor.py: _record_failure, recover_stale_jobs; service.py:
\* retry_job).
DeadLettersAreExhausted ==
  /\ deadLetters = {j \in Jobs : status[j] = "failed" /\ attempts[j] = MaxAttempts}
  /\ \A j \in Jobs : status[j] = "queued" => attempts[j] < MaxAttempts

\* The audit trail of a job that was submitted through the API explains its
\* row: every claim is followed by one event that closes it, unless it is
\* still running or was cancelled, every failed run but the last was retried,
\* and the last event is the one of the current status
\* (processor.py and service.py: _record_audit_event).
Count(j, event) == Cardinality({i \in DOMAIN audit[j] : audit[j][i] = event})
LastEventOf ==
  [queued |-> {"submitted", "retry_requested"},
   running |-> {"submitted", "retry_requested"},
   done |-> {"completed"}, failed |-> {"failed"}, cancelled |-> {"cancelled"}]
AuditExplainsTheRow ==
  \A j \in Jobs \ Seeded :
    status[j] # "absent" =>
      LET open == attempts[j] - Count(j, "failed") - Count(j, "completed")
          unretried == Count(j, "failed") - Count(j, "retry_requested")
      IN /\ CASE status[j] = "running" -> open = 1
              [] status[j] = "cancelled" -> open \in {0, 1}
              [] OTHER -> open = 0
         /\ unretried = IF status[j] = "failed" THEN 1 ELSE 0
         /\ audit[j][Len(audit[j])] \in LastEventOf[status[j]]
-----------------------------------------------------------------------------
(* What a step may never do.                                               *)

\* done, cancelled and dead-lettered jobs keep their status and attempts for
\* ever: a late finalize or failure of a stale worker changes nothing
\* (processor.py and service.py: the status tests of every UPDATE).
Final(j) == status[j] \in {"done", "cancelled"} \/ j \in deadLetters
FinalStatesAreKept ==
  [][\A j \in Jobs : Final(j) =>
       /\ status'[j] = status[j] /\ attempts'[j] = attempts[j]
       /\ (j \in deadLetters => j \in deadLetters')]_vars

\* While a lease is live only the worker that holds it, or a cancellation,
\* ends the run: neither the recovery by other workers nor the late failure
\* or finalize of a previous holder does (processor.py: recover_stale_jobs,
\* _finalize, _record_failure).
LiveClaimsAreNotStolen ==
  [][\A j \in Jobs :
       status[j] = "running" /\ lease[j] = "live" /\ status'[j] # "running" =>
         \/ status'[j] = "cancelled"
         \/ \E w \in Workers : /\ workerId[j] = w /\ job[w] = j
                               /\ pc[w] # pc'[w]]_vars
-----------------------------------------------------------------------------
(* What must happen.                                                       *)

\* Every run ends, also one whose worker died or that has no lease
\* (processor.py: recover_stale_jobs).
EveryRunEnds ==
  \A j \in Jobs : status[j] = "running" ~> status[j] # "running"

\* Every queued job leaves the queue, a retried one after its backoff
\* (processor.py: _claim_next).
EveryQueuedJobIsServed ==
  \A j \in Jobs : status[j] = "queued" ~> status[j] # "queued"
-----------------------------------------------------------------------------
(* The queue implements the life cycle it promises: leases, workers and    *)
(* tokens are hidden, and the rows a tenant sees move as JobLifecycle says *)
(* (processor.py: process_next; service.py: create_job, cancel_job,        *)
(* retry_job).                                                             *)
Lifecycle == INSTANCE JobLifecycle
ImplementsLifecycle == Lifecycle!Spec

\* What the row of the job a worker holds is to its round.
RowSeen(w) ==
  IF OwnsClaim(w) THEN "running"
  ELSE IF status[job[w]] = "cancelled" THEN "cancelled" ELSE "lost"

\* The round of worker w with job j; row and token outlive it as last and mark.
Round(w, j, last, mark) == INSTANCE JobRound WITH
  phase <- pc[w],
  row <- IF job[w] = j THEN RowSeen(w) ELSE last,
  token <- IF job[w] = j THEN token[w] \/ pc[w] = "dying" ELSE mark

\* Seen from one claim the queue is JobRound, which the threads of JobExecution
\* implement: a claim begins a round, and whatever other workers, tenants and
\* clocks do, to the round it is one of JobRound's steps or nothing, until the
\* worker drops the job and leaves the row as JobRound says
\* (processor.py: process_next, _execute).
BeginsRound(w) ==
  pc'[w] = "working" /\ pc[w] # "working" =>
    \E j \in Jobs : job'[w] = j /\ Round(w, j, "lost", FALSE)!Init'
GoesOnAsRound(w, j) ==
  \E last \in {"running", "lost", "cancelled", "done", "failed"}, mark \in BOOLEAN :
    /\ last = "lost" \/ status'[j] = last
    /\ [Round(w, j, last, mark)!Next]_(Round(w, j, last, mark)!roundVars)
RoundsAreJobRounds ==
  [][\A w \in Workers :
       /\ BeginsRound(w)
       /\ \A j \in Jobs : job[w] = j => GoesOnAsRound(w, j)]_vars
-----------------------------------------------------------------------------
(* What the documentation says and the code does not do.                   *)

\* admin/routes.py:39 calls max_concurrent_jobs the "Limite de jobs
\* concorrentes" of a company; retry_job does not look at it.
ActiveJobsWithinLimit ==
  \A c \in Companies : Cardinality(Active(c)) <= MaxConcurrentJobs

\* docs/worker.md:52 says of a finalize that matches no row "o job foi
\* cancelado no meio", and _finalize returns "cancelled"; the job may instead
\* have been recovered by another worker.
UnmatchedFinalizeWasCancelled ==
  [][\A w \in Workers :
       pc[w] = "finalizing" /\ pc'[w] = "idle" =>
         status'[job[w]] \in {"done", "cancelled"}]_vars
=============================================================================
