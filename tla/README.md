# Relay in TLA+

Relay runs background jobs for several companies. A REST API (FastAPI) inserts
jobs in a PostgreSQL table, worker processes take them from there, and a web
client submits and watches them. The table is the queue: everything that must
survive a crash is a row, and `LISTEN`/`NOTIFY` only says that it is worth
looking.

This directory states what must hold of that system, checks it with TLC on
small instances and proves its safety with TLAPS for any number of jobs,
companies, workers, requests and processes.

## The system

| Part | State | Operations | What makes it correct |
|---|---|---|---|
| Job queue (`worker/modules/jobs/processor.py`, `api/modules/jobs/service.py`) | rows of `jobs`, `job_results`, `dead_letter_jobs`, `job_audit_events`, `companies.job_quota`; in a worker, the job it claimed | create, cancel, retry; recover, claim, renew, finalize, acknowledge, record failure | one worker per attempt; a result and a charge exactly for what completed; nothing is lost when a process dies; final states stay |
| Execution of one job (`cancellation_monitor`, `lease_heartbeat`, `_execute`) | the token, three events and a lock shared by three threads, one `LISTEN` connection | start, wait for ready, notice a cancellation, renew, give up, stop | no cancellation is missed between the claim and the `LISTEN`; every thread ends; a stale notification cancels nobody else's job |
| Worker loop (`worker/main.py`, `listener.py`) | `shutdown`, the listener's connection | drain, wait, reconnect, stop | a lost notification delays a job by one poll and no more |
| Submission (`create_job`, `routes.py`) | the idempotency key of each row, the company's row lock | look the key up, lock, look it up again, count, insert, commit, reply | one job per key; a replay is never refused for want of room |
| API process (`api/main.py`, `graceful_shutdown.py`) | `in_flight`, `shutting_down`, the pool | request started, finished, drain | the pool is not disposed of under a request |
| Migration runner (`api/shared/db/migrate.py`) | the ledger, an advisory lock | lock, apply, record, unlock | each file is applied once, whoever starts first and wherever it dies |
| Web client (`SubmitButton.tsx`, `JobsPanel.tsx`, `JobDetailPanel.tsx`, `jobQueries.ts`) and the reads it makes (`list_jobs`, `get_job`, `get_result`) | the key of the next submission, the identity, the caches of list, detail and result, the panel that is open | submit, open, cancel, retry, poll, change identity | a click is one job whatever replies are lost; the page at rest shows what was done; nobody sees another company's job |
| Administration, authentication, configuration, logging, metrics, presentation | none that another part reads | | not modelled |

The parts interact in three ways. They share the tables, and every change is a
transaction whose `UPDATE ... WHERE` tests the state it expects. They notify
one another on `jobs_queued` and `jobs_cancelled`, at commit, to whoever is
connected. And they die: a worker may be killed between any two transactions,
and another one finds its job by the lease.

The hard behaviour follows from that: a slow worker and the one that replaced
it; a cancellation racing the end of the work; a failure counted or audited
twice; an attempt lost with its worker; a job nobody takes.

## Modules

| Module | What it is |
|---|---|
| `JobLifecycle` | the abstract specification: the states of a job as its tenant sees them, with one attempt per start, one result and one charge per completion and a dead letter for the last failure |
| `JobQueue` | the queue, transaction by transaction, with its workers, leases, tokens and crashes; its properties; `Lifecycle`, the refinement to `JobLifecycle`, and `Round`, which sees one round of it as a `JobRound` |
| `MCJobQueue` | the model values and the symmetry set of the runs |
| `JobQueueProofs` | the inductive invariant of `JobQueue` and the theorems |
| `KeyedJobs` | the abstract specification of a submission: a map from the idempotency keys of a company to jobs that only grows, and answers that agree with it when they are given |
| `JobSubmission` | `POST /jobs`, statement by statement, with the company's row lock, lost replies and crashes; its refinement to `KeyedJobs` |
| `MCJobSubmission` | the model values and the symmetry set of its runs |
| `JobSubmissionProofs` | the inductive invariants of `JobSubmission` and the theorems |
| `JobRound` | the abstract specification of a round: the worker of `JobQueue` seen from one claim, without its threads |
| `JobExecution` | one round of `process_next` after its claim: main thread, cancellation monitor and heartbeat; `Round`, the refinement to `JobRound` |
| `JobExecutionProofs` | the inductive invariant of `JobExecution`, the theorems and the proof of the refinement |
| `WorkerLoop` | `worker/main.py`: drain, wait, reconnect, stop, with time |
| `WorkerLoopProofs` | the inductive invariant of `WorkerLoop` and the theorems |
| `MigrationRunner` | `migrate.py`: runs of `up` and `down` by several processes, with the advisory lock, the ledger and the two kinds of files |
| `MigrationRunnerProofs` | its inductive invariant and the theorems |
| `ApiProcess` | an API container: its migrations (it extends `MigrationRunner`), then lifespan, middleware, drain and pool |
| `ApiProcessProofs` | its inductive invariant on top of the runner's, and the theorems |
| `SubmitIntent` | the button that submits a job, composed with the promise of `KeyedJobs` |
| `MCSubmitIntent` | the model values and the symmetry set of its runs |
| `SubmitIntentProofs` | its inductive invariant and the theorems |
| `JobView` | what the page shows of a job: the reads of the server, the caches, polling and invalidation |
| `JobViewProofs` | its inductive invariant and the theorems |

The modules meet at the tables. `JobQueue` is the whole queue with each
transaction as one step. `JobSubmission` opens up its `CreateJob`: it drops what
happens to a job afterwards to `End`, `Retry` and an `active` state, and looks
at the statements inside the transaction. `JobExecution` opens up the steps of
`JobQueue` from `"working"` on: `CancelToken`, `AbortWork`, `FailWork` and
`MonitorHangs` are what its threads do to the round, and its `row` is the part
of the row they test. `JobRound` writes these steps down under the names they
have in `JobQueue`. It is shown from both sides: the three threads of
`JobExecution` implement it, and what happens to a round in `JobQueue`, whoever
does it, is one of its steps (`RoundsAreJobRounds`). `WorkerLoop` opens up the worker's `"idle"`: when it asks
for a job at all. `SubmitIntent` uses `KeyedJobs`, which `JobSubmission` is shown
to implement, as its server: the promise that is proved on one side is what the
button relies on at the other. `JobView` takes what `JobQueue` does to a job as
the moves of one status. `ApiProcess` extends `MigrationRunner`, as a container
runs `migrate` and then `uvicorn` (`api/Dockerfile`).

### How `JobQueue` corresponds to the code

`status`, `attempts`, `companyId`, `workerId`, `results`, `deadLetters`,
`quota` and `audit` are columns and tables. `lease` and `backoff` are
`locked_at` and `next_attempt_at` compared with `now()`: the code only ever asks
whether a lease is older than 30 s and whether a retry is due, so a lease is
`"none"`, `"live"` or `"expired"`, and a backoff `"none"`, `"pending"` or
`"over"`. Two clock actions, `LeaseExpires` and `BackoffEnds`, may be taken at
any moment, so the model allows a slow worker and a late one without a bound.
`pc`, `job`, `tries` and `token` are the local state of `process_next` in each
process.

- Each transaction is one action. A conditional `UPDATE` takes the row's lock
  and tests its `WHERE` clause again on the committed row, so test and write
  cannot be separated; between two transactions of one worker anything may
  happen.
- `SKIP LOCKED` passes over rows that other transactions hold, whatever they
  are: `Claim` chooses a set of locked rows and takes the smallest id of the
  others, and `FindNothing` may happen although a row is due.
- The loss of a commit's acknowledgement is `Finalize` followed by a failure
  of the process; a rolled-back finalize is `FailWork` from `"finalizing"`.
- `CancelToken` may happen at any moment of the work. Its causes are the
  cancellation itself, a lost lease, three failed renewals and any failure of
  the monitor, and some of these have no trace in the tables, so the model asks
  for none. `MonitorHangs` is the monitor that survives the closing of its
  connection, after which the process records the failure and ends.
- A worker of the model is a process. `WORKER_ID` is a new uuid for each
  process and a process runs one job at a time. A process that ends for any
  reason is `"dead"`, and its replacement is another element of `Workers`.
  A shutdown by signal is a crash in `"idle"` that hurts nobody.
- A cancelled job keeps its `next_attempt_at`, as in the code.
- The rows of `Seeded` start as `db/seed.sql` leaves them: done with a result
  that was never charged, failed with no attempt, or running without a lease.

Left out of the rows: `kind`, `trace_id`, `last_error`, timestamps and texts;
idempotency keys (in `JobSubmission`). The connections, the two threads of an
execution and the notifications are abstracted to the actions they cause (in
`JobExecution` and `WorkerLoop`).

### How `JobSubmission` corresponds to the code

`pc[r]` is the next statement of request `r`, in the order of
`JobsService.create_job`: `Lookup`, `LockCompany` (`FOR UPDATE`), `Recheck`,
`CountActive`, `Insert`, then `Commit` and `Reply` of the route. `jobOf` is the
unique index on company and key, and with `kindOf` and `state` holds committed
rows only; an uncommitted row is the request's `draft`. Transactions run at READ
COMMITTED, PostgreSQL's default and psycopg's, so a statement reads what is
committed at that moment, and the row lock is held until the transaction ends
(`Unlock`). `Break` is any failure of a statement or of the process; it answers
500, or nothing to a client that left (`Disconnect`). A client that retries is
another element of `Requests` with the same key. A request without the header
gets a fresh uuid from the route: it is a request with a key of its own. `End`
and `Retry` are what workers and `retry_job` do to committed jobs; they do not
take the company's lock.

### How `JobExecution` corresponds to the code

`main`, `monitor` and `beat` are the next steps of the three threads; `flags`
holds the token, the events (`ready`, `setup_succeeded`, `stopped`, the
heartbeat's `stopped`), the recorded errors and what has become of the monitor's
connection. A step is one access to shared state or one statement. Every
statement may fail. A statement of the monitor may also never return, which is
the absence of fairness on it until it watches; `WaitReady` and the two joins
have timeouts and go on without it, `heartbeat.join()` has none. `raised` is the
exception the context managers unwind with. `row` stands for what `UPDATE ...
WHERE` finds: `"lost"` once the lease expired and another worker recovered the
job, at any moment. `mail` holds notifications received on a connection that
listens. When a monitor returns its connection `psycopg_pool` takes it back
(`"pooled"`), subscribed or not; `Close` acts on the handle the monitor left in
`monitor_connection`.

### How `WorkerLoop` corresponds to the code

`main` is the place in `main()` and `drain()`. A unit of time is the shortest
backoff, 5 s, so the fallback of 30 s is 6 of them and the backoffs are 1 and 2
(`5 * 2^(attempts - 1)` for the two attempts that can be retried); the slices of
1 s and the margin of 50 ms are below that resolution. `timer` is the rest of the
wait, `due` the rest of a job's backoff, and `Tick` lowers both, except when the
wait is over: the worker reacts within its slice. Other workers share the queue
(`Elsewhere`), and `FindNothing` may miss due jobs because others have them
locked. `link` is broken some time before the worker notices, and what is
notified meanwhile is lost. `overlooked` is not state of the program: it records
the jobs this worker had no way to see, those locked by others at the claim and
those whose backoff ended between the claim and the question for the next one,
which `next_attempt_at > now()` leaves out. They wait for the fallback. A job starts
absent, queued, or failed without an attempt, as the seed has them.

### How `MigrationRunner` and `ApiProcess` correspond to the code

`phase[r]` is where a process is in `run_migrations` or `rollback_migrations`:
`TryLock` polls the advisory lock, `Read` takes what is pending once, then each
file is worked off. A transactional file is one step with its row of the ledger
(`Migrate`). A non-transactional one is a step per statement (`Statement`) and a
step for its row (`Record`); `Script` is `0012` and its reverse, with its two
indexes as the two objects of a file. `Fail` and `Die` may come anywhere, and
break off the statement under way (`BreakOff`): a concurrent index build that is
broken off leaves an invalid index (`Broken`), which `CREATE ... IF NOT EXISTS`
is content with and `DROP ... IF EXISTS` is there for. The lock belongs to the
session and goes with it. `reverted` is a history variable: a `down` that was
broken off inside a non-transactional file leaves a ledger that still lists it.

`ApiProcess` adds the server of the process `here`. A section under the asyncio
lock has no await inside that another coroutine could use, so it is one step, as
is `drain` up to its first await. `request` is the place of a request between the
two ends of the middleware; `CallNext` ends where the response is returned.
FastAPI closes `get_db` around that moment, which the counter does not observe.
Requests may arrive until the process is gone. `timed_out` is a history variable.
Other processes may migrate while the server serves.

### How `SubmitIntent` and `JobView` correspond to the code

`key` is `idempotencyKey.current`, `pending` the request the button waits for.
The server answers as `KeyedJobs` lets it, at any time or never; `Live` takes
jobs out of the queue and back. `Settle` is the rest of `submit`: `parseJobCreated`
takes a 201 whose status is `queued`. The button is not mounted anew when the
user changes identity, so its key and its request outlive the change (`SignIn`).
`Reload` is a new page. `announced` and `forgotten` are history variables.

`past` is the list of statuses one job has had, and data anywhere is the version
it was read at. A fetch begins with the query in `fetching`, is read at the server
some time later (`ListJobs`, `GetJob`, `GetAuditEvents`, `GetResult`: the detail is
two statements), and arrives (`Receive`) or does not (`Lose`). Of TanStack Query
the module assumes what its header says. One mutation is under way at a time;
`Settle` invalidates with the identity captured when it began. `settled` and
`blind` are history variables.

Definitions commented `Mutant` are plausible bugs used to test the properties:
each replaces one definition of the model, and the property named in
`PROJECT.json` must then fail. They take no part in the specification.

## Runs

| Run | Shows |
|---|---|
| `queue_safety` | three workers, two of which may die, two jobs, two companies limited to one active job. A claim belongs to the worker that executes that attempt (`ClaimsBelongToTheirWorker`), no two workers have the same attempt (`OneWorkerPerAttempt`), a result exists exactly for the done jobs (`ResultIffDone`), dead letters are the exhausted jobs (`DeadLettersAreExhausted`), the audit trail accounts for every attempt (`AuditExplainsTheRow`), each company is charged for its own completions (`QuotaPaysForResults`), final states stay (`FinalStatesAreKept`), a live lease protects a run (`LiveClaimsAreNotStolen`), the whole implements `JobLifecycle` (`ImplementsLifecycle`), and to each round it is a `JobRound` (`RoundsAreJobRounds`) |
| `queue_liveness` | every run ends, whatever dies (`EveryRunEnds`), and every queued job is taken (`EveryQueuedJobIsServed`) |
| `limit_on_retry` | a retry exceeds `max_concurrent_jobs`, called "Limite de jobs concorrentes" in `api/modules/admin/routes.py`: only `create_job` counts |
| `submission` | two requests, two keys, two kinds and a limit of one: creates keep the limit (`CreatesKeepTheLimit`), the row lock makes the unique index redundant (`InsertFindsItsKeyFree`), every answer is right when it is given (`ImplementsKeyedJobs`): one job per key, no replay refused for want of room, no job promised that a crash takes back; and a request is answered, whatever fails before it in the queue for the company's row (`EveryRequestIsAnswered`) |
| `execution` | three threads in every order: `CancellationsAreSeen`, `WorkIsSupervised`, `FinalizesAreClean`, `SignalsHaveACause`, `NoThreadOutlivesItsRound`; the whole is the round the queue counts on (`ImplementsJobRound`); and a job cancelled under watch stops, however long its work (`CancelledWorkEnds`) |
| `loop` | a waiting worker sleeps past no job it could see (`NeverOversleeps`), each due job is taken although notifications are lost (`DueJobsAreTaken`), and a shutdown is obeyed, also while the database is away (`ShutdownsStop`) |
| `api` | two containers, three files of which the second is non-transactional, three runs of `up` or `down`, two requests. The ledger is a prefix of the files (`LedgerIsAPrefix`) and says what is in the schema (`LedgerTellsTheSchema`), who waits for the lock gets it though its holders die (`RunnersGetTheLock`), requests meet a whole schema (`RequestsMeetTheSchema`), `in_flight` is exact (`CounterIsExact`), no pool is closed under a request unless the drain timed out (`PoolOutlivesRequests`), and a shutdown ends though its requests do not (`ShutdownsEnd`) |
| `view` | one job with up to four statuses, a user of its company and one of another, any fetch lost, aborted or overtaken. The page at rest shows what a mutation did (`MutationsAreShown`), an end is shown with its event although a detail is two statements (`EndsAreExplained`), a result is asked for only when it is there (`ResultsAreThere`), another company's user is shown nothing (`JobsStayInTheirCompany`), and an active job is followed (`ActiveJobsAreFollowed`) |
| `submit` | three presses, two companies, lost and late replies, a reload: pressing again makes no second job (`PressesAreNotDuplicated`), and no job is announced twice (`AnnouncedJobsAreSettled`) |
| `submit_stuck` | a press is repeated after its job left the queue: the reply names the job and the page refuses it, where `api/modules/jobs/schemas.py` says that a replay has the status the job has by then |
| `execution_spare` | a round that was merely cancelled ends the process after all: the stop join times out just when the monitor has given its connection back and not yet cleared the handle, the main thread closes a spare of the pool, and the next round's first statement fails on it, where `docs/worker.md` says that the process lives on |
| `finalize_unmatched` | a finalize that matches no row follows a recovery by another worker, where `docs/worker.md` concludes that the job was cancelled |

**Bounds.** Two jobs are enough for a worker to hold one while its successor, or
itself, deals with another, and for the order of claims to matter. Three workers
give a slow worker, its successor and a third that recovers from either; with
two crashes the last one must still finish the work. `MaxAttempts` is 2 in the
runs about interleavings, so that the last attempt is reached from a first
failure of each kind, and 3, the code's value, in the others. Seeded jobs are in
the runs that do not count the audit trail, which the seed does not explain. The number of transactions is not
bounded: attempts bound each job, and a worker may go round for ever.
`InitialQuota` may be exhausted: nothing in the code tests the quota.
`MaxCrashes` is the only bound the program does not have; one worker always
survives. The queue's runs check deadlock: a living worker always has a step.

Two requests are enough for one to hold the company's row while the other waits
with the same key or takes the last place of the limit, and for one to be a
replay of what the other did; two kinds make a replay that differs, two companies
one that is unknown. A round of `JobExecution` is one instance and has no
bound but the code's three failed renewals; notifications of one kind are
indistinguishable, so a set of two is the whole mailbox. Two jobs in
`WorkerLoop` let one be due while the other is delayed or being processed;
three attempts, the code's value, give both backoffs. The run's fallback is 3
units instead of 6: what matters is that it is longer than any backoff. Three
runs of the migrations let one break off, one repair and one revert what a server
relies on; a file before and one after the non-transactional one make its order
matter. Two requests make a counter that can be wrong. Three presses let one be
lost, one repeat it and one ask for something else; five keys leave one for a
reload (`MaxKeys`), and a key for each press. Four statuses (`MaxChanges`) are a
job that ran to an end and was retried if that was a failure; what they leave out
of the safety properties the proofs cover, which are for any number. These
models end (a request is answered, a round is over, a worker has stopped, a process is down,
the presses are used up, the job is final and the page at rest), so
their runs do not check deadlock.

**Fairness** matters to the liveness properties and to `execution_spare` only.
`JobQueue`: clocks advance. A process takes its next step, since each is a bounded transaction or a bounded piece of work: the
simulated work is ten sleeps, and every way out of it leaves `"working"`.
A process polls at least every 30 s (`POLL_FALLBACK_S`). `Claim` is strongly
fair: the alternative, `FindNothing` with a row due, needs another transaction
to hold that row at that moment, and the transactions are short. Crashes,
cancellations, retries, new jobs, renewals and token faults are not fair.
A worker that renews for ever would keep its run; it cannot, because its work
ends. `JobSubmission`: every request takes its next statement, and PostgreSQL
grants a row lock that is released again and again (strong fairness of
`LockCompany`). `JobExecution`: the main thread and the heartbeat go on, since
their waits have timeouts or end with the thread they wait for; the monitor goes
on once it watches, because `notifies` returns at least every 0.1 s. That the
work ends, that a `LISTEN` or a `SELECT` of the monitor returns, is not assumed.
`WorkerLoop`: time passes, and the worker takes the step it is at. Starting,
claiming and reconnecting are strongly fair: the database does not fail each
time it is tried, and Docker restarts a process that failed
(`restart: on-failure`). Nothing is assumed of notifications or of others.
`ApiProcess`: a process that migrates goes on and polls for the lock for ever
(weak fairness is enough because the runs are bounded, so a lock released at last
stays free); the event loop runs what is ready and its timers expire. That a
request or a statement ends is not assumed. `JobView`: timers fire and the server
reads; of the answers to one who asks again and again some arrive (strong fairness
of `Receive`). That the job goes on, or that the user does anything, is not assumed.
`SubmitIntent` has no liveness and no fairness: a reply may never come.

## Proofs

`JobQueueProofs` proves, for any finite set of jobs (ids are naturals), any
companies, workers, limits, attempts and crashes, from the assumptions named in
`JobQueue`:

| Theorem | Property |
|---|---|
| `TypeCorrect` | `TypeOK` |
| `ClaimsAreOwned` | `ClaimsBelongToTheirWorker` |
| `AttemptsAreExclusive` | `OneWorkerPerAttempt` |
| `ResultsAreAtomic` | `ResultIffDone` |
| `DeadLettersAreExact` | `DeadLettersAreExhausted` |
| `ChargesAreExact` | `QuotaPaysForResults` |
| `AuditIsComplete` | `AuditExplainsTheRow` |
| `FinalStatesStay` | `FinalStatesAreKept` |
| `LiveClaimsAreSafe` | `LiveClaimsAreNotStolen` |
| `QueueImplementsLifecycle` | `ImplementsLifecycle` |
| `RoundsAreAsExecuted` | `RoundsAreJobRounds` |
| `RetriesAloneExceedTheLimit` | what is true instead of `ActiveJobsWithinLimit` |
| `UnmatchedFinalizesAreSuperseded` | what is true instead of `UnmatchedFinalizeWasCancelled` |

The inductive invariant `IInv` joins the type invariant, two facts about local
state and rows (`RoundsHoldJobs`: a worker inside a round has a job and an
attempt of it that the row has counted; `RowsAreWhole`: a row has a company),
and four of the properties. They need each other. That the attempts a worker
read at its claim decide the dead letter is right only because a row that still
names the worker is at that attempt (`ClaimsBelongToTheirWorker`); this is kept
by a claim only because a worker that claims holds no row; and the exclusive
attempt follows because every attempt held is at most the row's count
(`RoundsHoldJobs`) and a claim goes beyond it. There is one lemma per group of
actions (API, clock, worker) and one per kind of worker step: moving within a
round, ending a round without a claim, failing rows, finalizing.

The audit trail is proved with a relation between a row and its events that each
move of a row keeps (`RowMoves`), as its events are only ever appended to.
The charge is proved on top of it: finalizing adds exactly one element to
`Completed` of the job's company, and `FS_AddElement` counts it. The refinement
is the identity on the six variables of `JobLifecycle`; each action maps to one
of its actions or to a stutter, `RecoverStaleJobs` to one `Fail` of a set.

A round is seen through `RowSeen`: the row is the worker's, or cancelled, or
lost. Others move it in one direction only, as a cancellation is final and a row
gets a worker's name from that worker's claim alone (`RowSeenStep`), which
cannot happen inside its round. `JobRound` goes on after the worker has dropped
the job, where the queue has no more to say than what the row was left as: that
is what `last` and `mark` stand for. Initial states and steps are shown one by
one; that a round's behaviour as a whole is one of `JobRound` follows, but not
as a formula of one specification, since a worker has many rounds.

The last two theorems say what the code guarantees where two runs show that
its documentation promises more. Only a retry leaves a company with more active
jobs than its limit: `CreateJob` adds one under the limit and nothing else adds
any. And a worker that lost its claim holds a job that was cancelled, or an
attempt that a recovery failed and that may have been followed by others
(`LostClaimsAreSuperseded`): its finalize changes nothing, and if the job is done
a later attempt did it. This one is an invariant on top of `IInv`, which gives it
that no two workers are at one attempt.

`JobSubmissionProofs` does the same for any requests, companies and keys, a
finite set of jobs and any positive limit:

| Theorem | Property |
|---|---|
| `SubmissionTypes` | `TypeOK` |
| `InsertsMeetNoConflict` | `InsertFindsItsKeyFree` |
| `LimitIsKept` | `CreatesKeepTheLimit` |
| `SubmissionIsKeyed` | `ImplementsKeyedJobs` |
| `KeysNameOneJob` | `OneJobPerKey`, what a client may conclude |

Here `IInv` says that a request keeps what it asked (`PayloadsAreKept`), that
who is between the lock and the commit holds its company's row and alone
(`LocksAreHeld`), that what it found free under the lock stays free
(`KeysAreFree`), that each committed row belongs to one key (`RowsAreKeyed`),
and that no two requests draft one id (`DraftsAreFresh`). The limit is a second
invariant on top of it: while a request holds the row, the jobs the limit counts
only become fewer, so what `CountActive` saw still has room at the commit. Jobs
requeued by a retry are left out of the count, as `retry_job` takes no lock and
counts nothing; run `limit_on_retry` shows what that costs. The refinement is the
identity on the five variables of `KeyedJobs`, and rests on one more fact, that
a request has no code before it is answered or its client has gone.
`KeysNameOneJob` draws the consequence from the steps of `KeyedJobs` alone: of all
the replies ever given, the 201s of one company and key name one job of the kind
asked for, and those of different keys different jobs.

`JobExecutionProofs`, for any number of failed renewals (`MaxFailures`):

| Theorem | Property |
|---|---|
| `ExecutionTypes` | `TypeOK` |
| `CancellationsReachTheToken` | `CancellationsAreSeen` |
| `WorkHasAMonitor` | `WorkIsSupervised` |
| `DoneIsClean` | `FinalizesAreClean` |
| `SignalsAreAccountedFor` | `SignalsHaveACause` |
| `ThreadsEndWithTheRound` | `NoThreadOutlivesItsRound` |
| `RoundsAreRounds` | `ImplementsJobRound` |

The invariant has two parts, `FailuresAreFew` and `Control`. `Control` says in
what order the threads' places and the events can be: a subscription is there
until it is released, work starts after the monitor's confirmation, a monitor
ends for a signal or because it was told to, an error is recorded with a signal,
and after the joins the threads have ended (`ThreadsAreOver`), which is why
nothing new can be signalled to who finalizes (`EndsUnsignalled`). The refinement
maps the main thread's places to the worker's phases of `JobQueue` (`PhaseOf`).

`WorkerLoopProofs`, for any jobs, fallback and limit of attempts: `LoopTypes`
(`TypeOK`) and `WorkersWakeInTime` (`NeverOversleeps`). What makes it inductive is
`AsksInTime`: when the worker asks for the next backoff, a queued job it neither
sees as delayed nor has a notification for is one it overlooked. That backoffs
grow with the attempts is an assumption (`BackoffsGrow`), as it takes an
induction over exponents; TLC evaluates it.

`MigrationRunnerProofs`, for any processes, files, non-transactional files among
them and runs: `MigrationTypes`, `LedgersAreInOrder` (`LedgerIsAPrefix`),
`LedgersAreTrue` (`LedgerTellsTheSchema`) and `ServersFindTheSchema`, which says
that who migrated up has a whole schema (`ServesOnWholeSchema`). The invariant
adds that who is between lock and unlock holds the lock (`HolderIsAlone`), so that
what it read of the ledger is still so (`PendingIsTrue`), that the statements
executed of a file have had their effect (`StatementsAreDone`), and that nothing
is missing from the ledger after an `up` (`LedgerIsComplete`). `ApiProcessProofs` adds,
for any finite set of requests, `ApiTypes`, `CountersAreExact`,
`DrainsLoseNothing` (`PoolOutlivesRequests`: nothing is in flight once the drain
is over, `DrainIsFinal`), `RequestsFindTheSchema`, and that each step of a
container is a step of the runner (`Migrates`), from which `ApiKeepsTheLedger` and
`ApiKeepsTheLedgerTrue` follow.

`SubmitIntentProofs`, for any companies, jobs and finite set of presses:
`IntentTypes`, `WishesAreGrantedOnce` (`PressesAreNotDuplicated`) and
`JobsAreAnnouncedOnce` (`AnnouncedJobsAreSettled`). The invariant says that a job
was asked for under one key of one company (`RowsAreKeyed`), that nothing was
asked for under a key to come (`AsksAreOld`), that 201 names the job of its key
(`RepliesAreTrue`), that announced jobs are those of keys put aside, and that each
key put aside has had its job announced (`RenewedAreAnnounced`); `KeysAreLeft`
says that the bound on keys is never met. `IntentIsAClient` shows the server of
this module to be `KeyedJobs`, so that what `SubmissionIsKeyed` proves of
`POST /jobs` is all the button relies on.

`JobViewProofs`, for any users, owners among them and length of the job's history:

| Theorem | Property |
|---|---|
| `ViewTypes` | `TypeOK` |
| `MutationsShow` | `MutationsAreShown` |
| `EndsHaveEvents` | `EndsAreExplained` |
| `ResultsAreFound` | `ResultsAreThere` |
| `CompaniesAreApart` | `JobsStayInTheirCompany` |

A version is an index in the job's history, so what was read later is a greater
number and the history only grows. `ListIsNotBehind` and `DetailIsNotBehind` carry
`MutationsAreShown`: what is at rest, and each answer under way that was read
at the server, is at least at the last settled mutation, because settling begins
every fetch anew. They need that nobody is told of the future
(`VersionsArePast`, `SettledIsPast`) and that who sends a mutation has the list
(`SendersHaveTheList`). `DetailsAreInOrder` is why an end comes with its
event: an answer's events are not older than its row, and a detail is not
replaced by an older one. `EndsAreLast` and `ResultsAreKnown` make a cached `done`
the job's last status, so its result is there; `OthersSeeNothing` keeps the
answers, caches and mutations of another company's user free of the job.

The type invariants are proved rather than run.

Only model-checked: all liveness (`EveryRunEnds`, `EveryQueuedJobIsServed`,
`EveryRequestIsAnswered`, `CancelledWorkEnds`, `DueJobsAreTaken`, `ShutdownsStop`,
`RunnersGetTheLock`, `ShutdownsEnd`, `ActiveJobsAreFollowed`), which is out of the
prover's reach. Every safety property of the passing runs is proved.

## What the code does otherwise than its documentation says

The four runs that expect a violation, above: a retry exceeds the limit
(`service.py:209`), a finalize that matches nothing need not be a cancellation
(`processor.py:341`), closing the monitor's connection by a stale handle may
end the process (`processor.py:104`), and a page whose reply was lost may be stuck
with its key (`SubmitButton.tsx:24`). And `failed` is the state after any
attempt that fails (`processor.py:390`), the first included, where `api/main.py`
describes it as "após 3 tentativas"; the model follows the code. `main.py:55`
logs `drained=True` also after a drain that timed out.

## Not modelled

Administration changes no state and reads what the queue writes. Authentication
is a parse of a header whose result is the company of an API action.
Configuration is read once. Logging, metrics, dashboards, documentation pages,
benchmarks and presentation are observed by no part of the program.

Of modelled parts: row locks beyond what `SKIP LOCKED`, the conditional `UPDATE`s
and the company's `FOR UPDATE` need. Creates and finalizes make no cycle of them:
a create locks the company's row (`service.py:137`) and then only a row nobody
else can hold, and a finalize updates that row last (`processor.py:349`). Also the
sizes of pools; the race of two threads to make the API's first pool
(`pool.py:18`); in the web client pages, filters, toasts, the highlight of a new
job and a second job beside the one watched. `busy` follows only the latest
mutation, so a cancel of another job lets the first be sent again; the server's
conditional `UPDATE` answers it 409.
PostgreSQL, psycopg and the browser are
modelled by how the code uses them.
