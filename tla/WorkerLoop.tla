----------------------------- MODULE WorkerLoop -----------------------------
(***************************************************************************)
(* worker/main.py: a worker drains the queue, then waits for a             *)
(* notification or for its timer, and drains again.  Notifications are     *)
(* lost while its LISTEN connection is broken, which it learns late;       *)
(* everything it asks of the database may fail; it may be told to stop.    *)
(*                                                                         *)
(* Time is counted in units of the shortest backoff.  The timer is set to  *)
(* the next backoff that ends, so it matters when time passes: due is what *)
(* is left of a job's backoff, timer what is left of the wait.             *)
(***************************************************************************)
EXTENDS Integers, FiniteSetsExt

CONSTANTS
  Jobs,         \* ids, taken in increasing order
  Poll,         \* POLL_FALLBACK_S
  MaxAttempts   \* MAX_ATTEMPTS

ASSUME IdsAreNumbers == Jobs \subseteq Nat
ASSUME BoundsArePositive == Poll \in Nat \ {0} /\ MaxAttempts \in Nat \ {0}

\* What a retry after n attempts waits: power(2, greatest(attempts, 1) - 1).
Backoff(n) == 2^(Max({n, 1}) - 1)

ASSUME BackoffsGrow ==
  /\ Backoff(MaxAttempts) \in Nat
  /\ \A n \in 0..(MaxAttempts - 1) : Backoff(n) \in 1..Backoff(MaxAttempts)

VARIABLES
  state,       \* of each job: absent, queued, running, failed or final
  due,         \* next_attempt_at - now(), 0 once it is past
  attempts,
  main,        \* where the worker is
  job,         \* the job it claimed
  timer,       \* what is left of the wait
  link,        \* the listener's connection: none, up, or broken unnoticed
  mail,        \* a notification has arrived on it
  shutdown,
  overlooked   \* queued jobs the last claim passed over, or whose backoff ended
               \* between it and the question for the next one

vars == <<state, due, attempts, main, job, timer, link, mail, shutdown, overlooked>>
jobVars == <<state, due, attempts, overlooked>>
waitVars == <<job, timer>>
linkVars == <<link, mail>>

TypeOK ==
  /\ state \in [Jobs -> {"absent", "queued", "running", "failed", "final"}]
  /\ attempts \in [Jobs -> 0..MaxAttempts]
  /\ due \in [Jobs -> 0..Backoff(MaxAttempts)]
  /\ job \in Jobs \cup {0}
  /\ main \in {"starting", "draining", "claiming", "processing", "asking", "waiting", "reconnecting", "stopped", "dead"}
  /\ timer \in 0..Poll
  /\ link \in {"none", "up", "broken"}
  /\ mail \in BOOLEAN /\ shutdown \in BOOLEAN
  /\ overlooked \subseteq Jobs

\* What the seed leaves: failed jobs that never ran.
Init ==
  /\ state \in [Jobs -> {"absent", "queued", "failed"}]
  /\ due = [j \in Jobs |-> 0] /\ attempts = due
  /\ main = "starting" /\ job = 0 /\ timer = 0
  /\ link = "none" /\ mail = FALSE
  /\ shutdown = FALSE
  /\ overlooked = {}
-----------------------------------------------------------------------------
Due == {j \in Jobs : state[j] = "queued" /\ due[j] = 0}
Delayed == {due[j] : j \in {i \in Jobs : state[i] = "queued" /\ due[i] > 0}}

Goto(from, to) == main = from /\ main' = to
Becomes(j, s) == state' = [state EXCEPT ![j] = s] /\ overlooked' = overlooked \ {j}
Attempt(j) == attempts' = [attempts EXCEPT ![j] = @ + 1]
\* An attempt fails or completes.
Ends(j) == \E s \in {"failed", "final"} : Becomes(j, s)

(* Others: clients, other workers, the clock and the network.              *)

\* create_job or retry_job commits, and notifies.
Enqueue(j) ==
  /\ \/ state[j] = "absent" /\ UNCHANGED due
     \/ /\ state[j] = "failed" /\ attempts[j] < MaxAttempts
        /\ due' = [due EXCEPT ![j] = Backoff(attempts[j])]
  /\ Becomes(j, "queued")
  /\ mail' = (mail \/ link = "up")
  /\ UNCHANGED <<attempts, main, waitVars, link, shutdown>>

\* cancel_job; a worker that runs the job learns of it later.
Cancel(j) ==
  /\ state[j] \in {"queued", "running"}
  /\ Becomes(j, "final")
  /\ UNCHANGED <<due, attempts, main, waitVars, linkVars, shutdown>>

\* Another worker runs the job, or recovers one whose lease has expired.
Elsewhere(j) ==
  /\ \/ j \in Due /\ Attempt(j)
     \/ state[j] = "running" /\ UNCHANGED attempts
  /\ Ends(j)
  /\ UNCHANGED <<due, main, waitVars, linkVars, shutdown>>

\* The worker wakes within its slice when the timer is over.
Tick ==
  /\ ~(main = "waiting" /\ timer = 0)
  /\ due' = [j \in Jobs |-> Max({due[j] - 1, 0})]
  /\ timer' = IF main = "waiting" THEN timer - 1 ELSE timer
  /\ overlooked' = overlooked \cup {j \in Jobs : main = "asking" /\ state[j] = "queued" /\ due[j] = 1}
  /\ UNCHANGED <<state, attempts, main, job, linkVars, shutdown>>

Break ==
  /\ link = "up" /\ link' = "broken"
  /\ UNCHANGED <<jobVars, main, waitVars, mail, shutdown>>

RequestShutdown ==
  /\ main \notin {"stopped", "dead"}
  /\ ~shutdown /\ shutdown' = TRUE
  /\ UNCHANGED <<jobVars, main, waitVars, linkVars>>
-----------------------------------------------------------------------------
(* The worker.                                                             *)

\* _connect_listener, before the first drain.
Start ==
  /\ Goto("starting", "draining")
  /\ link' = "up" /\ mail' = FALSE
  /\ UNCHANGED <<jobVars, waitVars, shutdown>>

\* drain looks at shutdown before each job.
Look ==
  /\ ~shutdown
  /\ Goto("draining", "claiming")
  /\ UNCHANGED <<jobVars, waitVars, linkVars, shutdown>>

Claim ==
  /\ Due # {}
  /\ Goto("claiming", "processing")
  /\ job' = Min(Due)
  /\ Becomes(job', "running") /\ Attempt(job')
  /\ UNCHANGED <<due, timer, linkVars, shutdown>>

\* process_next returns.  Another worker may have recovered the job.
Process ==
  /\ Goto("processing", "draining")
  /\ IF state[job] = "running" THEN Ends(job) ELSE UNCHANGED <<state, overlooked>>
  /\ job' = 0
  /\ UNCHANGED <<due, attempts, timer, linkVars, shutdown>>

\* drain returns: nothing is due but what others have locked.
FindNothing ==
  /\ Goto("claiming", "asking")
  /\ overlooked' = overlooked \cup Due
  /\ UNCHANGED <<state, due, attempts, waitVars, linkVars, shutdown>>

\* _next_poll_timeout: seconds_until_next_attempt leaves out what is due already.
Ask ==
  /\ Goto("asking", "waiting")
  /\ timer' = Min(Delayed \cup {Poll})
  /\ UNCHANGED <<jobVars, job, linkVars, shutdown>>

\* Mutant: the wait has no end of its own.
WakeByMailOnly ==
  /\ mail
  /\ ~shutdown
  /\ Goto("waiting", "draining")
  /\ mail' = FALSE
  /\ UNCHANGED <<jobVars, waitVars, link, shutdown>>

\* _wait_for_work: a notification, or the time is up.
Wake ==
  /\ mail \/ timer = 0
  /\ ~shutdown
  /\ Goto("waiting", "draining")
  /\ mail' = FALSE
  /\ UNCHANGED <<jobVars, waitVars, link, shutdown>>

\* An OperationalError of the query or of the listener.
LoseListener ==
  /\ ~shutdown
  /\ \/ Goto("asking", "reconnecting")
     \/ link = "broken" /\ Goto("waiting", "reconnecting")
  /\ link' = "none" /\ mail' = FALSE
  /\ UNCHANGED <<jobVars, waitVars, shutdown>>

\* Mutant: the worker waits at once on its new connection.
ReconnectAndWait ==
  /\ ~shutdown
  /\ Goto("reconnecting", "asking")
  /\ link' = "up"
  /\ UNCHANGED <<jobVars, waitVars, mail, shutdown>>

\* _reconnect_listener, tried every second; a drain follows.
Reconnect ==
  /\ ~shutdown
  /\ Goto("reconnecting", "draining")
  /\ link' = "up"
  /\ UNCHANGED <<jobVars, waitVars, mail, shutdown>>

\* Mutant: the loop that reconnects does not look at shutdown.
StopUnlessReconnecting ==
  /\ shutdown
  /\ \E at \in {"draining", "asking", "waiting"} : Goto(at, "stopped")
  /\ link' = "none" /\ mail' = FALSE
  /\ UNCHANGED <<jobVars, waitVars, shutdown>>

\* Every loop looks at shutdown; the job being processed is finished first.
Stop ==
  /\ shutdown
  /\ \E at \in {"draining", "asking", "waiting", "reconnecting"} : Goto(at, "stopped")
  /\ link' = "none" /\ mail' = FALSE
  /\ UNCHANGED <<jobVars, waitVars, shutdown>>

\* Outside the loop's try any failure ends the process.
Die ==
  /\ \E at \in {"starting", "draining", "claiming", "processing"} : Goto(at, "dead")
  /\ job' = 0
  /\ link' = "none" /\ mail' = FALSE
  /\ UNCHANGED <<jobVars, timer, shutdown>>

\* docker-compose.yml: restart: on-failure
Restart ==
  /\ Goto("dead", "starting")
  /\ shutdown' = FALSE
  /\ UNCHANGED <<jobVars, waitVars, linkVars>>
-----------------------------------------------------------------------------
Next ==
  \/ \E j \in Jobs : Enqueue(j) \/ Cancel(j) \/ Elsewhere(j)
  \/ Tick \/ Break \/ RequestShutdown
  \/ Start \/ Look \/ Claim \/ Process \/ FindNothing \/ Ask \/ Wake
  \/ LoseListener \/ Reconnect \/ Stop \/ Die \/ Restart

Spec == Init /\ [][Next]_vars

\* Time passes, and the worker takes the step it can.  The database comes back:
\* a start, a claim and a reconnection that are tried again and again succeed.
Fairness ==
  /\ WF_vars(Tick) /\ WF_vars(Restart) /\ WF_vars(Stop)
  /\ WF_vars(Process) /\ WF_vars(FindNothing) /\ WF_vars(Ask) /\ WF_vars(Wake)
  /\ SF_vars(Start) /\ SF_vars(Look) /\ SF_vars(Claim) /\ SF_vars(Reconnect)

FairSpec == Spec /\ Fairness
-----------------------------------------------------------------------------
(* Properties.                                                             *)

\* A worker that waits with a sound connection sleeps past nothing: a job that
\* is due or will be before the timer ends has a notification waiting, but for
\* those that were overlooked, which wait for the fallback (main.py: main,
\* _next_poll_timeout, drain).
NeverOversleeps ==
  main = "waiting" /\ link = "up" /\ ~mail =>
    \A j \in Jobs : state[j] = "queued" => due[j] >= timer \/ j \in overlooked

\* Whatever is lost, a due job is taken, unless the worker is told to stop
\* (main.py: POLL_FALLBACK_S; README.md, "recuperam notificações perdidas ou backlog").
DueJobsAreTaken == \A j \in Jobs : j \in Due ~> j \notin Due \/ shutdown

\* A worker told to stop does, also while the database is away
\* (main.py: _request_shutdown, _wait_for_work, _reconnect_listener).
ShutdownsStop == shutdown ~> main \in {"stopped", "dead"}
=============================================================================
