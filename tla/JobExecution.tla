---------------------------- MODULE JobExecution ----------------------------
(***************************************************************************)
(* One round of process_next after its claim: the main thread, the thread  *)
(* that watches for a cancellation and the one that renews the lease.      *)
(* They share a token, four events, two errors of the job's dict and the   *)
(* monitor's connection, all of them members of flags once they are set.   *)
(*                                                                         *)
(* Any statement may fail.  A statement of the monitor may also take for   *)
(* ever, and then the main thread gives up waiting for it.  Other          *)
(* processes cancel the job, or take it over when its lease has expired,   *)
(* at any time.                                                            *)
(***************************************************************************)
EXTENDS Naturals

CONSTANT MaxFailures   \* HEARTBEAT_MAX_FAILURES

ASSUME FailuresAreCounted == MaxFailures \in Nat \ {0}

VARIABLES
  row,       \* the job's row: running here, cancelled, lost to others, done, failed
  mail,      \* cancellations the monitor was notified of: of this job, of others
  main,      \* the next step of the main thread
  raised,    \* the exception it unwinds with
  monitor,   \* the next step of the monitor
  beat,      \* the next step of the heartbeat
  failures,  \* its transient_failures
  flags

vars == <<row, mail, main, raised, monitor, beat, failures, flags>>

Events == {"token", "ready", "setup_succeeded", "stopped", "beat_stopped"}
Errors == {"monitor_error", "heartbeat_error"}
\* monitor_connection names the connection; it listens, is closed by the main
\* thread, is back in the pool.
Connection == {"handle", "listening", "closed", "pooled"}
Ended == {"returned", "idle", "dead"}

TypeOK ==
  /\ row \in {"running", "cancelled", "lost", "done", "failed"}
  /\ mail \subseteq {"this", "other"}
  /\ main \in {"waiting", "checking", "entering", "working", "reading", "joining", "stopping",
               "join_once", "closing", "join_twice", "left", "finalizing", "acknowledging",
               "failing"} \cup Ended
  /\ raised \in {"nothing", "cancelled", "error", "fatal"}
  /\ monitor \in {"connecting", "listening", "selecting", "announcing", "watching", "releasing",
                  "unwinding", "reporting", "leaving", "done"}
  /\ beat \in {"off", "waiting", "renewing", "giving_up", "done"}
  /\ failures \in 0..MaxFailures
  /\ flags \subseteq Events \cup Errors \cup Connection

\* The claim has committed and the monitor's thread has started.
Init ==
  /\ row = "running" /\ mail = {} /\ flags = {}
  /\ main = "waiting" /\ raised = "nothing"
  /\ monitor = "connecting"
  /\ beat = "off" /\ failures = 0
-----------------------------------------------------------------------------
Set(names) == flags' = flags \cup names
Main(from, to) == main = from /\ main' = to
Monitor(from, to) == monitor = from /\ monitor' = to
If(condition, names) == IF condition THEN names ELSE {}

OthersStep == UNCHANGED <<main, raised, monitor, beat, failures, flags>>
\* Daemon threads end with the process.
MonitorOnly == main # "dead" /\ UNCHANGED <<row, main, raised, beat, failures>>
BeatOnly == main # "dead" /\ UNCHANGED <<row, mail, main, raised, monitor>>
MainOnly == UNCHANGED <<mail, monitor, failures>>
-----------------------------------------------------------------------------
(* Other processes.                                                        *)

\* cancel_job commits: those who listen are notified.  A job taken over may be
\* cancelled later, and keeps its id.
Cancel ==
  /\ row \in {"running", "lost"}
  /\ row' = "cancelled"
  /\ mail' = mail \cup If("listening" \in flags, {"this"})
  /\ OthersStep

CancelOther ==
  /\ "listening" \in flags
  /\ mail' = mail \cup {"other"}
  /\ UNCHANGED row /\ OthersStep

\* recover_stale_jobs of another worker.
TakeOver ==
  /\ row = "running" /\ row' = "lost"
  /\ UNCHANGED mail /\ OthersStep
-----------------------------------------------------------------------------
(* The monitor.                                                            *)

\* A statement raises: on a closed connection always, on another at any time.
MonitorFails ==
  /\ \/ Monitor("connecting", "reporting")
     \/ \E at \in {"listening", "selecting", "watching"} : Monitor(at, "unwinding")
  /\ UNCHANGED <<mail, flags>> /\ MonitorOnly

Connect ==
  /\ Monitor("connecting", "listening")
  /\ Set({"handle"})
  /\ UNCHANGED mail /\ MonitorOnly

\* Mutant: the status is read before the subscription is active.
ListenTooLate ==
  /\ "closed" \notin flags
  /\ Monitor("listening", "selecting")
  /\ UNCHANGED <<mail, flags>> /\ MonitorOnly

\* LISTEN and its commit.
Listen ==
  /\ "closed" \notin flags
  /\ Monitor("listening", "selecting")
  /\ Set({"listening"})
  /\ UNCHANGED mail /\ MonitorOnly

\* SELECT status, its commit, and what it says.
Select ==
  /\ "closed" \notin flags
  /\ Monitor("selecting", "announcing")
  /\ Set({"setup_succeeded"} \cup If(row = "cancelled", {"token"}))
  /\ UNCHANGED mail /\ MonitorOnly

\* The monitor ends here if the token is cancelled, by whomever.
Announce ==
  /\ Monitor("announcing", IF "token" \in flags THEN "releasing" ELSE "watching")
  /\ Set({"ready"})
  /\ UNCHANGED mail /\ MonitorOnly

\* Mutant: any notification is taken for this job's.
WatchAnything ==
  /\ "closed" \notin flags
  /\ "stopped" \in flags \/ mail # {}
  /\ Monitor("watching", "releasing")
  /\ Set(If(mail # {}, {"token"}))
  /\ mail' = {}
  /\ MonitorOnly

\* The loop on notifies() reads what has arrived, and ends with a notification
\* of this job or when it is told to stop.
Watch ==
  /\ "closed" \notin flags
  /\ \/ "stopped" \in flags /\ Monitor("watching", "releasing") /\ UNCHANGED <<mail, flags>>
     \/ "this" \in mail /\ Monitor("watching", "releasing") /\ Set({"token"}) /\ mail' = {}
     \/ mail = {"other"} /\ Monitor("watching", "watching") /\ UNCHANGED flags /\ mail' = {}
  /\ MonitorOnly

\* _release_listen, whose failures are suppressed, and the end of "with factory()":
\* the pool takes the connection back if it is still open.  In a transaction that
\* has failed UNLISTEN fails too, and the subscription stays.
Release ==
  /\ \/ Monitor("releasing", "leaving")
     \/ \E at \in {"releasing", "unwinding"} : Monitor(at, "reporting")
  /\ \E kept \in SUBSET {"pooled", "listening"} :
       /\ "pooled" \in kept => "closed" \notin flags
       /\ "listening" \in kept => monitor = "unwinding" /\ "listening" \in flags /\ "pooled" \in kept
       /\ flags' = (flags \ {"listening"}) \cup kept
  /\ mail' = {}
  /\ MonitorOnly

\* Mutant: the error is recorded and the work goes on.
ReportOnly ==
  /\ Monitor("reporting", "leaving")
  /\ Set({"monitor_error"})
  /\ UNCHANGED mail /\ MonitorOnly

\* record_monitor_error; the main thread reads the error after the token.
Report ==
  /\ Monitor("reporting", "leaving")
  /\ Set({"monitor_error", "token"})
  /\ UNCHANGED mail /\ MonitorOnly

Leave ==
  /\ Monitor("leaving", "done")
  /\ flags' = (flags \ {"handle"}) \cup {"ready"}
  /\ UNCHANGED mail /\ MonitorOnly

MonitorStep ==
  \/ MonitorFails \/ Connect \/ Listen \/ Select \/ Announce \/ Watch
  \/ Release \/ Report \/ Leave
-----------------------------------------------------------------------------
(* The heartbeat.                                                          *)

\* stopped.wait(interval_s)
BeatWait ==
  /\ beat = "waiting"
  /\ beat' = IF "beat_stopped" \in flags THEN "done" ELSE "renewing"
  /\ UNCHANGED <<failures, flags>> /\ BeatOnly

\* _renew_lease, and what the loop makes of its failure.
Renew ==
  /\ beat = "renewing"
  /\ \/ row = "running" /\ failures' = 0 /\ beat' = "waiting"
     \/ row # "running" /\ beat' = "giving_up" /\ UNCHANGED failures
     \/ /\ failures' = failures + 1
        /\ beat' = IF failures' >= MaxFailures THEN "giving_up" ELSE "waiting"
  /\ UNCHANGED flags /\ BeatOnly

\* give_up; nobody reads the error before the thread is joined.
GiveUp ==
  /\ beat = "giving_up" /\ beat' = "done"
  /\ Set({"heartbeat_error", "token"})
  /\ UNCHANGED failures /\ BeatOnly

BeatStep == BeatWait \/ Renew \/ GiveUp
-----------------------------------------------------------------------------
(* The main thread.                                                        *)

\* ready.wait(): the monitor says so, or the time is up.
WaitReady ==
  /\ \/ "ready" \in flags /\ Main("waiting", "checking") /\ UNCHANGED <<raised, flags>>
     \/ /\ "ready" \notin flags /\ Main("waiting", "stopping")
        /\ raised' = "error" /\ Set({"monitor_error", "token"})
  /\ UNCHANGED <<row, beat>> /\ MainOnly

\* The monitor sets ready when it fails, too.
CheckSetup ==
  /\ IF "setup_succeeded" \in flags
       THEN Main("checking", "entering") /\ UNCHANGED raised
       ELSE Main("checking", "stopping") /\ raised' = "error"
  /\ UNCHANGED <<row, beat, flags>> /\ MainOnly

\* The first look at the token, and the start of the heartbeat.
Enter ==
  /\ IF "token" \in flags
       THEN Main("entering", "stopping") /\ raised' = "cancelled" /\ UNCHANGED beat
       ELSE Main("entering", "working") /\ beat' = "waiting" /\ UNCHANGED raised
  /\ UNCHANGED <<row, flags>> /\ MainOnly

\* Mutant: the work looks at the token only when it is over.
NoticeLate ==
  /\ "token" \in flags
  /\ Main("reading", "joining") /\ raised' = "cancelled"
  /\ Set({"beat_stopped"})
  /\ UNCHANGED <<row, beat>> /\ MainOnly

\* _execute looks at the token again and again.
NoticeToken ==
  /\ "token" \in flags
  /\ Main("working", "joining") /\ raised' = "cancelled"
  /\ Set({"beat_stopped"})
  /\ UNCHANGED <<row, beat>> /\ MainOnly

\* The work is over and the token was not cancelled at the last look.
LastLook ==
  /\ "token" \notin flags
  /\ Main("working", "reading")
  /\ UNCHANGED <<row, beat, raised, flags>> /\ MainOnly

\* The SELECT of the company, the one statement of the work.
ReadCompany ==
  /\ Main("reading", "joining") /\ raised' \in {"nothing", "error"}
  /\ Set({"beat_stopped"})
  /\ UNCHANGED <<row, beat>> /\ MainOnly

\* heartbeat.join() has no timeout.
JoinBeat ==
  /\ beat = "done"
  /\ Main("joining", "stopping")
  /\ raised' = IF raised = "nothing" /\ "heartbeat_error" \in flags THEN "error" ELSE raised
  /\ UNCHANGED <<row, beat, flags>> /\ MainOnly

StopMonitor ==
  /\ Main("stopping", "join_once")
  /\ Set({"stopped"})
  /\ UNCHANGED <<row, beat, raised>> /\ MainOnly

\* thread.join(stop_timeout_s)
JoinOnce ==
  /\ Main("join_once", IF monitor = "done" THEN "left" ELSE "closing")
  /\ UNCHANGED <<row, beat, raised, flags>> /\ MainOnly

\* close_monitor_connection
Close ==
  /\ Main("closing", "join_twice")
  /\ Set(If("handle" \in flags, {"closed"}))
  /\ UNCHANGED <<row, beat, raised>> /\ MainOnly

\* Mutant: a closed connection is taken for a thread that ended.
JoinTwiceBlindly ==
  /\ Main("join_twice", "left")
  /\ UNCHANGED <<row, beat, raised, flags>> /\ MainOnly

\* A monitor that is still alive after both joins is fatal.
JoinTwice ==
  /\ Main("join_twice", "left")
  /\ raised' = IF monitor = "done" THEN raised ELSE "fatal"
  /\ Set(If(monitor # "done", {"monitor_error", "token"}))
  /\ UNCHANGED <<row, beat>> /\ MainOnly

\* Mutant: the last look at the token comes before the monitor is stopped.
FinishUnchecked ==
  /\ \/ raised = "nothing" /\ Main("left", "finalizing")
     \/ raised = "cancelled" /\ Main("left", "acknowledging")
     \/ raised \in {"error", "fatal"} /\ Main("left", "failing")
  /\ UNCHANGED <<row, beat, raised, flags>> /\ MainOnly

\* Out of both context managers: the last look at the token, or the handler of
\* the exception.
Finish ==
  /\ \/ raised = "nothing" /\ Main("left", IF "token" \in flags THEN "acknowledging" ELSE "finalizing")
     \/ raised = "cancelled" /\ Main("left", "acknowledging")
     \/ raised \in {"error", "fatal"} /\ Main("left", "failing")
  /\ UNCHANGED <<row, beat, raised, flags>> /\ MainOnly

\* _finalize: its transaction, or its failure.
Finalize ==
  /\ \/ Main("finalizing", "returned") /\ row' = IF row = "running" THEN "done" ELSE row
     \/ Main("finalizing", "failing") /\ UNCHANGED row
  /\ UNCHANGED <<beat, raised, flags>> /\ MainOnly

\* _acknowledge_cancellation: a job that was not cancelled has failed.  An
\* exception in a handler ends the process.
Acknowledge ==
  /\ \/ Main("acknowledging", IF row = "cancelled" THEN "returned" ELSE "failing")
     \/ Main("acknowledging", "dead")
  /\ UNCHANGED <<row, beat, raised, flags>> /\ MainOnly

\* _record_failure; a fatal error goes on to end the process.
RecordFailure ==
  /\ \/ /\ Main("failing", IF raised = "fatal" THEN "dead" ELSE "returned")
        /\ row' = IF row = "running" THEN "failed" ELSE row
     \/ Main("failing", "dead") /\ UNCHANGED row
  /\ UNCHANGED <<beat, raised, flags>> /\ MainOnly

\* drain goes on with a connection of the pool.  The pool does not look whether
\* a spare one is still open; if it is not, the first statement of the round
\* fails outside any handler.
NextRound ==
  /\ \/ Main("returned", "idle")
     \/ {"pooled", "closed"} \subseteq flags /\ Main("returned", "dead")
  /\ UNCHANGED <<row, beat, raised, flags>> /\ MainOnly

MainStep ==
  \/ WaitReady \/ CheckSetup \/ Enter \/ NoticeToken \/ ReadCompany \/ JoinBeat
  \/ StopMonitor \/ JoinOnce \/ Close \/ JoinTwice \/ Finish
  \/ Finalize \/ Acknowledge \/ RecordFailure \/ NextRound
-----------------------------------------------------------------------------
Next ==
  \/ Cancel \/ CancelOther \/ TakeOver
  \/ MonitorStep \/ BeatStep
  \/ MainStep \/ LastLook

Spec == Init /\ [][Next]_vars

\* The main thread goes on while it is not blocked: its waits for the monitor
\* have timeouts.  The heartbeat's statement ends, and so do those of the
\* monitor once it watches.  How long the work takes is not assumed.
Fairness ==
  /\ WF_vars(MainStep)
  /\ WF_vars(BeatStep)
  /\ WF_vars(Watch \/ Release \/ Report \/ Leave)

FairSpec == Spec /\ Fairness
-----------------------------------------------------------------------------
(* Properties.                                                             *)

\* Once the subscription is confirmed a cancellation is in the token or on its
\* way to the monitor, however it falls between the claim, the LISTEN and the
\* SELECT (processor.py: monitor, the comment on the SELECT).
CancellationsAreSeen ==
  monitor \in {"announcing", "watching"} /\ row = "cancelled" => "token" \in flags \/ "this" \in mail

\* Nothing works without a monitor: it starts after the confirmation, and when
\* the monitor has ended on its own the token is cancelled
\* (processor.py: cancellation_monitor; docs/worker.md, "falha fechado").
WorkIsSupervised ==
  main \in {"working", "reading"} =>
    "setup_succeeded" \in flags /\ (monitor = "done" => "token" \in flags)

\* What is finalized was clean to the end: no error of either thread and no
\* signal, including those that came after the work's last look at the token
\* (processor.py: process_next, the look at the token after the monitor).
FinalizesAreClean == main = "finalizing" => flags \cap (Errors \cup {"token"}) = {}

\* A token that is cancelled has a cause one can record: the job was cancelled,
\* or a thread failed.  The RuntimeError for a signal without either is dead code
\* (processor.py: process_next, "cancelamento sinalizado sem job cancelado").
SignalsHaveACause == main = "acknowledging" => row = "cancelled" \/ flags \cap Errors # {}

\* No thread of a round is alive in the next one: a monitor that would be makes
\* the process end (processor.py: stop_monitor).
NoThreadOutlivesItsRound ==
  main \in {"returned", "idle"} => monitor = "done" /\ beat \in {"off", "done"}

\* A job cancelled under watch stops, however long its work would take, and the
\* round ends (processor.py: _execute, lease_heartbeat, stop_monitor).
CancelledWorkEnds == (monitor = "watching" /\ row = "cancelled") ~> main \in Ended

\* The threads add up to the round that JobQueue knows: its row is written by
\* its own verdict alone and only under its claim, and its token does not change
\* once the work is over (processor.py: process_next).
PhaseOf ==
  CASE main \in {"finalizing", "acknowledging", "dead"} -> main
    [] main \in {"returned", "idle"} -> "idle"
    [] main = "failing" -> IF raised = "fatal" THEN "dying" ELSE "failing"
    [] main = "left" /\ raised = "fatal" -> "dying"
    [] OTHER -> "working"

Round == INSTANCE JobRound WITH phase <- PhaseOf, token <- "token" \in flags
ImplementsJobRound == Round!Spec

\* What docs/worker.md says of a round that noticed a cancellation and ended with
\* it: the process lives on for the rest of the queue.
ProcessLivesOn ==
  [][main = "returned" /\ raised = "cancelled" /\ row = "cancelled" => main' # "dead"]_vars
=============================================================================
