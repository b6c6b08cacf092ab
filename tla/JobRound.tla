------------------------------- MODULE JobRound -------------------------------
(***************************************************************************)
(* What a round of process_next is to the rest of the system: the worker of*)
(* JobQueue, seen from one claim, without its threads.  Its phases and its *)
(* steps have the names they have there.  JobExecution implements it.      *)
(***************************************************************************)
VARIABLES
  phase,  \* pc of the worker in JobQueue
  row,    \* the job's row: running under this claim, or what became of it
  token   \* whether the CancellationToken is cancelled

roundVars == <<phase, row, token>>

Init == phase = "working" /\ row = "running" /\ token = FALSE
-----------------------------------------------------------------------------
Goto(from, to) == phase \in from /\ phase' = to

\* Other processes: cancel_job, recover_stale_jobs.
Cancel ==
  /\ row \in {"running", "lost"} /\ row' = "cancelled"
  /\ UNCHANGED <<phase, token>>

TakeOver ==
  /\ row = "running" /\ row' = "lost"
  /\ UNCHANGED <<phase, token>>

\* The token is cancelled while there is work to stop, and never later but by
\* a monitor that hangs, which ends the process.
CancelToken ==
  /\ phase \in {"working", "dying"}
  /\ token' = TRUE
  /\ UNCHANGED <<phase, row>>

FinishWork == ~token /\ Goto({"working"}, "finalizing") /\ UNCHANGED <<row, token>>

AbortWork == token /\ Goto({"working"}, "acknowledging") /\ UNCHANGED <<row, token>>

FailWork == Goto({"working", "finalizing"}, "failing") /\ UNCHANGED <<row, token>>

MonitorHangs == Goto({"working"}, "dying") /\ token' = TRUE /\ UNCHANGED row

Finalize ==
  /\ Goto({"finalizing"}, "idle")
  /\ row' = IF row = "running" THEN "done" ELSE row
  /\ UNCHANGED token

Acknowledge ==
  /\ Goto({"acknowledging"}, IF row = "cancelled" THEN "idle" ELSE "failing")
  /\ UNCHANGED <<row, token>>

RecordFailure ==
  /\ Goto({"failing"}, "idle") \/ Goto({"dying"}, "dead")
  /\ row' = IF row = "running" THEN "failed" ELSE row
  /\ UNCHANGED token

Crash == phase # "dead" /\ phase' = "dead" /\ UNCHANGED <<row, token>>

Next ==
  \/ Cancel \/ TakeOver \/ CancelToken
  \/ FinishWork \/ AbortWork \/ FailWork \/ MonitorHangs
  \/ Finalize \/ Acknowledge \/ RecordFailure \/ Crash

Spec == Init /\ [][Next]_roundVars
=============================================================================
