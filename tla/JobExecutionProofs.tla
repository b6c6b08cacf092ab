-------------------------- MODULE JobExecutionProofs --------------------------
(***************************************************************************)
(* Theorems about one round of process_next, for every number of failures  *)
(* a heartbeat may have, with TLAPS.                                       *)
(***************************************************************************)
EXTENDS JobExecution, TLAPS

\* The subscription is there until it is released.
Subscribed == monitor \in {"selecting", "announcing", "watching"} => "listening" \in flags

\* Work starts after the confirmation.
Confirmed ==
  monitor \in {"announcing", "watching"} \/ main \in {"entering", "working", "reading"}
    => "setup_succeeded" \in flags

\* A monitor ends because of a signal, or because it is told to.
EndsHaveAReason ==
  monitor \in {"releasing", "leaving", "done"} => "token" \in flags \/ "stopped" \in flags

Past == {"join_once", "closing", "join_twice", "left", "finalizing", "acknowledging", "failing"}

\* It is told to when the work is over.
StopsAreLate == "stopped" \in flags => main \in Past \cup Ended

\* An error is recorded with a signal.
ErrorsSignal == "monitor_error" \in flags \/ "heartbeat_error" \in flags => "token" \in flags

\* Notifications are of what has been committed, and a cancelled row stays so.
MailIsTrue == "this" \in mail => row = "cancelled"

\* Nothing is signalled to who finalizes.
EndsUnsignalled == main = "finalizing" => "token" \notin flags

\* A signal has a cause.
TokensHaveACause ==
  "token" \in flags => row = "cancelled" \/ "monitor_error" \in flags \/ "heartbeat_error" \in flags

RaisedBySignal == raised = "cancelled" \/ main = "acknowledging" => "token" \in flags

\* Only a monitor that hangs raises this, when both joins are over.
FatalIsLate == raised = "fatal" => main \in {"left", "failing", "dead"}

\* Without that, the threads have ended where the verdict is given.
ThreadsAreOver ==
  main \in {"left", "finalizing", "acknowledging", "failing", "returned", "idle"} /\ raised # "fatal"
    => monitor = "done"

BeatsAreOver == beat \notin {"off", "done"} => main \in {"working", "reading", "joining"}

\* A heartbeat that has failed too often does not renew again, and none has
\* started before the work.
FailuresAreFew ==
  /\ failures < MaxFailures \/ beat \in {"giving_up", "done"}
  /\ main \in {"waiting", "checking", "entering"} => beat = "off"

Control ==
  /\ CancellationsAreSeen /\ EndsUnsignalled
  /\ Subscribed /\ Confirmed /\ EndsHaveAReason /\ StopsAreLate /\ ErrorsSignal
  /\ MailIsTrue /\ TokensHaveACause /\ RaisedBySignal
  /\ FatalIsLate /\ ThreadsAreOver /\ BeatsAreOver

IInv == TypeOK /\ FailuresAreFew /\ Control
-----------------------------------------------------------------------------
(* Types.                                                                  *)

LEMMA InitIInv == Init => IInv
BY FailuresAreCounted DEF CancellationsAreSeen, EndsUnsignalled, Subscribed, Confirmed,
                          EndsHaveAReason, StopsAreLate, ErrorsSignal, MailIsTrue,
                          TokensHaveACause, RaisedBySignal, FatalIsLate, ThreadsAreOver,
                          BeatsAreOver, IInv, Control, FailuresAreFew, TypeOK, Init, Events,
                          Errors, Connection, Ended, Past

LEMMA OthersTypes == TypeOK /\ FailuresAreFew /\ (Cancel \/ CancelOther \/ TakeOver) => TypeOK' /\ FailuresAreFew'
<1> USE FailuresAreCounted DEF TypeOK, FailuresAreFew, Events, Errors, Connection, Ended,
    OthersStep, If
<1>1. TypeOK /\ FailuresAreFew /\ Cancel => TypeOK' /\ FailuresAreFew'
  BY DEF Cancel
<1>2. TypeOK /\ FailuresAreFew /\ CancelOther => TypeOK' /\ FailuresAreFew'
  BY DEF CancelOther
<1>3. TypeOK /\ FailuresAreFew /\ TakeOver => TypeOK' /\ FailuresAreFew'
  BY DEF TakeOver
<1> QED
  BY <1>1, <1>2, <1>3

LEMMA MonitorTypes == TypeOK /\ FailuresAreFew /\ (MonitorStep) => TypeOK' /\ FailuresAreFew'
<1> USE FailuresAreCounted DEF TypeOK, FailuresAreFew, Events, Errors, Connection, Ended,
    MonitorOnly, If, Set, Monitor
<1>1. TypeOK /\ FailuresAreFew /\ MonitorFails => TypeOK' /\ FailuresAreFew'
  BY DEF MonitorFails
<1>2. TypeOK /\ FailuresAreFew /\ Connect => TypeOK' /\ FailuresAreFew'
  BY DEF Connect
<1>3. TypeOK /\ FailuresAreFew /\ Listen => TypeOK' /\ FailuresAreFew'
  BY DEF Listen
<1>4. TypeOK /\ FailuresAreFew /\ Select => TypeOK' /\ FailuresAreFew'
  BY DEF Select
<1>5. TypeOK /\ FailuresAreFew /\ Announce => TypeOK' /\ FailuresAreFew'
  BY DEF Announce
<1>6. TypeOK /\ FailuresAreFew /\ Watch => TypeOK' /\ FailuresAreFew'
  <2> SUFFICES ASSUME TypeOK, FailuresAreFew, Watch PROVE TypeOK' /\ FailuresAreFew'
    OBVIOUS
  <2>1. mail' = {} \/ mail' = mail
    BY DEF Watch
  <2>2. flags' = flags \/ flags' = flags \cup {"token"}
    BY DEF Watch
  <2>3. monitor' \in {"watching", "releasing"} /\ UNCHANGED <<row, main, raised, beat, failures>>
    BY DEF Watch
  <2>4. mail' \subseteq {"this", "other"}
    BY <2>1
  <2>5. flags' \subseteq Events \cup Errors \cup Connection
    BY <2>2
  <2>6. FailuresAreFew'
    BY <2>3
  <2> QED
    BY <2>3, <2>4, <2>5, <2>6
<1>7. TypeOK /\ FailuresAreFew /\ Release => TypeOK' /\ FailuresAreFew'
  BY DEF Release
<1>8. TypeOK /\ FailuresAreFew /\ Report => TypeOK' /\ FailuresAreFew'
  BY DEF Report
<1>9. TypeOK /\ FailuresAreFew /\ Leave => TypeOK' /\ FailuresAreFew'
  BY DEF Leave
<1> QED
  BY <1>1, <1>2, <1>3, <1>4, <1>5, <1>6, <1>7, <1>8, <1>9 DEF MonitorStep

LEMMA BeatTypes == TypeOK /\ FailuresAreFew /\ (BeatStep) => TypeOK' /\ FailuresAreFew'
<1> USE FailuresAreCounted DEF TypeOK, FailuresAreFew, Events, Errors, Connection, Ended,
    BeatOnly, Set
<1>1. TypeOK /\ FailuresAreFew /\ BeatWait => TypeOK' /\ FailuresAreFew'
  BY DEF BeatWait
<1>2. TypeOK /\ FailuresAreFew /\ Renew => TypeOK' /\ FailuresAreFew'
  BY DEF Renew
<1>3. TypeOK /\ FailuresAreFew /\ GiveUp => TypeOK' /\ FailuresAreFew'
  BY DEF GiveUp
<1> QED
  BY <1>1, <1>2, <1>3 DEF BeatStep

LEMMA MainTypes == TypeOK /\ FailuresAreFew /\ (MainStep \/ LastLook) => TypeOK' /\ FailuresAreFew'
<1> USE FailuresAreCounted DEF TypeOK, FailuresAreFew, Events, Errors, Connection, Ended,
    MainOnly, If, Set, Main
<1>1. TypeOK /\ FailuresAreFew /\ WaitReady => TypeOK' /\ FailuresAreFew'
  BY DEF WaitReady
<1>2. TypeOK /\ FailuresAreFew /\ CheckSetup => TypeOK' /\ FailuresAreFew'
  BY DEF CheckSetup
<1>3. TypeOK /\ FailuresAreFew /\ Enter => TypeOK' /\ FailuresAreFew'
  BY DEF Enter
<1>4. TypeOK /\ FailuresAreFew /\ NoticeToken => TypeOK' /\ FailuresAreFew'
  BY DEF NoticeToken
<1>5. TypeOK /\ FailuresAreFew /\ LastLook => TypeOK' /\ FailuresAreFew'
  BY DEF LastLook
<1>6. TypeOK /\ FailuresAreFew /\ ReadCompany => TypeOK' /\ FailuresAreFew'
  BY DEF ReadCompany
<1>7. TypeOK /\ FailuresAreFew /\ JoinBeat => TypeOK' /\ FailuresAreFew'
  BY DEF JoinBeat
<1>8. TypeOK /\ FailuresAreFew /\ StopMonitor => TypeOK' /\ FailuresAreFew'
  BY DEF StopMonitor
<1>9. TypeOK /\ FailuresAreFew /\ JoinOnce => TypeOK' /\ FailuresAreFew'
  BY DEF JoinOnce
<1>10. TypeOK /\ FailuresAreFew /\ Close => TypeOK' /\ FailuresAreFew'
  BY DEF Close
<1>11. TypeOK /\ FailuresAreFew /\ JoinTwice => TypeOK' /\ FailuresAreFew'
  BY DEF JoinTwice
<1>12. TypeOK /\ FailuresAreFew /\ Finish => TypeOK' /\ FailuresAreFew'
  BY DEF Finish
<1>13. TypeOK /\ FailuresAreFew /\ Finalize => TypeOK' /\ FailuresAreFew'
  BY DEF Finalize
<1>14. TypeOK /\ FailuresAreFew /\ Acknowledge => TypeOK' /\ FailuresAreFew'
  BY DEF Acknowledge
<1>15. TypeOK /\ FailuresAreFew /\ RecordFailure => TypeOK' /\ FailuresAreFew'
  BY DEF RecordFailure
<1>16. TypeOK /\ FailuresAreFew /\ NextRound => TypeOK' /\ FailuresAreFew'
  BY DEF NextRound
<1> QED
  BY <1>1, <1>2, <1>3, <1>4, <1>5, <1>6, <1>7, <1>8, <1>9, <1>10, <1>11, <1>12, <1>13, <1>14,
     <1>15, <1>16 DEF MainStep

-----------------------------------------------------------------------------
(* Control.                                                                *)

LEMMA OthersControl == Control /\ (Cancel \/ CancelOther \/ TakeOver) => Control'
<1> USE DEF CancellationsAreSeen, EndsUnsignalled, Subscribed, Confirmed, EndsHaveAReason,
            StopsAreLate, ErrorsSignal, MailIsTrue, TokensHaveACause, RaisedBySignal,
            FatalIsLate, ThreadsAreOver, BeatsAreOver, Control, OthersStep, If, Ended, Past
<1>1. Control /\ Cancel => Control'
  BY DEF Cancel
<1>2. Control /\ CancelOther => Control'
  BY DEF CancelOther
<1>3. Control /\ TakeOver => Control'
  BY DEF TakeOver
<1> QED
  BY <1>1, <1>2, <1>3

LEMMA MonitorControl == Control /\ (MonitorStep) => Control'
<1> USE DEF CancellationsAreSeen, EndsUnsignalled, Subscribed, Confirmed, EndsHaveAReason,
            StopsAreLate, ErrorsSignal, MailIsTrue, TokensHaveACause, RaisedBySignal,
            FatalIsLate, ThreadsAreOver, BeatsAreOver, Control, MonitorOnly, If, Set, Monitor,
            Ended, Past
<1>1. Control /\ MonitorFails => Control'
  BY DEF MonitorFails
<1>2. Control /\ Connect => Control'
  BY DEF Connect
<1>3. Control /\ Listen => Control'
  BY DEF Listen
<1>4. Control /\ Select => Control'
  BY DEF Select
<1>5. Control /\ Announce => Control'
  BY DEF Announce
<1>6. Control /\ Watch => Control'
  BY DEF Watch
<1>7. Control /\ Release => Control'
  BY DEF Release
<1>8. Control /\ Report => Control'
  BY DEF Report
<1>9. Control /\ Leave => Control'
  BY DEF Leave
<1> QED
  BY <1>1, <1>2, <1>3, <1>4, <1>5, <1>6, <1>7, <1>8, <1>9 DEF MonitorStep

LEMMA BeatControl == Control /\ (BeatStep) => Control'
<1> USE DEF CancellationsAreSeen, EndsUnsignalled, Subscribed, Confirmed, EndsHaveAReason,
            StopsAreLate, ErrorsSignal, MailIsTrue, TokensHaveACause, RaisedBySignal,
            FatalIsLate, ThreadsAreOver, BeatsAreOver, Control, BeatOnly, Set, Ended, Past
<1>1. Control /\ BeatWait => Control'
  BY DEF BeatWait
<1>2. Control /\ Renew => Control'
  BY DEF Renew
<1>3. Control /\ GiveUp => Control'
  BY DEF GiveUp
<1> QED
  BY <1>1, <1>2, <1>3 DEF BeatStep

LEMMA MainControl == Control /\ (MainStep \/ LastLook) => Control'
<1> USE DEF CancellationsAreSeen, EndsUnsignalled, Subscribed, Confirmed, EndsHaveAReason,
            StopsAreLate, ErrorsSignal, MailIsTrue, TokensHaveACause, RaisedBySignal,
            FatalIsLate, ThreadsAreOver, BeatsAreOver, Control, MainOnly, If, Set, Main, Ended,
            Past
<1>1. Control /\ WaitReady => Control'
  BY DEF WaitReady
<1>2. Control /\ CheckSetup => Control'
  BY DEF CheckSetup
<1>3. Control /\ Enter => Control'
  BY DEF Enter
<1>4. Control /\ NoticeToken => Control'
  BY DEF NoticeToken
<1>5. Control /\ LastLook => Control'
  BY DEF LastLook
<1>6. Control /\ ReadCompany => Control'
  BY DEF ReadCompany
<1>7. Control /\ JoinBeat => Control'
  BY DEF JoinBeat
<1>8. Control /\ StopMonitor => Control'
  BY DEF StopMonitor
<1>9. Control /\ JoinOnce => Control'
  BY DEF JoinOnce
<1>10. Control /\ Close => Control'
  BY DEF Close
<1>11. Control /\ JoinTwice => Control'
  BY DEF JoinTwice
<1>12. Control /\ Finish => Control'
  BY DEF Finish
<1>13. Control /\ Finalize => Control'
  BY DEF Finalize
<1>14. Control /\ Acknowledge => Control'
  BY DEF Acknowledge
<1>15. Control /\ RecordFailure => Control'
  BY DEF RecordFailure
<1>16. Control /\ NextRound => Control'
  BY DEF NextRound
<1> QED
  BY <1>1, <1>2, <1>3, <1>4, <1>5, <1>6, <1>7, <1>8, <1>9, <1>10, <1>11, <1>12, <1>13, <1>14,
     <1>15, <1>16 DEF MainStep

LEMMA StutterIInv == IInv /\ UNCHANGED vars => IInv'
<1>1. TypeOK /\ UNCHANGED vars => TypeOK'
  BY DEF vars, TypeOK
<1>2. FailuresAreFew /\ UNCHANGED vars => FailuresAreFew'
  BY DEF vars, FailuresAreFew
<1>3. Control /\ UNCHANGED vars => Control'
  BY DEF vars, Control, CancellationsAreSeen, EndsUnsignalled, Subscribed, Confirmed,
     EndsHaveAReason, StopsAreLate, ErrorsSignal, MailIsTrue, TokensHaveACause, RaisedBySignal,
     FatalIsLate, ThreadsAreOver, BeatsAreOver
<1> QED
  BY <1>1, <1>2, <1>3 DEF IInv

LEMMA NextIInv == IInv /\ [Next]_vars => IInv'
<1>1. IInv /\ Next => IInv'
  BY OthersTypes, MonitorTypes, BeatTypes, MainTypes,
     OthersControl, MonitorControl, BeatControl, MainControl DEF IInv, Next
<1> QED
  BY <1>1, StutterIInv

\* The threads' places and the events they share are in the order Control says
\* (processor.py: cancellation_monitor, lease_heartbeat, _execute).
THEOREM ExecutionInvariance == Spec => []IInv
BY InitIInv, NextIInv, PTL DEF Spec
-----------------------------------------------------------------------------
(* What the runs check.                                                    *)

\* The threads' variables keep to their types, and a heartbeat gives up after
\* MaxFailures renewals that failed (processor.py: lease_heartbeat).
THEOREM ExecutionTypes == Spec => []TypeOK
<1>1. IInv => TypeOK
  BY DEF IInv
<1> QED
  BY <1>1, ExecutionInvariance, PTL

\* A cancellation under a confirmed subscription is never lost
\* (processor.py: monitor).
THEOREM CancellationsReachTheToken == Spec => []CancellationsAreSeen
<1>1. IInv => CancellationsAreSeen
  BY DEF IInv, Control
<1> QED
  BY <1>1, ExecutionInvariance, PTL

\* No work runs without a monitor or the signal that there is none
\* (processor.py: cancellation_monitor).
THEOREM WorkHasAMonitor == Spec => []WorkIsSupervised
<1>1. IInv => WorkIsSupervised
  BY DEF IInv, Control, Confirmed, EndsHaveAReason, StopsAreLate, WorkIsSupervised, Past, Ended
<1> QED
  BY <1>1, ExecutionInvariance, PTL

\* Nothing is finalized after an error or a signal of either thread
\* (processor.py: process_next).
THEOREM DoneIsClean == Spec => []FinalizesAreClean
<1>1. IInv => FinalizesAreClean
  <2> SUFFICES ASSUME IInv, main = "finalizing" PROVE flags \cap (Errors \cup {"token"}) = {}
    BY DEF FinalizesAreClean
  <2>1. "token" \notin flags /\ "monitor_error" \notin flags /\ "heartbeat_error" \notin flags
    BY DEF IInv, Control, EndsUnsignalled, ErrorsSignal
  <2> QED
    BY <2>1 DEF Errors
<1> QED
  BY <1>1, ExecutionInvariance, PTL

\* A signal can be accounted for where it is acknowledged
\* (processor.py: process_next, _acknowledge_cancellation).
THEOREM SignalsAreAccountedFor == Spec => []SignalsHaveACause
<1>1. IInv => SignalsHaveACause
  BY DEF IInv, Control, TokensHaveACause, RaisedBySignal, SignalsHaveACause, Errors
<1> QED
  BY <1>1, ExecutionInvariance, PTL

\* No thread of a round lives in the next (processor.py: stop_monitor).
THEOREM ThreadsEndWithTheRound == Spec => []NoThreadOutlivesItsRound
<1>1. IInv => NoThreadOutlivesItsRound
  BY DEF IInv, Control, TypeOK, ThreadsAreOver, BeatsAreOver, FatalIsLate, NoThreadOutlivesItsRound
<1> QED
  BY <1>1, ExecutionInvariance, PTL
-----------------------------------------------------------------------------
(* A round implements JobRound: each step is one of its steps, or none.    *)

LEMMA OthersRefine == Control /\ (Cancel \/ CancelOther \/ TakeOver) => [Round!Next]_(Round!roundVars)
<1> USE DEF Control, ThreadsAreOver, BeatsAreOver, FatalIsLate, RaisedBySignal, OthersStep, If,
            Ended, PhaseOf, Round!roundVars, Round!Next
<1>1. Control /\ Cancel => [Round!Next]_(Round!roundVars)
  BY DEF Cancel, Round!Cancel
<1>2. Control /\ CancelOther => [Round!Next]_(Round!roundVars)
  BY DEF CancelOther
<1>3. Control /\ TakeOver => [Round!Next]_(Round!roundVars)
  BY DEF TakeOver, Round!TakeOver
<1> QED
  BY <1>1, <1>2, <1>3

\* A signal of the monitor is one that JobRound allows.
LEMMA MonitorSignals ==
  ASSUME Control, monitor # "done", main # "dead", UNCHANGED <<row, main, raised>>,
         "token" \in flags'
  PROVE  [Round!Next]_(Round!roundVars)
<1>1. PhaseOf \in {"working", "dying"}
  BY DEF Control, ThreadsAreOver, FatalIsLate, PhaseOf
<1>2. PhaseOf' = PhaseOf
  BY DEF PhaseOf
<1>3. Round!CancelToken
  BY <1>1, <1>2 DEF Round!CancelToken
<1> QED
  BY <1>3 DEF Round!Next

LEMMA MonitorRefine == Control /\ (MonitorStep) => [Round!Next]_(Round!roundVars)
<1> USE DEF Control, ThreadsAreOver, BeatsAreOver, FatalIsLate, RaisedBySignal, MonitorOnly,
            If, Set, Monitor, Ended, PhaseOf, Round!roundVars, Round!Next
<1>1. Control /\ MonitorFails => [Round!Next]_(Round!roundVars)
  BY DEF MonitorFails
<1>2. Control /\ Connect => [Round!Next]_(Round!roundVars)
  BY DEF Connect
<1>3. Control /\ Listen => [Round!Next]_(Round!roundVars)
  BY DEF Listen
<1>4. Control /\ Select => [Round!Next]_(Round!roundVars)
  <2> SUFFICES ASSUME Control, Select PROVE [Round!Next]_(Round!roundVars)
    OBVIOUS
  <2>1. monitor # "done" /\ main # "dead" /\ UNCHANGED <<row, main, raised>>
    BY DEF Select
  <2>2. CASE "token" \in flags'
    BY <2>1, <2>2, MonitorSignals
  <2>3. CASE "token" \notin flags'
    BY <2>1, <2>3 DEF Select
  <2> QED
    BY <2>2, <2>3
<1>5. Control /\ Announce => [Round!Next]_(Round!roundVars)
  BY DEF Announce
<1>6. Control /\ Watch => [Round!Next]_(Round!roundVars)
  <2> SUFFICES ASSUME Control, Watch PROVE [Round!Next]_(Round!roundVars)
    OBVIOUS
  <2>1. monitor # "done" /\ main # "dead" /\ UNCHANGED <<row, main, raised>>
    BY DEF Watch
  <2>2. CASE "token" \in flags'
    BY <2>1, <2>2, MonitorSignals
  <2>3. CASE "token" \notin flags'
    BY <2>1, <2>3 DEF Watch
  <2> QED
    BY <2>2, <2>3
<1>7. Control /\ Release => [Round!Next]_(Round!roundVars)
  BY DEF Release
<1>8. Control /\ Report => [Round!Next]_(Round!roundVars)
  <2> SUFFICES ASSUME Control, Report PROVE [Round!Next]_(Round!roundVars)
    OBVIOUS
  <2>1. monitor # "done" /\ main # "dead" /\ UNCHANGED <<row, main, raised>>
    BY DEF Report
  <2>2. CASE "token" \in flags'
    BY <2>1, <2>2, MonitorSignals
  <2>3. CASE "token" \notin flags'
    BY <2>1, <2>3 DEF Report
  <2> QED
    BY <2>2, <2>3
<1>9. Control /\ Leave => [Round!Next]_(Round!roundVars)
  BY DEF Leave
<1> QED
  BY <1>1, <1>2, <1>3, <1>4, <1>5, <1>6, <1>7, <1>8, <1>9 DEF MonitorStep

LEMMA BeatRefine == Control /\ (BeatStep) => [Round!Next]_(Round!roundVars)
<1> USE DEF Control, ThreadsAreOver, BeatsAreOver, FatalIsLate, RaisedBySignal, BeatOnly, Set,
            Ended, PhaseOf, Round!roundVars, Round!Next
<1>1. Control /\ BeatWait => [Round!Next]_(Round!roundVars)
  BY DEF BeatWait
<1>2. Control /\ Renew => [Round!Next]_(Round!roundVars)
  BY DEF Renew
<1>3. Control /\ GiveUp => [Round!Next]_(Round!roundVars)
  BY DEF GiveUp, Round!CancelToken
<1> QED
  BY <1>1, <1>2, <1>3 DEF BeatStep

LEMMA MainRefine == Control /\ (MainStep \/ LastLook) => [Round!Next]_(Round!roundVars)
<1> USE DEF Control, ThreadsAreOver, BeatsAreOver, FatalIsLate, RaisedBySignal, MainOnly, If,
            Set, Main, Ended, PhaseOf, Round!roundVars, Round!Next
<1>1. Control /\ WaitReady => [Round!Next]_(Round!roundVars)
  BY DEF WaitReady, Round!CancelToken
<1>2. Control /\ CheckSetup => [Round!Next]_(Round!roundVars)
  BY DEF CheckSetup
<1>3. Control /\ Enter => [Round!Next]_(Round!roundVars)
  BY DEF Enter
<1>4. Control /\ NoticeToken => [Round!Next]_(Round!roundVars)
  BY DEF NoticeToken
<1>5. Control /\ LastLook => [Round!Next]_(Round!roundVars)
  BY DEF LastLook
<1>6. Control /\ ReadCompany => [Round!Next]_(Round!roundVars)
  BY DEF ReadCompany
<1>7. Control /\ JoinBeat => [Round!Next]_(Round!roundVars)
  BY DEF JoinBeat
<1>8. Control /\ StopMonitor => [Round!Next]_(Round!roundVars)
  BY DEF StopMonitor
<1>9. Control /\ JoinOnce => [Round!Next]_(Round!roundVars)
  BY DEF JoinOnce
<1>10. Control /\ Close => [Round!Next]_(Round!roundVars)
  BY DEF Close
<1>11. Control /\ JoinTwice => [Round!Next]_(Round!roundVars)
  BY DEF JoinTwice, Round!MonitorHangs, Round!Goto
<1>12. Control /\ Finish => [Round!Next]_(Round!roundVars)
  <2> SUFFICES ASSUME Control, Finish PROVE [Round!Next]_(Round!roundVars)
    OBVIOUS
  <2>1. CASE raised = "nothing" /\ "token" \in flags
    BY <2>1 DEF Finish, Round!AbortWork, Round!Goto
  <2>2. CASE raised = "nothing" /\ "token" \notin flags
    BY <2>2 DEF Finish, Round!FinishWork, Round!Goto
  <2>3. CASE raised = "cancelled"
    BY <2>3 DEF Finish, Round!AbortWork, Round!Goto
  <2>4. CASE raised = "error"
    BY <2>4 DEF Finish, Round!FailWork, Round!Goto
  <2>5. CASE raised = "fatal"
    BY <2>5 DEF Finish
  <2> QED
    BY <2>1, <2>2, <2>3, <2>4, <2>5 DEF Finish
<1>13. Control /\ Finalize => [Round!Next]_(Round!roundVars)
  BY DEF Finalize, Round!Finalize, Round!FailWork, Round!Goto
<1>14. Control /\ Acknowledge => [Round!Next]_(Round!roundVars)
  BY DEF Acknowledge, Round!Acknowledge, Round!Crash, Round!Goto
<1>15. Control /\ RecordFailure => [Round!Next]_(Round!roundVars)
  <2> SUFFICES ASSUME Control, RecordFailure PROVE [Round!Next]_(Round!roundVars)
    OBVIOUS
  <2>1. CASE raised = "fatal" /\ main' = "dead" /\ row' = IF row = "running" THEN "failed" ELSE row
    BY <2>1 DEF RecordFailure, Round!RecordFailure, Round!Goto
  <2>2. CASE raised # "fatal" /\ main' = "returned"
    BY <2>2 DEF RecordFailure, Round!RecordFailure, Round!Goto
  <2>3. CASE main' = "dead" /\ UNCHANGED row
    BY <2>3 DEF RecordFailure, Round!Crash
  <2> QED
    BY <2>1, <2>2, <2>3 DEF RecordFailure
<1>16. Control /\ NextRound => [Round!Next]_(Round!roundVars)
  BY DEF NextRound, Round!Crash
<1> QED
  BY <1>1, <1>2, <1>3, <1>4, <1>5, <1>6, <1>7, <1>8, <1>9, <1>10, <1>11, <1>12, <1>13, <1>14,
     <1>15, <1>16 DEF MainStep

\* The threads of a round add up to the worker that JobQueue knows: its token
\* stays as it is once the work is over, its row is written under its claim and
\* by one verdict (processor.py: process_next).
THEOREM RoundsAreRounds == Spec => ImplementsJobRound
<1>1. Init => Round!Init
  BY DEF Init, Round!Init, PhaseOf
<1>2. IInv /\ [Next]_vars => [Round!Next]_(Round!roundVars)
  <2>1. IInv /\ Next => [Round!Next]_(Round!roundVars)
    BY OthersRefine, MonitorRefine, BeatRefine, MainRefine DEF IInv, Next
  <2>2. UNCHANGED vars => UNCHANGED Round!roundVars
    BY DEF vars, Round!roundVars, PhaseOf
  <2> QED
    BY <2>1, <2>2
<1> QED
  BY <1>1, <1>2, ExecutionInvariance, PTL DEF Spec, ImplementsJobRound, Round!Spec
=============================================================================
