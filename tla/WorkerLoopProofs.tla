--------------------------- MODULE WorkerLoopProofs ---------------------------
(***************************************************************************)
(* A worker that waits sleeps past no job it could see: proved for every   *)
(* set of jobs, every fallback and every limit of attempts.                *)
(***************************************************************************)
EXTENDS WorkerLoop, WellFoundedInduction, TLAPS

\* Queued jobs have an attempt left, absent ones have had none.
AttemptsAreLeft ==
  \A j \in Jobs : /\ state[j] = "queued" => attempts[j] < MaxAttempts
                  /\ state[j] = "absent" => attempts[j] = 0

ProcessesAJob == main = "processing" => job \in Jobs

\* What the answer of seconds_until_next_attempt leaves out was overlooked, or
\* has a notification waiting.
AsksInTime ==
  main = "asking" /\ link = "up" /\ ~mail =>
    \A j \in Jobs : state[j] = "queued" => due[j] > 0 \/ j \in overlooked

IInv == TypeOK /\ AttemptsAreLeft /\ ProcessesAJob /\ AsksInTime /\ NeverOversleeps
-----------------------------------------------------------------------------
(* The least and the greatest of some numbers.                             *)

LEMMA MinIsLeast ==
  ASSUME NEW S, S \subseteq Nat, S # {}
  PROVE  Min(S) \in S /\ \A y \in S : Min(S) <= y
<1>1. PICK x \in S : \A y \in S : ~(<<y, x>> \in OpToRel(<, Nat))
  BY NatLessThanWellFounded, WFMin
<1>2. \A a, b \in Nat : a < b => <<a, b>> \in OpToRel(<, Nat)
  BY DEF OpToRel
<1>3. \A y \in S : ~(y < x)
  BY <1>1, <1>2, Zenon
<1>4. \A y \in S : x <= y
  BY <1>3
<1> QED
  BY <1>4 DEF Min

LEMMA MaxOfTwo ==
  ASSUME NEW a \in Int, NEW b \in Int
  PROVE  Max({a, b}) = IF a >= b THEN a ELSE b
<1>1. \E x \in {a, b} : \A y \in {a, b} : x >= y
  <2>1. CASE a >= b
    BY <2>1
  <2>2. CASE ~(a >= b)
    BY <2>2
  <2> QED
    BY <2>1, <2>2
<1>2. Max({a, b}) \in {a, b} /\ \A y \in {a, b} : Max({a, b}) >= y
  BY <1>1 DEF Max
<1> QED
  BY <1>2
-----------------------------------------------------------------------------
LEMMA InitIInv == Init => IInv
<1> SUFFICES ASSUME Init PROVE IInv
  OBVIOUS
<1>1. Backoff(MaxAttempts) \in Nat
  BY BackoffsGrow, BoundsArePositive
<1>2. due \in [Jobs -> 0..Backoff(MaxAttempts)] /\ attempts \in [Jobs -> 0..MaxAttempts]
  BY <1>1, BoundsArePositive DEF Init
<1>3. TypeOK
  <2>1. state \in [Jobs -> {"absent", "queued", "running", "failed", "final"}]
    BY DEF Init
  <2>2. timer \in 0..Poll
    BY BoundsArePositive DEF Init
  <2>3. mail \in BOOLEAN /\ shutdown \in BOOLEAN
    BY Zenon DEF Init
  <2> QED
    BY <1>2, <2>1, <2>2, <2>3 DEF Init, TypeOK
<1>4. AttemptsAreLeft
  BY BoundsArePositive DEF Init, AttemptsAreLeft
<1> QED
  BY <1>3, <1>4 DEF Init, IInv, ProcessesAJob, AsksInTime, NeverOversleeps

\* Each step keeps the invariant: first those of the others, then the worker's.
LEMMA OthersIInv ==
  ASSUME IInv, NEW j \in Jobs, Enqueue(j) \/ Cancel(j) \/ Elsewhere(j)
  PROVE  IInv'
<1> USE BoundsArePositive DEF IInv, TypeOK, AttemptsAreLeft, ProcessesAJob, AsksInTime,
        NeverOversleeps, Becomes, waitVars, linkVars
<1>1. CASE Enqueue(j)
  <2>1. CASE state[j] = "absent"
    <3>1. /\ UNCHANGED <<due, attempts, main, job, timer, link, shutdown>>
          /\ state' = [state EXCEPT ![j] = "queued"] /\ overlooked' = overlooked \ {j}
          /\ mail' = (mail \/ link = "up")
      BY <1>1, <2>1 DEF Enqueue
    <3>2. mail' \in BOOLEAN /\ (link' = "up" => mail')
      BY <3>1
    <3>3. state' \in [Jobs -> {"absent", "queued", "running", "failed", "final"}]
      BY <3>1
    <3>4. TypeOK'
      BY <3>1, <3>2, <3>3
    <3>5. AttemptsAreLeft'
      BY <2>1, <3>1
    <3> QED
      BY <3>1, <3>2, <3>4, <3>5
  <2>2. CASE state[j] # "absent"
    <3>1. state[j] = "failed" /\ attempts[j] \in 0..(MaxAttempts - 1)
      BY <1>1, <2>2 DEF Enqueue
    <3>2. Backoff(attempts[j]) \in 0..Backoff(MaxAttempts)
      BY <3>1, BackoffsGrow
    <3> QED
      BY <1>1, <2>2, <3>1, <3>2 DEF Enqueue
  <2> QED
    BY <2>1, <2>2
<1>2. CASE Cancel(j)
  BY <1>2 DEF Cancel
<1>3. CASE Elsewhere(j)
  BY <1>3 DEF Elsewhere, Ends, Attempt, Due
<1> QED
  BY <1>1, <1>2, <1>3

LEMMA TickIInv == ASSUME IInv, Tick PROVE IInv'
<1> USE DEF IInv
<1>1. \A j \in Jobs : due'[j] = IF due[j] > 0 THEN due[j] - 1 ELSE 0
  <2> SUFFICES ASSUME NEW j \in Jobs PROVE due'[j] = IF due[j] > 0 THEN due[j] - 1 ELSE 0
    OBVIOUS
  <2>1. due[j] \in Nat /\ due'[j] = Max({due[j] - 1, 0})
    BY DEF Tick, TypeOK
  <2> QED
    BY <2>1, MaxOfTwo
<1>2. TypeOK'
  <2>1. due' \in [Jobs -> 0..Backoff(MaxAttempts)]
    <3>1. DOMAIN due' = Jobs /\ due' = [j \in Jobs |-> due'[j]]
      BY DEF Tick
    <3>2. \A j \in Jobs : due'[j] \in 0..Backoff(MaxAttempts)
      BY <1>1, BackoffsGrow, BoundsArePositive DEF TypeOK
    <3> QED
      BY <3>1, <3>2
  <2>2. timer' \in 0..Poll
    BY BoundsArePositive DEF Tick, TypeOK
  <2> QED
    BY <2>1, <2>2 DEF Tick, TypeOK, linkVars
<1>3. AttemptsAreLeft' /\ ProcessesAJob'
  BY DEF Tick, AttemptsAreLeft, ProcessesAJob
<1>4. AsksInTime'
  BY <1>1 DEF Tick, AsksInTime, TypeOK, linkVars
<1>5. NeverOversleeps'
  BY <1>1, BoundsArePositive DEF Tick, NeverOversleeps, TypeOK, linkVars
<1> QED
  BY <1>2, <1>3, <1>4, <1>5

LEMMA ClaimIInv == ASSUME IInv, Claim PROVE IInv'
<1>1. Due \subseteq Nat /\ Due # {}
  BY IdsAreNumbers DEF Claim, Due
<1>2. job' \in Due
  BY <1>1, MinIsLeast DEF Claim
<1>3. job' \in Jobs /\ attempts[job'] \in 0..(MaxAttempts - 1)
  BY <1>2, BoundsArePositive DEF Due, IInv, TypeOK, AttemptsAreLeft
<1> QED
  BY <1>3, BoundsArePositive
     DEF Claim, Goto, Becomes, Attempt, IInv, TypeOK, AttemptsAreLeft, ProcessesAJob, AsksInTime,
         NeverOversleeps, linkVars

LEMMA AskIInv == ASSUME IInv, Ask PROVE IInv'
<1> USE DEF IInv, Ask, Goto, linkVars
<1>1. Delayed \cup {Poll} \subseteq Nat /\ Delayed \cup {Poll} # {}
  BY BoundsArePositive DEF Delayed, TypeOK
<1>2. timer' \in Nat /\ \A t \in Delayed \cup {Poll} : timer' <= t
  BY <1>1, MinIsLeast
<1>3. timer' \in 0..Poll
  BY <1>2, BoundsArePositive
<1>4. TypeOK' /\ AttemptsAreLeft' /\ ProcessesAJob' /\ AsksInTime'
  BY <1>3 DEF TypeOK, AttemptsAreLeft, ProcessesAJob, AsksInTime, jobVars
<1>5. NeverOversleeps'
  <2> SUFFICES ASSUME link = "up", ~mail, NEW j \in Jobs, state[j] = "queued",
                      j \notin overlooked
               PROVE  due[j] >= timer'
    BY DEF NeverOversleeps, jobVars
  <2>1. due[j] > 0
    BY DEF AsksInTime
  <2>2. due[j] \in Delayed
    BY <2>1 DEF Delayed
  <2> QED
    BY <1>2, <2>2 DEF TypeOK
<1> QED
  BY <1>4, <1>5

LEMMA WorkerIInv ==
  ASSUME IInv,
         \/ Break \/ RequestShutdown \/ Start \/ Look \/ Process \/ FindNothing
         \/ Wake \/ LoseListener \/ Reconnect \/ Stop \/ Die \/ Restart
  PROVE  IInv'
<1> USE DEF IInv, TypeOK, AttemptsAreLeft, ProcessesAJob, AsksInTime, NeverOversleeps,
        Goto, jobVars, waitVars, linkVars
<1>1. CASE Break
  BY <1>1 DEF Break
<1>2. CASE RequestShutdown
  BY <1>2 DEF RequestShutdown
<1>3. CASE Start
  BY <1>3 DEF Start
<1>4. CASE Look
  BY <1>4 DEF Look
<1>5. CASE Process
  BY <1>5 DEF Process, Ends, Becomes
<1>6. CASE FindNothing
  BY <1>6 DEF FindNothing, Due
<1>7. CASE Wake
  BY <1>7 DEF Wake
<1>8. CASE LoseListener
  BY <1>8 DEF LoseListener
<1>9. CASE Reconnect
  BY <1>9 DEF Reconnect
<1>10. CASE Stop
  BY <1>10 DEF Stop
<1>11. CASE Die
  BY <1>11 DEF Die
<1>12. CASE Restart
  BY <1>12 DEF Restart
<1> QED
  BY <1>1, <1>2, <1>3, <1>4, <1>5, <1>6, <1>7, <1>8, <1>9, <1>10, <1>11, <1>12

LEMMA NextIInv == IInv /\ [Next]_vars => IInv'
<1>1. IInv /\ Next => IInv'
  BY OthersIInv, TickIInv, ClaimIInv, AskIInv, WorkerIInv DEF Next
<1>2. IInv /\ UNCHANGED vars => IInv'
  BY DEF vars, IInv, TypeOK, AttemptsAreLeft, ProcessesAJob, AsksInTime, NeverOversleeps
<1> QED
  BY <1>1, <1>2

\* The inductive invariant of the loop: the timer is set in time for every job
\* the worker could see (main.py: drain, wait).
THEOREM LoopInvariance == Spec => []IInv
BY InitIInv, NextIInv, PTL DEF Spec
-----------------------------------------------------------------------------
\* Every variable keeps to its type; no job is claimed more than MaxAttempts
\* times (main.py: main; processor.py: _claim_next; service.py: retry_job).
THEOREM LoopTypes == Spec => []TypeOK
<1>1. IInv => TypeOK
  BY DEF IInv
<1> QED
  BY <1>1, LoopInvariance, PTL

\* With a sound connection the worker's timer ends no later than the backoff of
\* any job it has not overlooked (main.py: main, _next_poll_timeout, drain).
THEOREM WorkersWakeInTime == Spec => []NeverOversleeps
<1>1. IInv => NeverOversleeps
  BY DEF IInv
<1> QED
  BY <1>1, LoopInvariance, PTL
=============================================================================
