---------------------------- MODULE JobLifecycle ----------------------------
(***************************************************************************)
(* What the job queue promises to a tenant, with no worker, lease, clock   *)
(* or token in sight: the state diagram of a job, an attempt per start, a  *)
(* result and one charge for the job that completes, and a dead letter for *)
(* the job that fails with no attempt left.                                *)
(*                                                                         *)
(* Failures may come together: one recovery ends every abandoned run.      *)
(***************************************************************************)
EXTENDS Integers, FiniteSets

CONSTANTS Jobs, Seeded, Companies, MaxAttempts, InitialQuota, None

VARIABLES status, attempts, companyId, results, deadLetters, quota

lifecycleVars == <<status, attempts, companyId, results, deadLetters, quota>>

Init ==
  /\ status \in [Jobs -> {"absent", "done", "failed", "running"}]
  /\ \A j \in Jobs \ Seeded : status[j] = "absent"
  /\ attempts = [j \in Jobs |-> 0]
  /\ companyId \in [Jobs -> Companies \cup {None}]
  /\ \A j \in Jobs : companyId[j] = None <=> status[j] = "absent"
  /\ results = {j \in Jobs : status[j] = "done"}
  /\ deadLetters = {}
  /\ quota = [c \in Companies |-> InitialQuota]

Move(S, from, to) ==
  /\ \A j \in S : status[j] \in from
  /\ status' = [j \in Jobs |-> IF j \in S THEN to ELSE status[j]]

Submit(j) ==
  /\ Move({j}, {"absent"}, "queued")
  /\ \E c \in Companies : companyId' = [companyId EXCEPT ![j] = c]
  /\ UNCHANGED <<attempts, results, deadLetters, quota>>

Begin(j) ==
  /\ Move({j}, {"queued"}, "running")
  /\ attempts[j] < MaxAttempts
  /\ attempts' = [attempts EXCEPT ![j] = @ + 1]
  /\ UNCHANGED <<companyId, results, deadLetters, quota>>

\* The result appears and the company pays for it in the same step.
Complete(j) ==
  /\ Move({j}, {"running"}, "done")
  /\ j \notin results
  /\ results' = results \cup {j}
  /\ quota' = [quota EXCEPT ![companyId[j]] = @ - 1]
  /\ UNCHANGED <<attempts, companyId, deadLetters>>

Fail(S) ==
  /\ Move(S, {"running"}, "failed")
  /\ deadLetters' = deadLetters \cup {j \in S : attempts[j] = MaxAttempts}
  /\ UNCHANGED <<attempts, companyId, results, quota>>

Retry(j) ==
  /\ Move({j}, {"failed"}, "queued")
  /\ attempts[j] < MaxAttempts
  /\ UNCHANGED <<attempts, companyId, results, deadLetters, quota>>

Cancel(j) ==
  /\ Move({j}, {"queued", "running"}, "cancelled")
  /\ UNCHANGED <<attempts, companyId, results, deadLetters, quota>>

Next ==
  \/ \E j \in Jobs : Submit(j) \/ Begin(j) \/ Complete(j) \/ Retry(j) \/ Cancel(j)
  \/ \E S \in SUBSET Jobs : Fail(S)

Spec == Init /\ [][Next]_lifecycleVars
=============================================================================
