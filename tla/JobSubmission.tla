---------------------------- MODULE JobSubmission ----------------------------
(***************************************************************************)
(* POST /jobs, statement by statement: JobsService.create_job and the      *)
(* route that commits and replies.  Requests of several processes run at   *)
(* once; each has one transaction, at READ COMMITTED, so every statement   *)
(* sees what was committed when it started.  FOR UPDATE on the company's   *)
(* row makes them wait for one another.                                    *)
(*                                                                         *)
(* A request may fail at any statement, its process die, its reply be lost *)
(* after the commit, and its client stop waiting while the server goes on; *)
(* the client then sends the key again, which is another request.          *)
(* Meanwhile jobs run and are retried, as JobQueue says, without the       *)
(* company's lock.                                                         *)
(***************************************************************************)
EXTENDS Integers, FiniteSets

CONSTANTS
  Companies,          \* company ids a client may send
  Known,              \* those with a row in companies
  Keys,               \* idempotency keys
  Kinds,              \* jobs.kind, the payload a replay is compared with
  Jobs,               \* ids of jobs
  Requests,
  MaxConcurrentJobs,  \* companies.max_concurrent_jobs
  None

ASSUME KnownAreCompanies == Known \subseteq Companies
ASSUME JobsAreFinite == IsFiniteSet(Jobs)
ASSUME LimitIsPositive == MaxConcurrentJobs \in Nat \ {0}
ASSUME NoneIsNobody ==
  None \notin Jobs \cup Requests \cup Kinds \cup [company : Companies, key : Keys, kind : Kinds]

VARIABLES
  jobOf,     \* committed row of each company and key: the unique index
  kindOf,    \* jobs.kind
  state,     \* jobs.status: absent, active (queued or running), failed, final
  retried,   \* jobs requeued by POST /jobs/{id}/retry
  lockedBy,  \* the transaction holding each company's row
  pc,        \* the next statement of each request
  asked,     \* company, key and kind of each request
  draft,     \* the row a request inserted and has not committed
  code,      \* the HTTP status the client received, 0 before
  told       \* the job id it received

vars == <<jobOf, kindOf, state, retried, lockedBy, pc, asked, draft, code, told>>
rows == <<jobOf, kindOf, state, retried>>
replies == <<code, told>>

KeysOf == Companies \X Keys
Payloads == [company : Companies, key : Keys, kind : Kinds]
HoldsLock == {"recheck", "counting", "inserting", "committing"}
Steps == {"lookup", "locking", "replying"} \cup HoldsLock

TypeOK ==
  /\ jobOf \in [KeysOf -> Jobs \cup {None}]
  /\ kindOf \in [Jobs -> Kinds \cup {None}]
  /\ state \in [Jobs -> {"absent", "active", "failed", "final"}]
  /\ retried \subseteq Jobs
  /\ lockedBy \in [Companies -> Requests \cup {None}]
  /\ pc \in [Requests -> Steps \cup {"idle", "answered"}]
  /\ asked \in [Requests -> Payloads \cup {None}]
  /\ draft \in [Requests -> Jobs \cup {None}]
  /\ code \in [Requests -> {0, 201, 401, 409, 429, 500}]
  /\ told \in [Requests -> Jobs \cup {None}]

Init ==
  /\ jobOf = [ck \in KeysOf |-> None]
  /\ kindOf = [j \in Jobs |-> None]
  /\ state = [j \in Jobs |-> "absent"]
  /\ retried = {}
  /\ lockedBy = [c \in Companies |-> None]
  /\ pc = [r \in Requests |-> "idle"]
  /\ asked = [r \in Requests |-> None]
  /\ draft = [r \in Requests |-> None]
  /\ code = [r \in Requests |-> 0]
  /\ told = [r \in Requests |-> None]
-----------------------------------------------------------------------------
KeyOf(r) == <<asked[r].company, asked[r].key>>
JobsOf(c) == {jobOf[<<c, k>>] : k \in Keys} \ {None}
Active(c) == {j \in JobsOf(c) : state[j] = "active"}

\* _find_by_idempotency_key
Found(r) == jobOf[KeyOf(r)] # None

Goto(r, step) == pc' = [pc EXCEPT ![r] = step]

\* Mutant: the transaction is left open when the request ends.
LeaveLocked(r) == r \in Requests /\ UNCHANGED lockedBy

\* The transaction ends, with or without a commit; locks go with it.
Unlock(r) == lockedBy' = [c \in Companies |-> IF lockedBy[c] = r THEN None ELSE lockedBy[c]]

\* A client that stopped waiting does not see the answer.
Answer(r, n, j) ==
  /\ code' = [code EXCEPT ![r] = IF @ = 0 THEN n ELSE @]
  /\ told' = [told EXCEPT ![r] = IF code[r] = 0 THEN j ELSE @]
  /\ draft' = [draft EXCEPT ![r] = None]
  /\ Goto(r, "answered")
  /\ Unlock(r)

\* _replay: the job of the key, if it is of the same kind.
Replay(r) ==
  LET j == jobOf[KeyOf(r)]
  IN IF kindOf[j] = asked[r].kind THEN Answer(r, 201, j) ELSE Answer(r, 409, None)
-----------------------------------------------------------------------------
Arrive(r) ==
  /\ pc[r] = "idle"
  /\ \E a \in Payloads : asked' = [asked EXCEPT ![r] = a]
  /\ Goto(r, "lookup")
  /\ UNCHANGED rows
  /\ UNCHANGED <<lockedBy, draft, code, told>>

\* The first read, without a lock.
Lookup(r) ==
  /\ pc[r] = "lookup"
  /\ IF Found(r) THEN Replay(r) ELSE Goto(r, "locking") /\ UNCHANGED <<lockedBy, draft, code, told>>
  /\ UNCHANGED rows
  /\ UNCHANGED asked

\* Mutant: the company is read without FOR UPDATE.
ReadCompany(r) ==
  LET c == asked[r].company
  IN /\ pc[r] = "locking"
     /\ IF c \in Known
          THEN Goto(r, "recheck") /\ UNCHANGED <<lockedBy, draft, code, told>>
          ELSE Answer(r, 401, None)
     /\ UNCHANGED rows
     /\ UNCHANGED asked

\* SELECT ... FOR UPDATE waits while another transaction has the row.
LockCompany(r) ==
  LET c == asked[r].company
  IN /\ pc[r] = "locking"
     /\ lockedBy[c] = None
     /\ IF c \in Known
          THEN /\ lockedBy' = [lockedBy EXCEPT ![c] = r]
               /\ Goto(r, "recheck")
               /\ UNCHANGED <<draft, code, told>>
          ELSE Answer(r, 401, None)
     /\ UNCHANGED rows
     /\ UNCHANGED asked

\* Mutant: the second read sees what the first one saw.
RecheckNothing(r) ==
  /\ pc[r] = "recheck"
  /\ Goto(r, "counting")
  /\ UNCHANGED rows
  /\ UNCHANGED <<asked, lockedBy, draft, code, told>>

\* The second read, under the lock.
Recheck(r) ==
  /\ pc[r] = "recheck"
  /\ IF Found(r) THEN Replay(r) ELSE Goto(r, "counting") /\ UNCHANGED <<lockedBy, draft, code, told>>
  /\ UNCHANGED rows
  /\ UNCHANGED asked

CountActive(r) ==
  /\ pc[r] = "counting"
  /\ IF Cardinality(Active(asked[r].company)) >= MaxConcurrentJobs
       THEN Answer(r, 429, None)
       ELSE Goto(r, "inserting") /\ UNCHANGED <<lockedBy, draft, code, told>>
  /\ UNCHANGED rows
  /\ UNCHANGED asked

\* INSERT ... ON CONFLICT DO NOTHING, with the audit event and the notification
\* of the same transaction.  The unique index makes it wait for a row of its
\* key that is not committed yet, and find one that is.
Insert(r) ==
  /\ pc[r] = "inserting"
  /\ \A s \in Requests : draft[s] # None => KeyOf(s) # KeyOf(r)
  /\ IF Found(r)
       THEN Replay(r)
       ELSE /\ \E j \in Jobs :
                 /\ state[j] = "absent" /\ \A s \in Requests : draft[s] # j
                 /\ draft' = [draft EXCEPT ![r] = j]
            /\ Goto(r, "committing")
            /\ UNCHANGED <<lockedBy, code, told>>
  /\ UNCHANGED rows
  /\ UNCHANGED asked

\* conn.commit() of the route, before it returns the response.
Commit(r) ==
  /\ pc[r] = "committing"
  /\ jobOf' = [jobOf EXCEPT ![KeyOf(r)] = draft[r]]
  /\ kindOf' = [kindOf EXCEPT ![draft[r]] = asked[r].kind]
  /\ state' = [state EXCEPT ![draft[r]] = "active"]
  /\ Goto(r, "replying")
  /\ Unlock(r)
  /\ UNCHANGED <<retried, asked, draft, code, told>>

\* Mutant: the response is returned, and the commit left to the teardown of
\* the dependency, which runs after it.
ReplyEarly(r) ==
  /\ pc[r] \in {"committing", "replying"}
  /\ Answer(r, 201, draft[r])
  /\ UNCHANGED rows
  /\ UNCHANGED asked

Reply(r) ==
  /\ pc[r] = "replying"
  /\ Answer(r, 201, draft[r])
  /\ UNCHANGED rows
  /\ UNCHANGED asked

\* The client's connection ends, the handler runs on.
Disconnect(r) ==
  /\ pc[r] \in Steps
  /\ code[r] = 0
  /\ code' = [code EXCEPT ![r] = 500]
  /\ UNCHANGED rows
  /\ UNCHANGED <<lockedBy, pc, asked, draft, told>>

\* The process dies or a statement fails: what is not committed is rolled back.
Break(r) ==
  /\ pc[r] \in Steps
  /\ Answer(r, 500, None)
  /\ UNCHANGED rows
  /\ UNCHANGED asked
-----------------------------------------------------------------------------
(* The jobs live meanwhile.                                                *)

\* A job is cancelled, or a worker ends it.
End(j) ==
  /\ state[j] = "active"
  /\ \E ended \in {"failed", "final"} : state' = [state EXCEPT ![j] = ended]
  /\ UNCHANGED <<jobOf, kindOf, retried, lockedBy, pc, asked, draft, code, told>>

\* retry_job updates the row without the company's lock.
Retry(j) ==
  /\ state[j] = "failed"
  /\ state' = [state EXCEPT ![j] = "active"]
  /\ retried' = retried \cup {j}
  /\ UNCHANGED <<jobOf, kindOf, lockedBy, pc, asked, draft, code, told>>
-----------------------------------------------------------------------------
CreateStep(r) ==
  \/ Lookup(r) \/ LockCompany(r) \/ Recheck(r) \/ CountActive(r)
  \/ Insert(r) \/ Commit(r) \/ Reply(r)

Next ==
  \/ \E r \in Requests : Arrive(r) \/ CreateStep(r) \/ Disconnect(r) \/ Break(r)
  \/ \E j \in Jobs : End(j) \/ Retry(j)

Spec == Init /\ [][Next]_vars

\* A request goes on while it can, and PostgreSQL grants a row lock in the
\* order of arrival, so none waits for ever behind others.
Fairness ==
  \A r \in Requests :
    /\ WF_vars(Lookup(r) \/ Recheck(r) \/ CountActive(r) \/ Insert(r) \/ Commit(r) \/ Reply(r))
    /\ SF_vars(LockCompany(r))

FairSpec == Spec /\ Fairness
-----------------------------------------------------------------------------
(* Properties.                                                             *)

\* The creates alone keep a company within its limit, whatever is counted while
\* jobs end and are retried: without the jobs that were retried, there are never
\* more active ones (service.py: create_job, the count under FOR UPDATE).
CreatesKeepTheLimit ==
  \A c \in Companies : Cardinality(Active(c) \ retried) <= MaxConcurrentJobs

\* The company's lock is held until the commit, so a request that inserts finds
\* its key free both of rows and of rows about to be committed: the branch of
\* create_job for a lost race of inserts is never taken
\* (service.py: create_job, the comment "corrida entre duas requests").
InsertFindsItsKeyFree ==
  \A r \in Requests :
    pc[r] \in {"inserting", "committing"} =>
      /\ ~Found(r)
      /\ \A s \in Requests \ {r} : draft[s] # None /\ KeyOf(s) = KeyOf(r) => pc[s] = "replying"

\* Every request that arrives is answered
\* (service.py: create_job, no request waits for another one's reply).
EveryRequestIsAnswered ==
  \A r \in Requests : pc[r] # "idle" ~> pc[r] = "answered"
-----------------------------------------------------------------------------
(* The answers are those of a map from keys to jobs: a job promised by a    *)
(* 201 is there and stays the job of its key, a replay is never refused for *)
(* want of room, and a job is compared with the payload that created it     *)
(* (service.py: create_job; routes.py: create_job).                         *)
Keyed == INSTANCE KeyedJobs
ImplementsKeyedJobs == Keyed!Spec
=============================================================================
