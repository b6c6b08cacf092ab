----------------------------- MODULE SubmitIntent -----------------------------
(***************************************************************************)
(* The button that submits a job, SubmitButton.tsx, over what POST /jobs   *)
(* promises, KeyedJobs.  A page keeps one idempotency key for what its     *)
(* user wants and replaces it when the reply of a request reads well, so a *)
(* press after a lost reply asks again for the same job.                   *)
(*                                                                         *)
(* The user may sign in as someone of another company with the button on   *)
(* the page, a reply may never come though the server goes on, jobs live   *)
(* meanwhile, and the page may be reloaded, which forgets the key.         *)
(***************************************************************************)
EXTENDS Integers, FiniteSets

CONSTANTS
  Companies,   \* those the user can sign in for: FAKE_USERS of auth.ts
  Jobs,        \* ids the server may give
  Presses,     \* the requests the page may send
  MaxKeys,     \* bound on the keys that are made
  None

Keys == 1..MaxKeys

ASSUME NoneIsNothing ==
  None \notin Jobs \cup Presses \cup [company : Companies, key : Keys, kind : {"report"}]
ASSUME KeysAreEnough == IsFiniteSet(Presses) /\ MaxKeys \in Nat /\ Cardinality(Presses) < MaxKeys

VARIABLES
  jobOf, kindOf, asked, code, told,  \* the server's promise
  waiting,     \* the jobs whose status is queued
  read,        \* the presses whose reply, if it comes, says queued
  company,     \* auth, of which the company is told apart
  key,         \* idempotencyKey.current
  pending,     \* the press the page waits for, or None
  announced,   \* the jobs the user was told of
  forgotten    \* keys lost in a reload (history)

server == <<jobOf, kindOf, asked, code, told>>
page == <<company, key, pending, announced, forgotten>>
vars == <<server, waiting, read, page>>

Server == INSTANCE KeyedJobs WITH
  Known <- Companies, Kinds <- {"report"}, Requests <- Presses

TypeOK ==
  /\ jobOf \in [Companies \X Keys -> Jobs \cup {None}]
  /\ asked \in [Presses -> [company : Companies, key : Keys, kind : {"report"}] \cup {None}]
  /\ code \in [Presses -> {0, 201, 401, 409, 429, 500}]
  /\ told \in [Presses -> Jobs \cup {None}]
  /\ waiting \subseteq Jobs
  /\ read \subseteq Presses
  /\ company \in Companies
  /\ key \in Keys
  /\ pending \in Presses \cup {None}
  /\ announced \subseteq Jobs
  /\ forgotten \subseteq Keys

Init ==
  /\ Server!Init
  /\ waiting = {}
  /\ read = {}
  /\ company \in Companies
  /\ key = 1
  /\ pending = None
  /\ announced = {}
  /\ forgotten = {}
-----------------------------------------------------------------------------
(* The server, and the jobs it made.                                       *)

Create(r, j) ==
  /\ Server!Create(r, j)
  /\ waiting' = waiting \cup {j}
  /\ read' = read \cup {r}
  /\ UNCHANGED page

\* A replay has the status of the job when it is read.
Answer(r) ==
  /\ Server!Answer(r)
  /\ read' = read \cup {s \in {r} : told'[s] \in waiting}
  /\ UNCHANGED <<waiting, page>>

\* Claimed or cancelled; retried after a failure.
Live(j) ==
  /\ \E ck \in Companies \X Keys : jobOf[ck] = j
  /\ waiting' = IF j \in waiting THEN waiting \ {j} ELSE waiting \cup {j}
  /\ UNCHANGED <<server, read, page>>
-----------------------------------------------------------------------------
(* The page.                                                               *)

\* onClick, where the button is not disabled.
Press(r) ==
  /\ pending = None
  /\ asked[r] = None
  /\ asked' = [asked EXCEPT ![r] = [company |-> company, key |-> key, kind |-> "report"]]
  /\ pending' = r
  /\ UNCHANGED <<jobOf, kindOf, code, told, waiting, read, company, key, announced, forgotten>>

\* Mutant: the key is renewed in the finally.
RenewAlways(r) ==
  /\ pending = r
  /\ code[r] # 0
  /\ key' = key + 1
  /\ announced' = IF code[r] = 201 /\ r \in read THEN announced \cup {told[r]} ELSE announced
  /\ pending' = None
  /\ UNCHANGED <<server, waiting, read, company, forgotten>>

\* Mutant: the key is made with the page and never again.
KeepKey(r) ==
  /\ pending = r
  /\ code[r] # 0
  /\ announced' = IF code[r] = 201 /\ r \in read THEN announced \cup {told[r]} ELSE announced
  /\ pending' = None
  /\ UNCHANGED <<server, waiting, read, company, key, forgotten>>

\* The rest of submit: parseJobCreated takes a 201 whose status is queued, and
\* what it does not take is an error, like a refusal or a connection lost.
Settle(r) ==
  /\ pending = r
  /\ code[r] # 0
  /\ IF code[r] = 201 /\ r \in read
       THEN key' = key + 1 /\ announced' = announced \cup {told[r]}
       ELSE UNCHANGED <<key, announced>>
  /\ pending' = None
  /\ UNCHANGED <<server, waiting, read, company, forgotten>>

\* setAuth: the button stays, with its key and what it waits for.
SignIn(c) ==
  /\ c # company
  /\ company' = c
  /\ UNCHANGED <<server, waiting, read, key, pending, announced, forgotten>>

\* There are keys left for every press (MaxKeys).
Reload ==
  /\ key + Cardinality(Presses) < MaxKeys
  /\ key' = key + 1
  /\ forgotten' = forgotten \cup {key}
  /\ pending' = None
  /\ UNCHANGED <<server, waiting, read, company, announced>>
-----------------------------------------------------------------------------
Next ==
  \/ \E r \in Presses : Press(r) \/ Answer(r) \/ Settle(r) \/ \E j \in Jobs : Create(r, j)
  \/ \E j \in Jobs : Live(j)
  \/ \E c \in Companies : SignIn(c)
  \/ Reload

Spec == Init /\ [][Next]_vars
-----------------------------------------------------------------------------
(* Properties.                                                             *)

\* Who signed in for another company with a key on its way used it for both.
Shared(k) ==
  \E r, s \in Presses :
    /\ asked[r] # None /\ asked[s] # None
    /\ asked[r].key = k /\ asked[s].key = k
    /\ asked[r].company # asked[s].company

\* Pressing again never makes a second job of what the user wants once: a job
\* made under a key the page has put aside is one its user was told of,
\* whichever replies were lost and however late the server did what it was
\* asked, unless a reload forgot the key or two companies shared it
\* (SubmitButton.tsx: submit, idempotencyKey; docs/web.md, "Submissão
\* idempotente").
PressesAreNotDuplicated ==
  \A k \in (1..key - 1) \ forgotten, c \in Companies :
    jobOf[<<c, k>>] # None /\ ~Shared(k) => jobOf[<<c, k>>] \in announced

\* A job is announced once: the key of a job that was announced is not the
\* page's, so the next press asks for another (SubmitButton.tsx: submit,
\* idempotencyKey.current after the await).
AnnouncedJobsAreSettled ==
  \A c \in Companies : jobOf[<<c, key>>] \notin announced

\* The page reads every reply that names its job: a replay has the status the
\* job has by then (schemas.py: JobCreated.status; types.ts: parseJobCreated).
RepliesAreRead ==
  [][\A r \in Presses :
       pending = r /\ code[r] = 201 /\ pending' = None /\ forgotten' = forgotten
         => told[r] \in announced']_vars
=============================================================================
