--------------------------- MODULE MigrationRunner ---------------------------
(***************************************************************************)
(* shared/db/migrate.py: runs of "up" and "down" by containers and         *)
(* operators on one database.  A run takes the session's advisory lock,    *)
(* reads the ledger once and works off its files.  A file whose statements *)
(* run one by one, outside a transaction, creates two indexes: each is     *)
(* dropped first, because a broken build leaves an index that is invalid   *)
(* and still there.  Every other file is one transaction with its row of   *)
(* the ledger.  Any statement may fail and any process may die.            *)
(***************************************************************************)
EXTENDS Naturals, Sequences

CONSTANTS
  Runners,     \* processes
  LastFile,    \* files 1 to LastFile of the migrations directory, by name
  Concurrent,  \* those marked non-transactional
  MaxRuns,     \* bound on the runs
  None

Files == 1..LastFile

ASSUME FilesAreNumbered == LastFile \in Nat /\ Concurrent \subseteq Files
ASSUME RunsAreBounded == MaxRuns \in Nat
ASSUME NoneIsNobody == None \notin Runners

VARIABLES
  ledger,    \* schema_migrations
  schema,    \* what each file creates: the state of its two objects
  lock,      \* whose session holds the advisory lock
  phase, command,
  pending,   \* files the run has still to work off
  done,      \* statements of the file at hand that were executed one by one
  reverted,  \* history: files a run of "down" has begun to revert
  runs

vars == <<ledger, schema, lock, phase, command, pending, done, reverted, runs>>

Objects == {"ready", "scheduled"}
Holding == {"locked", "running", "unlocking", "failing"}

TypeOK ==
  /\ ledger \subseteq Files /\ reverted \subseteq Files
  /\ schema \in [Files -> [Objects -> {"none", "invalid", "valid"}]]
  /\ lock \in Runners \cup {None}
  /\ phase \in [Runners -> {"down", "waiting", "up"} \cup Holding]
  /\ command \in [Runners -> {"up", "down"}]
  /\ pending \in [Runners -> SUBSET Files]
  /\ done \in [Runners -> 0..4]
  /\ runs \in 0..MaxRuns

Everywhere(state) == [o \in Objects |-> state]

Init ==
  /\ ledger = {} /\ reverted = {} /\ runs = 0
  /\ schema = [f \in Files |-> Everywhere("none")]
  /\ lock = None
  /\ phase = [r \in Runners |-> "down"] /\ command = [r \in Runners |-> "up"]
  /\ pending = [r \in Runners |-> {}] /\ done = [r \in Runners |-> 0]
-----------------------------------------------------------------------------
Database == <<ledger, schema, reverted>>
Goto(r, from, to) == phase[r] = from /\ phase' = [phase EXCEPT ![r] = to]

\* Mutant: the statements of 0012 without the DROPs.
CreateOnly(c) ==
  IF c = "up" THEN << <<"create", "ready">>, <<"create", "scheduled">> >>
              ELSE << <<"drop", "scheduled">>, <<"drop", "ready">> >>

\* 0012 and its reverse.
Script(c) ==
  IF c = "up" THEN << <<"drop", "ready">>, <<"create", "ready">>,
                      <<"drop", "scheduled">>, <<"create", "scheduled">> >>
              ELSE << <<"drop", "scheduled">>, <<"drop", "ready">> >>

\* DROP ... IF EXISTS and CREATE ... IF NOT EXISTS, which an invalid index satisfies.
After(statement, object) ==
  IF statement[1] = "drop" THEN "none" ELSE IF object = "none" THEN "valid" ELSE object

\* sorted(glob("*.sql")), or the ledger reversed.
IsNext(r, f) ==
  /\ phase[r] = "running" /\ f \in pending[r]
  /\ \A g \in pending[r] : IF command[r] = "up" THEN f <= g ELSE g <= f

Recorded(r, f) ==
  /\ ledger' = IF command[r] = "up" THEN ledger \cup {f} ELSE ledger \ {f}
  /\ reverted' = IF command[r] = "up" THEN reverted \ {f} ELSE reverted \cup {f}
  /\ pending' = [pending EXCEPT ![r] = @ \ {f}]

\* The next statement of a non-transactional file does this to its object.
Touch(r, f, State(_, _)) ==
  LET statement == Script(command[r])[done[r] + 1]  object == statement[2]
  IN /\ f \in Concurrent /\ IsNext(r, f) /\ done[r] < Len(Script(command[r]))
     /\ schema' = [schema EXCEPT ![f][object] = State(statement, @)]
     /\ reverted' = IF command[r] = "down" THEN reverted \cup {f} ELSE reverted

Broken(statement, object) == IF After(statement, object) = object THEN object ELSE "invalid"

\* An index build that is broken off leaves an invalid index.
BreakOff(r) ==
  /\ \/ UNCHANGED <<schema, reverted>>
     \/ \E f \in Files : Touch(r, f, Broken)
  /\ UNCHANGED ledger
-----------------------------------------------------------------------------
Launch(r) ==
  /\ Goto(r, "down", "waiting")
  /\ runs < MaxRuns /\ runs' = runs + 1
  /\ \E c \in {"up", "down"} : command' = [command EXCEPT ![r] = c]
  /\ UNCHANGED <<Database, lock, pending, done>>

\* Mutant: nobody asks whether the lock was granted.
TryLockBlindly(r) ==
  /\ Goto(r, "waiting", "locked")
  /\ lock' = r
  /\ UNCHANGED <<Database, command, pending, done, runs>>

\* _acquire_migration_lock; while another session holds it the runner polls.
TryLock(r) ==
  /\ Goto(r, "waiting", "locked")
  /\ lock = None /\ lock' = r
  /\ UNCHANGED <<Database, command, pending, done, runs>>

\* pending_migrations, or the last versions of the ledger.
Read(r) ==
  /\ Goto(r, "locked", "running")
  /\ \E last \in 0..LastFile :
       pending' = [pending EXCEPT ![r] =
         IF command[r] = "up" THEN Files \ ledger ELSE {f \in ledger : f > last}]
  /\ done' = [done EXCEPT ![r] = 0]
  /\ UNCHANGED <<Database, lock, command, runs>>

\* A transactional file, its row and their commit.  Its CREATEs fail when there
\* is something, its DROPs when there is nothing.
Migrate(r, f) ==
  /\ f \notin Concurrent /\ IsNext(r, f)
  /\ schema[f] = Everywhere(IF command[r] = "up" THEN "none" ELSE "valid")
  /\ schema' = [schema EXCEPT ![f] = Everywhere(IF command[r] = "up" THEN "valid" ELSE "none")]
  /\ Recorded(r, f)
  /\ UNCHANGED <<lock, phase, command, done, runs>>

Statement(r, f) ==
  /\ Touch(r, f, After)
  /\ done' = [done EXCEPT ![r] = @ + 1]
  /\ UNCHANGED <<ledger, lock, phase, command, pending, runs>>

\* Mutant: the file is recorded before its statements.
RecordFirst(r, f) ==
  /\ f \in Concurrent /\ IsNext(r, f)
  /\ Recorded(r, f)
  /\ done' = [done EXCEPT ![r] = 0]
  /\ UNCHANGED <<schema, lock, phase, command, runs>>

\* The row of a non-transactional file and its commit.
Record(r, f) ==
  /\ f \in Concurrent /\ IsNext(r, f) /\ done[r] = Len(Script(command[r]))
  /\ Recorded(r, f)
  /\ done' = [done EXCEPT ![r] = 0]
  /\ UNCHANGED <<schema, lock, phase, command, runs>>

Finish(r) ==
  /\ Goto(r, "running", "unlocking")
  /\ pending[r] = {}
  /\ UNCHANGED <<Database, lock, command, pending, done, runs>>

\* A statement raises, or a file for the way down is missing.
Fail(r) ==
  /\ \E from \in {"locked", "running"} : Goto(r, from, "failing")
  /\ BreakOff(r)
  /\ UNCHANGED <<lock, command, pending, done, runs>>

\* Mutant: "migrate ; uvicorn" in the Dockerfile.
UnlockAndServe(r) ==
  /\ \E from \in {"unlocking", "failing"} : Goto(r, from, IF command[r] = "up" THEN "up" ELSE "down")
  /\ lock' = None
  /\ UNCHANGED <<Database, command, pending, done, runs>>

\* _release_migration_lock; uvicorn starts after an "up" that succeeded.
Unlock(r) ==
  /\ \/ Goto(r, "unlocking", IF command[r] = "up" THEN "up" ELSE "down")
     \/ Goto(r, "failing", "down")
  /\ lock' = None
  /\ UNCHANGED <<Database, command, pending, done, runs>>

\* Mutant: the lock is a row that outlives its owner.
DieLocked(r) ==
  /\ phase[r] # "down" /\ phase' = [phase EXCEPT ![r] = "down"]
  /\ BreakOff(r)
  /\ UNCHANGED <<lock, command, pending, done, runs>>

\* The process dies and its session ends.
Die(r) ==
  /\ phase[r] # "down" /\ phase' = [phase EXCEPT ![r] = "down"]
  /\ BreakOff(r)
  /\ lock' = IF lock = r THEN None ELSE lock
  /\ UNCHANGED <<command, pending, done, runs>>

Work(r) ==
  \/ Read(r) \/ Finish(r) \/ Unlock(r)
  \/ \E f \in Files : Migrate(r, f) \/ Statement(r, f) \/ Record(r, f)

Next == \E r \in Runners : Launch(r) \/ TryLock(r) \/ Work(r) \/ Fail(r) \/ Die(r)

Spec == Init /\ [][Next]_vars

\* A runner that lives goes on: its polling has no end.
Fairness == \A r \in Runners : WF_vars(TryLock(r)) /\ WF_vars(Work(r))
-----------------------------------------------------------------------------
Whole(f) == schema[f] = Everywhere("valid")

\* The files of the ledger are the first ones: they are applied in order and
\* reverted from the end, whoever does it (migrate.py: run_migrations,
\* rollback_migrations; test_concurrent_runners_apply_each_migration_exactly_once).
LedgerIsAPrefix == \A f \in ledger : \A g \in Files : g < f => g \in ledger

\* What the ledger says of a file is so: of a transactional file always, of the
\* others unless a run of "down" was broken off before it got to the ledger.  A
\* build broken off on the way up is not in the ledger, and the next run makes
\* its indexes valid (test_nontransactional_index_migration_recovers_invalid_index_without_ledger).
LedgerTellsTheSchema ==
  /\ \A f \in Files \ Concurrent : schema[f] = Everywhere(IF f \in ledger THEN "valid" ELSE "none")
  /\ \A f \in (Concurrent \cap ledger) \ reverted : Whole(f)

\* A container serves on a whole schema, but for what was reverted after or
\* under it (docs/api.md, "migrations SQL aplicadas antes do uvicorn").
ServesOnWholeSchema ==
  \A r \in Runners : phase[r] = "up" => \A f \in Files \ reverted : Whole(f)

\* Who waits for the lock gets it or ends, although others die while they hold it.
RunnersGetTheLock == \A r \in Runners : phase[r] = "waiting" ~> phase[r] # "waiting"
=============================================================================
