------------------------ MODULE MigrationRunnerProofs ------------------------
(***************************************************************************)
(* Whoever holds the lock is alone with the ledger and the schema, and a   *)
(* list of files that was read under the lock stays true to the ledger.    *)
(***************************************************************************)
EXTENDS MigrationRunner, TLAPS

HolderIsAlone == \A r \in Runners : phase[r] \in Holding => lock = r

PendingIsTrue ==
  \A r \in Runners :
    /\ phase[r] = "running" /\ command[r] = "up" => pending[r] = Files \ ledger
    /\ phase[r] = "running" /\ command[r] = "down" =>
         /\ pending[r] \subseteq ledger
         /\ \A f \in pending[r] : \A g \in ledger : f < g => g \in pending[r]

\* What the statements executed so far made of the file at hand.
StatementsAreDone ==
  \A r \in Runners : \A f \in Files : IsNext(r, f) =>
    /\ f \notin Concurrent => done[r] = 0
    /\ command[r] = "up" =>
         /\ done[r] = 1 => schema[f]["ready"] = "none"
         /\ done[r] >= 2 => schema[f]["ready"] = "valid"
         /\ done[r] = 3 => schema[f]["scheduled"] = "none"
         /\ done[r] = 4 => schema[f]["scheduled"] = "valid"

LedgerIsComplete ==
  \A r \in Runners :
    /\ phase[r] = "unlocking" /\ command[r] = "up" => ledger = Files
    /\ phase[r] = "up" => Files \ reverted \subseteq ledger

IInv ==
  /\ TypeOK /\ HolderIsAlone /\ PendingIsTrue /\ StatementsAreDone
  /\ LedgerIsComplete /\ LedgerIsAPrefix /\ LedgerTellsTheSchema
-----------------------------------------------------------------------------
\* The two scripts, statement by statement.
LEMMA ScriptUp ==
  /\ Len(Script("up")) = 4
  /\ Script("up")[1] = <<"drop", "ready">> /\ Script("up")[2] = <<"create", "ready">>
  /\ Script("up")[3] = <<"drop", "scheduled">> /\ Script("up")[4] = <<"create", "scheduled">>
BY DEF Script

LEMMA ScriptDown ==
  /\ Len(Script("down")) = 2
  /\ Script("down")[1] = <<"drop", "scheduled">> /\ Script("down")[2] = <<"drop", "ready">>
BY DEF Script

\* A statement acts on one of the two objects and leaves it in one of three states.
LEMMA AfterType ==
  ASSUME NEW c \in {"up", "down"}, NEW n \in 0..4, n < Len(Script(c)),
         NEW state \in {"none", "invalid", "valid"}
  PROVE  /\ Script(c)[n + 1][2] \in Objects
         /\ After(Script(c)[n + 1], state) \in {"none", "invalid", "valid"}
         /\ Broken(Script(c)[n + 1], state) \in {"none", "invalid", "valid"}
<1>1. CASE c = "up"
  <2>1. n \in {0, 1, 2, 3}
    <3>1. n < 4
      BY <1>1, ScriptUp, Zenon
    <3> QED
      BY <3>1
  <2> QED
    BY <1>1, <2>1, ScriptUp DEF Objects, After, Broken
<1>2. CASE c = "down"
  <2>1. n \in {0, 1}
    <3>1. n < 2
      BY <1>2, ScriptDown, Zenon
    <3> QED
      BY <3>1
  <2> QED
    BY <1>2, <2>1, ScriptDown DEF Objects, After, Broken
<1> QED
  BY <1>1, <1>2

LEMMA InitIInv == Init => IInv
<1> SUFFICES ASSUME Init PROVE IInv
  OBVIOUS
<1>1. TypeOK
  BY RunsAreBounded DEF Init, TypeOK, Everywhere, Holding
<1>2. HolderIsAlone /\ PendingIsTrue /\ StatementsAreDone /\ LedgerIsComplete
  BY DEF Init, HolderIsAlone, PendingIsTrue, StatementsAreDone, LedgerIsComplete, IsNext, Holding
<1>3. LedgerIsAPrefix /\ LedgerTellsTheSchema
  BY DEF Init, LedgerIsAPrefix, LedgerTellsTheSchema
<1> QED
  BY <1>1, <1>2, <1>3 DEF IInv

-----------------------------------------------------------------------------
\* A run that touches a file has the lock, so no other run is under way; the
\* file is of Concurrent, and what the ledger says of it is not yet, or no more, so.
LEMMA TouchIsSafe ==
  ASSUME IInv, NEW r \in Runners, NEW f \in Files, f \in Concurrent, IsNext(r, f),
         NEW o \in Objects, NEW v \in {"none", "invalid", "valid"},
         schema' = [schema EXCEPT ![f][o] = v], UNCHANGED ledger,
         reverted' = IF command[r] = "down" THEN reverted \cup {f} ELSE reverted
  PROVE  /\ schema' \in [Files -> [Objects -> {"none", "invalid", "valid"}]]
         /\ reverted' \subseteq Files
         /\ LedgerTellsTheSchema'
<1>1. schema' \in [Files -> [Objects -> {"none", "invalid", "valid"}]] /\ reverted' \subseteq Files
  BY DEF IInv, TypeOK
<1>2. \A g \in Files : g # f => schema'[g] = schema[g]
  BY DEF IInv, TypeOK
<1>3. f \notin ledger \/ f \in reverted'
  <2>1. CASE command[r] = "up"
    BY <2>1 DEF IInv, PendingIsTrue, IsNext
  <2>2. CASE command[r] = "down"
    BY <2>2
  <2> QED
    BY <2>1, <2>2 DEF IInv, TypeOK
<1>4. LedgerTellsTheSchema'
  BY <1>2, <1>3 DEF IInv, LedgerTellsTheSchema, Whole, Everywhere
<1> QED
  BY <1>1, <1>4

LEMMA BreakOffIsSafe ==
  ASSUME IInv, NEW r \in Runners, BreakOff(r)
  PROVE  /\ schema' \in [Files -> [Objects -> {"none", "invalid", "valid"}]]
         /\ reverted \subseteq reverted' /\ reverted' \subseteq Files
         /\ LedgerTellsTheSchema'
         /\ phase[r] # "running" => UNCHANGED schema
<1>1. CASE UNCHANGED <<schema, reverted>>
  BY <1>1 DEF BreakOff, IInv, TypeOK, LedgerTellsTheSchema, Whole, Everywhere
<1>2. CASE \E f \in Files : Touch(r, f, Broken)
  <2> PICK f \in Files : Touch(r, f, Broken)
    BY <1>2
  <2> DEFINE s == Script(command[r])[done[r] + 1]
             v == Broken(s, schema[f][s[2]])
  <2>1. /\ f \in Concurrent /\ IsNext(r, f) /\ done[r] < Len(Script(command[r]))
        /\ schema' = [schema EXCEPT ![f][s[2]] = v]
        /\ reverted' = IF command[r] = "down" THEN reverted \cup {f} ELSE reverted
    BY DEF Touch, IInv, TypeOK
  <2>2. command[r] \in {"up", "down"} /\ done[r] \in 0..4
    BY DEF IInv, TypeOK
  <2>3. s[2] \in Objects
    BY <2>1, <2>2, AfterType
  <2>4. schema[f][s[2]] \in {"none", "invalid", "valid"}
    BY <2>3 DEF IInv, TypeOK
  <2>5. v \in {"none", "invalid", "valid"}
    BY <2>1, <2>2, <2>4, AfterType
  <2> HIDE DEF s, v
  <2> QED
    BY <2>1, <2>3, <2>5, TouchIsSafe DEF BreakOff, IsNext
<1> QED
  BY <1>1, <1>2 DEF BreakOff
-----------------------------------------------------------------------------
LEMMA LaunchIInv ==
  ASSUME IInv, NEW r \in Runners, Launch(r)
  PROVE  IInv'
<1>1. TypeOK'
  BY RunsAreBounded DEF IInv, TypeOK, Launch, Goto, Database
<1>2. /\ \A q \in Runners : phase'[q] \in Holding \cup {"up"} => q # r /\ phase[q] = phase'[q]
      /\ \A q \in Runners : q # r => command'[q] = command[q]
      /\ UNCHANGED <<ledger, schema, reverted, lock, pending, done>>
  BY DEF IInv, TypeOK, Launch, Goto, Database, Holding
<1>3. HolderIsAlone' /\ PendingIsTrue' /\ LedgerIsComplete'
  BY <1>2 DEF IInv, HolderIsAlone, PendingIsTrue, LedgerIsComplete, Holding
<1>4. StatementsAreDone'
  BY <1>2 DEF IInv, StatementsAreDone, IsNext, Holding
<1>5. LedgerIsAPrefix' /\ LedgerTellsTheSchema'
  BY <1>2 DEF IInv, LedgerIsAPrefix, LedgerTellsTheSchema, Whole, Everywhere
<1> QED
  BY <1>1, <1>3, <1>4, <1>5 DEF IInv

LEMMA TryLockIInv ==
  ASSUME IInv, NEW r \in Runners, TryLock(r)
  PROVE  IInv'
<1>1. TypeOK'
  BY DEF IInv, TypeOK, TryLock, Goto, Database, Holding
<1>2. /\ \A q \in Runners : q # r => phase'[q] = phase[q]
      /\ phase'[r] = "locked" /\ lock = None /\ lock' = r
      /\ UNCHANGED <<ledger, schema, reverted, command, pending, done>>
  BY DEF IInv, TypeOK, TryLock, Goto, Database
<1>3. HolderIsAlone'
  BY <1>2, NoneIsNobody DEF IInv, HolderIsAlone
<1>4. PendingIsTrue' /\ LedgerIsComplete' /\ StatementsAreDone'
  BY <1>2 DEF IInv, PendingIsTrue, LedgerIsComplete, StatementsAreDone, IsNext
<1>5. LedgerIsAPrefix' /\ LedgerTellsTheSchema'
  BY <1>2 DEF IInv, LedgerIsAPrefix, LedgerTellsTheSchema, Whole, Everywhere
<1> QED
  BY <1>1, <1>3, <1>4, <1>5 DEF IInv

LEMMA ReadIInv ==
  ASSUME IInv, NEW r \in Runners, Read(r)
  PROVE  IInv'
<1> PICK last \in 0..LastFile : pending' = [pending EXCEPT ![r] =
         IF command[r] = "up" THEN Files \ ledger ELSE {f \in ledger : f > last}]
  BY DEF Read
<1>1. TypeOK'
  BY DEF IInv, TypeOK, Read, Goto, Database, Holding
<1>2. /\ \A q \in Runners : q # r => phase'[q] = phase[q] /\ pending'[q] = pending[q] /\ done'[q] = done[q]
      /\ phase[r] = "locked" /\ phase'[r] = "running" /\ done'[r] = 0
      /\ UNCHANGED <<ledger, schema, reverted, command, lock>>
  BY DEF IInv, TypeOK, Read, Goto, Database
<1>3. HolderIsAlone'
  BY <1>2 DEF IInv, HolderIsAlone, Holding
<1>4. PendingIsTrue'
  <2>1. command[r] = "up" => pending'[r] = Files \ ledger
    BY DEF IInv, TypeOK
  <2>2. command[r] = "down" => pending'[r] = {f \in ledger : f > last}
    BY DEF IInv, TypeOK
  <2>3. command[r] = "down" => pending'[r] \subseteq ledger /\ \A f \in pending'[r] : \A g \in ledger : f < g => g \in pending'[r]
    BY <2>2, FilesAreNumbered DEF IInv, TypeOK, Files
  <2> QED
    BY <1>2, <2>1, <2>3 DEF IInv, PendingIsTrue
<1>5. LedgerIsComplete' /\ StatementsAreDone'
  BY <1>2 DEF IInv, LedgerIsComplete, StatementsAreDone, IsNext
<1>6. LedgerIsAPrefix' /\ LedgerTellsTheSchema'
  BY <1>2 DEF IInv, LedgerIsAPrefix, LedgerTellsTheSchema, Whole, Everywhere
<1> QED
  BY <1>1, <1>3, <1>4, <1>5, <1>6 DEF IInv

LEMMA FinishIInv ==
  ASSUME IInv, NEW r \in Runners, Finish(r)
  PROVE  IInv'
<1>1. TypeOK'
  BY DEF IInv, TypeOK, Finish, Goto, Database, Holding
<1>2. /\ \A q \in Runners : q # r => phase'[q] = phase[q]
      /\ phase[r] = "running" /\ phase'[r] = "unlocking" /\ pending[r] = {}
      /\ UNCHANGED <<ledger, schema, reverted, command, lock, pending, done>>
  BY DEF IInv, TypeOK, Finish, Goto, Database
<1>3. HolderIsAlone'
  BY <1>2 DEF IInv, HolderIsAlone, Holding
<1>4. PendingIsTrue' /\ StatementsAreDone'
  BY <1>2 DEF IInv, PendingIsTrue, StatementsAreDone, IsNext
<1>5. LedgerIsComplete'
  <2>1. command[r] = "up" => ledger = Files
    BY <1>2 DEF IInv, TypeOK, PendingIsTrue
  <2> QED
    BY <1>2, <2>1 DEF IInv, LedgerIsComplete
<1>6. LedgerIsAPrefix' /\ LedgerTellsTheSchema'
  BY <1>2 DEF IInv, LedgerIsAPrefix, LedgerTellsTheSchema, Whole, Everywhere
<1> QED
  BY <1>1, <1>3, <1>4, <1>5, <1>6 DEF IInv

LEMMA UnlockIInv ==
  ASSUME IInv, NEW r \in Runners, Unlock(r)
  PROVE  IInv'
<1>1. TypeOK'
  BY DEF IInv, TypeOK, Unlock, Goto, Database, Holding
<1>2. /\ \A q \in Runners : q # r => phase'[q] = phase[q]
      /\ phase[r] \in Holding /\ phase'[r] \in {"up", "down"}
      /\ phase'[r] = "up" => phase[r] = "unlocking" /\ command[r] = "up"
      /\ UNCHANGED <<ledger, schema, reverted, command, pending, done>>
  BY DEF IInv, TypeOK, Unlock, Goto, Database, Holding
<1>3. HolderIsAlone'
  BY <1>2 DEF IInv, HolderIsAlone, Holding
<1>4. PendingIsTrue' /\ StatementsAreDone'
  BY <1>2 DEF IInv, PendingIsTrue, StatementsAreDone, IsNext
<1>5. LedgerIsComplete'
  BY <1>2 DEF IInv, LedgerIsComplete
<1>6. LedgerIsAPrefix' /\ LedgerTellsTheSchema'
  BY <1>2 DEF IInv, LedgerIsAPrefix, LedgerTellsTheSchema, Whole, Everywhere
<1> QED
  BY <1>1, <1>3, <1>4, <1>5, <1>6 DEF IInv

\* Failing and dying alike: the run is over, and at most one object is broken.
LEMMA EndIInv ==
  ASSUME IInv, NEW r \in Runners, Fail(r) \/ Die(r)
  PROVE  IInv'
<1>1. BreakOff(r) /\ UNCHANGED <<ledger, command, pending, done, runs>>
  BY DEF Fail, Die, BreakOff
<1>2. /\ schema' \in [Files -> [Objects -> {"none", "invalid", "valid"}]]
      /\ reverted \subseteq reverted' /\ reverted' \subseteq Files
      /\ LedgerTellsTheSchema'
      /\ phase[r] # "running" => UNCHANGED schema
  BY <1>1, BreakOffIsSafe
<1>3. TypeOK'
  BY <1>1, <1>2 DEF IInv, TypeOK, Fail, Die, Goto, Holding
<1>4. /\ \A q \in Runners : q # r => phase'[q] = phase[q]
      /\ phase'[r] \in {"failing", "down"}
      /\ phase[r] = "running" => lock = r
  BY DEF IInv, TypeOK, Fail, Die, Goto, HolderIsAlone, Holding
<1>5. HolderIsAlone'
  <2>1. CASE Fail(r)
    <3>1. phase[r] \in Holding /\ UNCHANGED lock
      BY <2>1 DEF Fail, Goto, Holding
    <3> QED
      BY <1>4, <3>1 DEF IInv, HolderIsAlone
  <2>2. CASE Die(r)
    <3>1. lock' = (IF lock = r THEN None ELSE lock) /\ phase'[r] = "down"
      BY <2>2 DEF Die, IInv, TypeOK
    <3> QED
      BY <1>4, <3>1 DEF IInv, HolderIsAlone, Holding
  <2> QED
    BY <2>1, <2>2
<1>6. PendingIsTrue' /\ LedgerIsComplete'
  BY <1>1, <1>2, <1>4 DEF IInv, PendingIsTrue, LedgerIsComplete
<1>7. StatementsAreDone'
  <2>1. ASSUME NEW q \in Runners, phase'[q] = "running" PROVE q # r /\ phase[q] = "running" /\ UNCHANGED schema
    BY <1>2, <1>4, <2>1 DEF IInv, HolderIsAlone, Holding
  <2> QED
    BY <1>1, <2>1 DEF IInv, StatementsAreDone, IsNext
<1>8. LedgerIsAPrefix'
  BY <1>1 DEF IInv, LedgerIsAPrefix
<1> QED
  BY <1>2, <1>3, <1>5, <1>6, <1>7, <1>8 DEF IInv

-----------------------------------------------------------------------------
\* The row of a file that was carried out: the next of a list that is true.
LEMMA RecordedIsSafe ==
  ASSUME IInv, NEW r \in Runners, NEW f \in Files, IsNext(r, f), Recorded(r, f),
         UNCHANGED <<lock, phase, command>>,
         \A g \in Files : g # f => schema'[g] = schema[g],
         command[r] = "up" => schema'[f] = Everywhere("valid"),
         command[r] = "down" /\ f \notin Concurrent => schema'[f] = Everywhere("none")
  PROVE  /\ ledger' \subseteq Files /\ reverted' \subseteq Files
         /\ pending' \in [Runners -> SUBSET Files]
         /\ HolderIsAlone' /\ PendingIsTrue' /\ LedgerIsComplete'
         /\ LedgerIsAPrefix' /\ LedgerTellsTheSchema'
<1>1. ledger' \subseteq Files /\ reverted' \subseteq Files /\ pending' \in [Runners -> SUBSET Files]
  BY DEF IInv, TypeOK, Recorded
<1>2. /\ phase[r] = "running" /\ lock = r /\ f \in pending[r]
      /\ \A q \in Runners : q # r => phase[q] \notin Holding
      /\ \A q \in Runners : q # r => pending'[q] = pending[q]
      /\ pending'[r] = pending[r] \ {f}
  BY DEF IInv, TypeOK, IsNext, HolderIsAlone, Holding, Recorded
<1>3. HolderIsAlone'
  BY DEF IInv, HolderIsAlone
<1>4. CASE command[r] = "up"
  <2>1. /\ ledger' = ledger \cup {f} /\ reverted' = reverted \ {f}
        /\ pending[r] = Files \ ledger
    BY <1>2, <1>4 DEF Recorded, IInv, PendingIsTrue
  <2>2. \A g \in Files \ ledger : f <= g
    BY <1>4, <2>1 DEF IsNext
  <2>3. PendingIsTrue'
    BY <1>2, <1>4, <2>1 DEF IInv, PendingIsTrue, Holding
  <2>4. LedgerIsAPrefix'
    BY <2>1, <2>2, FilesAreNumbered DEF IInv, LedgerIsAPrefix, Files
  <2>5. LedgerIsComplete'
    BY <1>2, <2>1 DEF IInv, LedgerIsComplete, Holding
  <2>6. LedgerTellsTheSchema'
    <3> SUFFICES ASSUME NEW g \in Files
        PROVE  /\ g \notin Concurrent => schema'[g] = Everywhere(IF g \in ledger' THEN "valid" ELSE "none")
               /\ g \in Concurrent /\ g \in ledger' /\ g \notin reverted' => schema'[g] = Everywhere("valid")
      BY FilesAreNumbered DEF LedgerTellsTheSchema, Whole, Everywhere
    <3>1. /\ g \notin Concurrent => schema[g] = Everywhere(IF g \in ledger THEN "valid" ELSE "none")
          /\ g \in Concurrent /\ g \in ledger /\ g \notin reverted => schema[g] = Everywhere("valid")
      BY DEF IInv, LedgerTellsTheSchema, Whole
    <3>2. CASE g = f
      BY <1>4, <2>1, <3>2
    <3>3. CASE g # f
      BY <2>1, <3>1, <3>3
    <3> QED
      BY <3>2, <3>3
  <2> QED
    BY <1>1, <1>3, <2>3, <2>4, <2>5, <2>6
<1>5. CASE command[r] = "down"
  <2>1. /\ ledger' = ledger \ {f} /\ reverted' = reverted \cup {f}
        /\ pending[r] \subseteq ledger
        /\ \A h \in pending[r] : \A g \in ledger : h < g => g \in pending[r]
    BY <1>2, <1>5 DEF Recorded, IInv, PendingIsTrue
  <2>2. \A g \in pending[r] : g <= f
    BY <1>5 DEF IsNext
  <2>3. PendingIsTrue'
    BY <1>2, <1>5, <2>1 DEF IInv, PendingIsTrue, Holding
  <2>4. LedgerIsAPrefix'
    <3> SUFFICES ASSUME NEW h \in ledger', NEW g \in Files, g < h PROVE g \in ledger'
      BY DEF LedgerIsAPrefix
    <3>1. g \in ledger
      BY <2>1 DEF IInv, LedgerIsAPrefix
    <3>2. ~(f < h)
      BY <1>2, <2>1, <2>2, FilesAreNumbered DEF IInv, TypeOK, Files
    <3>3. g # f
      BY <3>2
    <3> QED
      BY <2>1, <3>1, <3>3
  <2>5. LedgerIsComplete'
    BY <1>2, <2>1 DEF IInv, LedgerIsComplete, Holding
  <2>6. LedgerTellsTheSchema'
    <3> SUFFICES ASSUME NEW g \in Files
        PROVE  /\ g \notin Concurrent => schema'[g] = Everywhere(IF g \in ledger' THEN "valid" ELSE "none")
               /\ g \in Concurrent /\ g \in ledger' /\ g \notin reverted' => schema'[g] = Everywhere("valid")
      BY FilesAreNumbered DEF LedgerTellsTheSchema, Whole, Everywhere
    <3>1. /\ g \notin Concurrent => schema[g] = Everywhere(IF g \in ledger THEN "valid" ELSE "none")
          /\ g \in Concurrent /\ g \in ledger /\ g \notin reverted => schema[g] = Everywhere("valid")
      BY DEF IInv, LedgerTellsTheSchema, Whole
    <3>2. CASE g = f
      BY <1>5, <2>1, <3>2
    <3>3. CASE g # f
      BY <2>1, <3>1, <3>3
    <3> QED
      BY <3>2, <3>3
  <2> QED
    BY <1>1, <1>3, <2>3, <2>4, <2>5, <2>6
<1> QED
  BY <1>4, <1>5 DEF IInv, TypeOK

LEMMA MigrateIInv ==
  ASSUME IInv, NEW r \in Runners, NEW f \in Files, Migrate(r, f)
  PROVE  IInv'
<1>1. /\ IsNext(r, f) /\ f \notin Concurrent /\ Recorded(r, f)
      /\ schema' = [schema EXCEPT ![f] = Everywhere(IF command[r] = "up" THEN "valid" ELSE "none")]
      /\ UNCHANGED <<lock, phase, command, done, runs>>
  BY DEF Migrate
<1>2. \A g \in Files : g # f => schema'[g] = schema[g]
  BY <1>1 DEF IInv, TypeOK
<1>3. schema'[f] = Everywhere(IF command[r] = "up" THEN "valid" ELSE "none")
  BY <1>1 DEF IInv, TypeOK
<1>4. /\ ledger' \subseteq Files /\ reverted' \subseteq Files
      /\ pending' \in [Runners -> SUBSET Files]
      /\ HolderIsAlone' /\ PendingIsTrue' /\ LedgerIsComplete'
      /\ LedgerIsAPrefix' /\ LedgerTellsTheSchema'
  BY <1>1, <1>2, <1>3, RecordedIsSafe
<1>5. TypeOK'
  <2>1. Everywhere(IF command[r] = "up" THEN "valid" ELSE "none") \in [Objects -> {"none", "invalid", "valid"}]
    BY DEF Everywhere
  <2>2. schema' \in [Files -> [Objects -> {"none", "invalid", "valid"}]]
    BY <1>1, <2>1 DEF IInv, TypeOK
  <2> QED
    BY <1>1, <1>4, <2>2 DEF IInv, TypeOK
<1>6. StatementsAreDone'
  <2> SUFFICES ASSUME NEW q \in Runners, NEW g \in Files, IsNext(q, g)' PROVE done[q] = 0
    BY <1>1 DEF StatementsAreDone
  <2>1. phase[q] = "running" /\ q = r
    BY <1>1 DEF IsNext, IInv, HolderIsAlone, Holding
  <2> QED
    BY <1>1, <2>1 DEF IInv, StatementsAreDone
<1> QED
  BY <1>4, <1>5, <1>6 DEF IInv

LEMMA RecordIInv ==
  ASSUME IInv, NEW r \in Runners, NEW f \in Files, Record(r, f)
  PROVE  IInv'
<1>1. /\ IsNext(r, f) /\ f \in Concurrent /\ Recorded(r, f)
      /\ done[r] = Len(Script(command[r])) /\ done' = [done EXCEPT ![r] = 0]
      /\ UNCHANGED <<schema, lock, phase, command, runs>>
  BY DEF Record
<1>2. command[r] = "up" => schema[f] = Everywhere("valid")
  <2> SUFFICES ASSUME command[r] = "up" PROVE schema[f] = Everywhere("valid")
    OBVIOUS
  <2>1. done[r] = 4
    BY <1>1, ScriptUp
  <2>2. schema[f]["ready"] = "valid" /\ schema[f]["scheduled"] = "valid"
    BY <1>1, <2>1 DEF IInv, StatementsAreDone
  <2>3. schema[f] = [o \in Objects |-> schema[f][o]]
    BY DEF IInv, TypeOK
  <2> QED
    BY <2>2, <2>3 DEF Everywhere, Objects
<1>3. /\ ledger' \subseteq Files /\ reverted' \subseteq Files
      /\ pending' \in [Runners -> SUBSET Files]
      /\ HolderIsAlone' /\ PendingIsTrue' /\ LedgerIsComplete'
      /\ LedgerIsAPrefix' /\ LedgerTellsTheSchema'
  BY <1>1, <1>2, RecordedIsSafe
<1>4. TypeOK'
  <2>1. done' = [done EXCEPT ![r] = 0] /\ UNCHANGED <<schema, lock, phase, command, runs>>
    BY <1>1
  <2>2. ledger' \subseteq Files /\ reverted' \subseteq Files /\ pending' \in [Runners -> SUBSET Files]
    BY <1>3
  <2>3. done' \in [Runners -> 0..4]
    BY <2>1 DEF IInv, TypeOK
  <2>4. schema' = schema /\ lock' = lock /\ phase' = phase /\ command' = command /\ runs' = runs
    BY <2>1
  <2> QED
    BY <2>2, <2>3, <2>4 DEF IInv, TypeOK
<1>5. StatementsAreDone'
  <2> SUFFICES ASSUME NEW q \in Runners, NEW g \in Files, IsNext(q, g)' PROVE done'[q] = 0
    BY DEF StatementsAreDone
  <2>1. q = r
    BY <1>1 DEF IsNext, IInv, HolderIsAlone, Holding
  <2> QED
    BY <1>1, <2>1 DEF IInv, TypeOK
<1> QED
  BY <1>3, <1>4, <1>5 DEF IInv

LEMMA StatementIInv ==
  ASSUME IInv, NEW r \in Runners, NEW f \in Files, Statement(r, f)
  PROVE  IInv'
<1> DEFINE s == Script(command[r])[done[r] + 1]
           v == After(s, schema[f][s[2]])
<1>1. /\ f \in Concurrent /\ IsNext(r, f) /\ done[r] < Len(Script(command[r]))
      /\ schema' = [schema EXCEPT ![f][s[2]] = v]
      /\ reverted' = IF command[r] = "down" THEN reverted \cup {f} ELSE reverted
      /\ done' = [done EXCEPT ![r] = @ + 1]
      /\ UNCHANGED <<ledger, lock, phase, command, pending, runs>>
  BY DEF Statement, Touch, IInv, TypeOK
<1>2. command[r] \in {"up", "down"} /\ done[r] \in 0..4
  BY DEF IInv, TypeOK
<1>3. s[2] \in Objects
  BY <1>1, <1>2, AfterType
<1>4. schema[f][s[2]] \in {"none", "invalid", "valid"}
  BY <1>3 DEF IInv, TypeOK
<1>5. v \in {"none", "invalid", "valid"}
  BY <1>1, <1>2, <1>4, AfterType
<1>6. /\ schema' \in [Files -> [Objects -> {"none", "invalid", "valid"}]]
      /\ reverted' \subseteq Files /\ LedgerTellsTheSchema'
  <2> HIDE DEF s, v
  <2> QED
    BY <1>1, <1>3, <1>5, TouchIsSafe
<1>7. /\ phase[r] = "running" /\ \A q \in Runners : q # r => phase[q] \notin Holding
      /\ \A g \in Files : IsNext(r, g)' => g = f
  <2>1. phase[r] = "running" /\ \A q \in Runners : q # r => phase[q] \notin Holding
    BY <1>1 DEF IsNext, IInv, HolderIsAlone, Holding
  <2>2. ASSUME NEW g \in Files, IsNext(r, g)' PROVE g = f
    <3>1. IsNext(r, g)
      BY <1>1, <2>2 DEF IsNext
    <3> QED
      BY <1>1, <1>2, <3>1, FilesAreNumbered DEF IsNext, Files
  <2> QED
    BY <2>1, <2>2
<1>8. done[r] < 4 /\ (command[r] = "down" => done[r] < 2)
  <2>1. /\ command[r] = "up" => done[r] < 4
        /\ command[r] = "down" => done[r] < 2
    BY <1>1, ScriptUp, ScriptDown, Zenon
  <2> QED
    BY <1>2, <2>1
<1>9. TypeOK'
  <2>1. done' \in [Runners -> 0..4]
    <3>1. done \in [Runners -> 0..4] /\ done[r] + 1 \in 0..4
      BY <1>2, <1>8 DEF IInv, TypeOK
    <3>2. done' = [done EXCEPT ![r] = done[r] + 1]
      BY <1>1
    <3> QED
      BY <3>1, <3>2
  <2>2. UNCHANGED <<ledger, lock, phase, command, pending, runs>>
    BY <1>1
  <2> QED
    BY <1>6, <2>1, <2>2 DEF IInv, TypeOK
<1>10. HolderIsAlone' /\ LedgerIsAPrefix'
  BY <1>1 DEF IInv, HolderIsAlone, LedgerIsAPrefix
<1>11. PendingIsTrue'
  BY <1>1 DEF IInv, PendingIsTrue
<1>12. LedgerIsComplete'
  BY <1>1 DEF IInv, LedgerIsComplete
<1>13. StatementsAreDone'
  <2>1. SUFFICES ASSUME command[r] = "up"
        PROVE  /\ done'[r] = 1 => schema'[f]["ready"] = "none"
               /\ done'[r] >= 2 => schema'[f]["ready"] = "valid"
               /\ done'[r] = 3 => schema'[f]["scheduled"] = "none"
               /\ done'[r] = 4 => schema'[f]["scheduled"] = "valid"
    BY <1>1, <1>7 DEF StatementsAreDone, IsNext, Holding
  <2>2. done'[r] = done[r] + 1
    BY <1>1 DEF IInv, TypeOK
  <2>3. /\ done[r] = 1 => schema[f]["ready"] = "none"
        /\ done[r] >= 2 => schema[f]["ready"] = "valid"
        /\ done[r] = 3 => schema[f]["scheduled"] = "none"
    BY <1>1, <2>1 DEF IInv, StatementsAreDone
  <2>4. schema'[f] = [schema[f] EXCEPT ![s[2]] = v] /\ schema[f] \in [Objects -> {"none", "invalid", "valid"}]
    BY <1>1 DEF IInv, TypeOK
  <2>5. CASE done[r] = 0
    <3>1. s = <<"drop", "ready">> /\ v = "none"
      BY <2>1, <2>5, ScriptUp DEF After
    <3> QED
      BY <2>2, <2>4, <2>5, <3>1 DEF Objects
  <2>6. CASE done[r] = 1
    <3>1. s = <<"create", "ready">> /\ v = "valid"
      BY <2>1, <2>3, <2>6, ScriptUp DEF After
    <3> QED
      BY <2>2, <2>4, <2>6, <3>1 DEF Objects
  <2>7. CASE done[r] = 2
    <3>1. s = <<"drop", "scheduled">> /\ v = "none"
      BY <2>1, <2>7, ScriptUp DEF After
    <3> QED
      BY <2>2, <2>3, <2>4, <2>7, <3>1 DEF Objects
  <2>8. CASE done[r] = 3
    <3>1. s = <<"create", "scheduled">> /\ v = "valid"
      BY <2>1, <2>3, <2>8, ScriptUp DEF After
    <3> QED
      BY <2>2, <2>3, <2>4, <2>8, <3>1 DEF Objects
  <2> QED
    BY <1>2, <1>8, <2>5, <2>6, <2>7, <2>8
<1> QED
  BY <1>6, <1>9, <1>10, <1>11, <1>12, <1>13 DEF IInv

LEMMA StutterIInv ==
  ASSUME IInv, UNCHANGED vars
  PROVE  IInv'
<1>1. TypeOK' /\ HolderIsAlone' /\ PendingIsTrue'
  BY DEF IInv, vars, TypeOK, HolderIsAlone, PendingIsTrue
<1>2. StatementsAreDone' /\ LedgerIsComplete'
  BY DEF IInv, vars, StatementsAreDone, IsNext, LedgerIsComplete
<1>3. LedgerIsAPrefix' /\ LedgerTellsTheSchema'
  BY DEF IInv, vars, LedgerIsAPrefix, LedgerTellsTheSchema, Whole, Everywhere
<1> QED
  BY <1>1, <1>2, <1>3 DEF IInv

LEMMA NextIInv == IInv /\ [Next]_vars => IInv'
<1> SUFFICES ASSUME IInv, Next PROVE IInv'
  BY StutterIInv
<1> PICK r \in Runners : Launch(r) \/ TryLock(r) \/ Work(r) \/ Fail(r) \/ Die(r)
  BY DEF Next
<1>1. CASE Work(r)
  <2>1. CASE \E f \in Files : Migrate(r, f) \/ Statement(r, f) \/ Record(r, f)
    BY <2>1, MigrateIInv, StatementIInv, RecordIInv
  <2> QED
    BY <1>1, <2>1, ReadIInv, FinishIInv, UnlockIInv DEF Work
<1> QED
  BY <1>1, LaunchIInv, TryLockIInv, EndIInv

\* Under the advisory lock the ledger, the schema and what a run has still to do
\* belong together (migrate.py: run_migrations, rollback_migrations).
THEOREM Invariance == Spec => []IInv
BY InitIInv, NextIInv, PTL DEF Spec
-----------------------------------------------------------------------------
\* The runner's variables stay in their ranges.
THEOREM MigrationTypes == Spec => []TypeOK
<1>1. IInv => TypeOK
  BY DEF IInv
<1> QED
  BY <1>1, Invariance, PTL

\* Any runs of any processes, broken off wherever, leave a ledger in order.
THEOREM LedgersAreInOrder == Spec => []LedgerIsAPrefix
<1>1. IInv => LedgerIsAPrefix
  BY DEF IInv
<1> QED
  BY <1>1, Invariance, PTL

\* And a ledger that is true to the schema.
THEOREM LedgersAreTrue == Spec => []LedgerTellsTheSchema
<1>1. IInv => LedgerTellsTheSchema
  BY DEF IInv
<1> QED
  BY <1>1, Invariance, PTL

\* An "up" that ended well found or made the schema whole.
LEMMA WholeSchema == IInv => ServesOnWholeSchema
<1> SUFFICES ASSUME IInv, NEW r \in Runners, phase[r] = "up", NEW f \in Files \ reverted PROVE Whole(f)
  BY DEF ServesOnWholeSchema
<1>1. f \in ledger
  BY DEF IInv, LedgerIsComplete
<1> QED
  BY <1>1 DEF IInv, LedgerTellsTheSchema, Whole

\* Whoever migrated up serves on a whole schema, but for what was reverted since
\* (api/Dockerfile: migrate && uvicorn).
THEOREM ServersFindTheSchema == Spec => []ServesOnWholeSchema
BY WholeSchema, Invariance, PTL
=============================================================================
