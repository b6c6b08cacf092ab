------------------------ MODULE JobSubmissionProofs ------------------------
(***************************************************************************)
(* Proofs about JobSubmission for any requests, companies, keys and jobs.  *)
(*                                                                         *)
(* Everything rests on who holds a company's row: the holder is the one    *)
(* request between LockCompany and the end of its transaction, so what it  *)
(* read of its key and counted of its company is still so when it commits. *)
(***************************************************************************)
EXTENDS JobSubmission, FiniteSetTheorems, TLAPS

\* A request has a payload from its arrival on, and an answer only after it.
PayloadsAreKept ==
  \A r \in Requests : /\ pc[r] = "idle" <=> asked[r] = None
                      /\ asked[r] = None => code[r] = 0

\* The holder of a company's row is the request inside its transaction there.
LocksAreHeld ==
  /\ \A r \in Requests : pc[r] \in HoldsLock =>
       asked[r].company \in Known /\ lockedBy[asked[r].company] = r
  /\ \A r \in Requests, c \in Companies : lockedBy[c] = r =>
       pc[r] \in HoldsLock /\ asked[r].company = c

\* What the holder found of its key is still so.
KeysAreFree ==
  \A r \in Requests : pc[r] \in {"counting", "inserting", "committing"} => ~Found(r)

\* Rows are committed once, with one key each.
RowsAreKeyed ==
  /\ \A ck \in KeysOf : jobOf[ck] # None => state[jobOf[ck]] # "absent"
  /\ \A ck, dk \in KeysOf : jobOf[ck] # None /\ jobOf[ck] = jobOf[dk] => ck = dk

\* A draft is nobody else's id, and once committed it is the job of its key.
DraftsAreFresh ==
  /\ \A r \in Requests : draft[r] # None <=> pc[r] \in {"committing", "replying"}
  /\ \A r \in Requests : pc[r] = "committing" =>
       /\ state[draft[r]] = "absent"
       /\ \A s \in Requests \ {r} : draft[s] # draft[r]
  /\ \A r \in Requests : pc[r] = "replying" =>
       jobOf[KeyOf(r)] = draft[r] /\ kindOf[draft[r]] = asked[r].kind

IInv ==
  /\ TypeOK
  /\ PayloadsAreKept
  /\ LocksAreHeld
  /\ KeysAreFree
  /\ RowsAreKeyed
  /\ DraftsAreFresh
-----------------------------------------------------------------------------
LEMMA InitIInv == Init => IInv
<1> SUFFICES ASSUME Init PROVE IInv
  OBVIOUS
<1>1. TypeOK
  BY DEF Init, TypeOK
<1>2. PayloadsAreKept /\ LocksAreHeld
  BY NoneIsNobody DEF Init, PayloadsAreKept, LocksAreHeld, HoldsLock
<1>3. KeysAreFree /\ RowsAreKeyed /\ DraftsAreFresh
  BY DEF Init, KeysAreFree, RowsAreKeyed, DraftsAreFresh
<1> QED
  BY <1>1, <1>2, <1>3 DEF IInv

LEMMA PayloadType ==
  ASSUME IInv, NEW r \in Requests, pc[r] # "idle"
  PROVE  /\ asked[r] \in Payloads /\ asked[r] # None
         /\ asked[r].company \in Companies /\ asked[r].kind \in Kinds
         /\ KeyOf(r) \in KeysOf
BY DEF IInv, TypeOK, PayloadsAreKept, Payloads, KeyOf, KeysOf

\* The transaction of a request ends and its client, if still there, is told.
LEMMA AnswerIInv ==
  ASSUME IInv, NEW r \in Requests, pc[r] \in Steps,
         NEW n \in {201, 401, 409, 429, 500}, NEW j \in Jobs \cup {None},
         Answer(r, n, j), UNCHANGED rows, UNCHANGED asked
  PROVE  IInv'
<1> USE DEF IInv
<1>0. pc[r] # "idle" /\ "answered" \notin HoldsLock
  BY DEF Steps, HoldsLock
<1>1. TypeOK'
  BY DEF TypeOK, Answer, Goto, Unlock, rows
<1>2. PayloadsAreKept'
  BY <1>0 DEF PayloadsAreKept, Answer, Goto, TypeOK
<1>3. LocksAreHeld'
  BY <1>0, PayloadType, NoneIsNobody DEF LocksAreHeld, Answer, Goto, Unlock, TypeOK, Payloads, HoldsLock
<1>4. KeysAreFree' /\ RowsAreKeyed'
  BY DEF KeysAreFree, RowsAreKeyed, Answer, Goto, TypeOK, rows, Found, KeyOf
<1>5. DraftsAreFresh'
  BY NoneIsNobody DEF DraftsAreFresh, Answer, Goto, TypeOK, rows, KeyOf
<1> QED
  BY <1>1, <1>2, <1>3, <1>4, <1>5

LEMMA ReplayIInv ==
  ASSUME IInv, NEW r \in Requests, pc[r] \in Steps,
         Replay(r), UNCHANGED rows, UNCHANGED asked
  PROVE  IInv'
<1>1. jobOf[KeyOf(r)] \in Jobs \cup {None}
  BY PayloadType DEF IInv, TypeOK, Steps, HoldsLock
<1> QED
  BY <1>1, AnswerIInv DEF Replay

\* A request goes from one statement to the next.
LEMMA AdvanceIInv ==
  ASSUME IInv, NEW r \in Requests,
         NEW step \in {"locking", "counting", "inserting"}, Goto(r, step),
         \/ pc[r] = "lookup" /\ step = "locking"
         \/ pc[r] = "recheck" /\ step = "counting" /\ ~Found(r)
         \/ pc[r] = "counting" /\ step = "inserting",
         UNCHANGED rows, UNCHANGED <<asked, lockedBy, draft, code, told>>
  PROVE  IInv'
<1> USE DEF IInv
<1>1. TypeOK'
  BY DEF TypeOK, Goto, rows, Steps, HoldsLock
<1>2. PayloadsAreKept' /\ LocksAreHeld'
  BY DEF PayloadsAreKept, LocksAreHeld, Goto, TypeOK, HoldsLock
<1>3. KeysAreFree' /\ RowsAreKeyed'
  BY DEF KeysAreFree, RowsAreKeyed, Goto, TypeOK, rows, Found, KeyOf
<1>4. DraftsAreFresh'
  BY DEF DraftsAreFresh, Goto, TypeOK, rows, KeyOf
<1> QED
  BY <1>1, <1>2, <1>3, <1>4

LEMMA ArriveIInv ==
  ASSUME IInv, NEW r \in Requests, Arrive(r)
  PROVE  IInv'
<1> USE DEF IInv
<1>1. PICK a \in Payloads : asked' = [asked EXCEPT ![r] = a]
  BY DEF Arrive
<1>2. a # None /\ pc[r] = "idle" /\ pc' = [pc EXCEPT ![r] = "lookup"]
  BY NoneIsNobody DEF Arrive, Goto, Payloads
<1>3. TypeOK'
  BY <1>1, <1>2 DEF TypeOK, Arrive, rows, Steps
<1>4. PayloadsAreKept' /\ LocksAreHeld'
  BY <1>1, <1>2 DEF PayloadsAreKept, LocksAreHeld, Arrive, TypeOK, HoldsLock
<1>5. KeysAreFree' /\ RowsAreKeyed'
  BY <1>1, <1>2 DEF KeysAreFree, RowsAreKeyed, Arrive, TypeOK, rows, Found, KeyOf
<1>6. DraftsAreFresh'
  BY <1>1, <1>2 DEF DraftsAreFresh, Arrive, TypeOK, rows, KeyOf
<1> QED
  BY <1>3, <1>4, <1>5, <1>6

LEMMA LockIInv ==
  ASSUME IInv, NEW r \in Requests, LockCompany(r)
  PROVE  IInv'
<1> USE DEF IInv
<1>0. pc[r] = "locking" /\ pc[r] \in Steps /\ asked[r].company \in Companies
      /\ lockedBy[asked[r].company] = None
  BY PayloadType DEF LockCompany, Steps
<1>1. CASE asked[r].company \notin Known
  BY <1>0, <1>1, AnswerIInv DEF LockCompany
<1>2. CASE asked[r].company \in Known
  <2>1. /\ lockedBy' = [lockedBy EXCEPT ![asked[r].company] = r]
        /\ pc' = [pc EXCEPT ![r] = "recheck"]
        /\ UNCHANGED <<draft, code, told, asked>> /\ UNCHANGED rows
    BY <1>2 DEF LockCompany, Goto
  <2>2. TypeOK'
    BY <1>0, <2>1 DEF TypeOK, rows, Steps, HoldsLock
  <2>3. PayloadsAreKept'
    BY <1>0, <2>1 DEF PayloadsAreKept, TypeOK
  <2>4. LocksAreHeld'
    BY <1>0, <1>2, <2>1, NoneIsNobody DEF LocksAreHeld, TypeOK, HoldsLock
  <2>5. KeysAreFree' /\ RowsAreKeyed'
    BY <1>0, <2>1 DEF KeysAreFree, RowsAreKeyed, TypeOK, rows, Found, KeyOf
  <2>6. DraftsAreFresh'
    BY <1>0, <2>1 DEF DraftsAreFresh, TypeOK, rows, KeyOf
  <2> QED
    BY <2>2, <2>3, <2>4, <2>5, <2>6
<1> QED
  BY <1>1, <1>2

LEMMA InsertIInv ==
  ASSUME IInv, NEW r \in Requests, Insert(r)
  PROVE  IInv'
<1> USE DEF IInv
<1>0. pc[r] = "inserting" /\ pc[r] \in Steps /\ ~Found(r)
  BY DEF Insert, Steps, HoldsLock, KeysAreFree
<1>1. PICK j \in Jobs : /\ state[j] = "absent" /\ \A s \in Requests : draft[s] # j
                        /\ draft' = [draft EXCEPT ![r] = j]
  BY <1>0 DEF Insert
<1>2. /\ pc' = [pc EXCEPT ![r] = "committing"] /\ j # None
      /\ UNCHANGED <<lockedBy, code, told, asked>> /\ UNCHANGED rows
  BY <1>0, NoneIsNobody DEF Insert, Goto
<1>3. TypeOK'
  BY <1>1, <1>2 DEF TypeOK, rows, Steps, HoldsLock
<1>4. PayloadsAreKept' /\ LocksAreHeld'
  BY <1>0, <1>2 DEF PayloadsAreKept, LocksAreHeld, TypeOK, HoldsLock
<1>5. KeysAreFree' /\ RowsAreKeyed'
  BY <1>0, <1>2 DEF KeysAreFree, RowsAreKeyed, TypeOK, rows, Found, KeyOf
<1>6. DraftsAreFresh'
  BY <1>0, <1>1, <1>2 DEF DraftsAreFresh, TypeOK, rows, KeyOf
<1> QED
  BY <1>3, <1>4, <1>5, <1>6

\* Two requests inside a transaction have different companies, hence keys.
LEMMA HoldersDiffer ==
  ASSUME IInv, NEW r \in Requests, NEW s \in Requests, r # s,
         pc[r] \in HoldsLock, pc[s] \in HoldsLock
  PROVE  asked[r].company # asked[s].company /\ KeyOf(r) # KeyOf(s)
BY DEF IInv, LocksAreHeld, KeyOf

LEMMA CommitIInv ==
  ASSUME IInv, NEW r \in Requests, Commit(r)
  PROVE  IInv'
<1> USE DEF IInv
<1>0. /\ pc[r] = "committing" /\ pc[r] \in HoldsLock /\ pc[r] # "idle"
      /\ draft[r] \in Jobs /\ draft[r] # None /\ state[draft[r]] = "absent"
      /\ jobOf[KeyOf(r)] = None
  BY DEF Commit, HoldsLock, DraftsAreFresh, KeysAreFree, Found, TypeOK
<1>1. KeyOf(r) \in KeysOf /\ asked[r].company \in Companies /\ asked[r].kind \in Kinds
  BY <1>0, PayloadType
<1>2. /\ jobOf' = [jobOf EXCEPT ![KeyOf(r)] = draft[r]]
      /\ kindOf' = [kindOf EXCEPT ![draft[r]] = asked[r].kind]
      /\ state' = [state EXCEPT ![draft[r]] = "active"]
      /\ pc' = [pc EXCEPT ![r] = "replying"]
      /\ lockedBy' = [c \in Companies |-> IF lockedBy[c] = r THEN None ELSE lockedBy[c]]
      /\ UNCHANGED <<retried, asked, draft, code, told>>
  BY DEF Commit, Goto, Unlock
<1>3. TypeOK'
  BY <1>0, <1>1, <1>2 DEF TypeOK, Steps
<1>4. PayloadsAreKept'
  BY <1>0, <1>2 DEF PayloadsAreKept, TypeOK
<1>5. LocksAreHeld'
  BY <1>0, <1>1, <1>2, NoneIsNobody, PayloadType DEF LocksAreHeld, TypeOK, HoldsLock
<1>6. KeysAreFree'
  <2>1. SUFFICES ASSUME NEW s \in Requests, pc'[s] \in {"counting", "inserting", "committing"}
                 PROVE  jobOf'[KeyOf(s)] = None
    BY <1>2 DEF KeysAreFree, Found, KeyOf
  <2>2. s # r /\ pc[s] = pc'[s] /\ pc[s] \in HoldsLock /\ pc[s] # "idle"
    BY <1>2, <2>1 DEF TypeOK, HoldsLock
  <2>3. KeyOf(s) # KeyOf(r) /\ KeyOf(s) \in KeysOf
    BY <1>0, <2>2, HoldersDiffer, PayloadType
  <2>4. jobOf[KeyOf(s)] = None
    BY <2>1, <2>2 DEF KeysAreFree, Found
  <2> QED
    BY <1>1, <1>2, <2>3, <2>4 DEF TypeOK
<1>7. RowsAreKeyed'
  BY <1>0, <1>1, <1>2 DEF RowsAreKeyed, TypeOK
<1>8. DraftsAreFresh'
  <2>1. \A s \in Requests : KeyOf(s)' = KeyOf(s)
    BY <1>2 DEF KeyOf
  <2>2. \A s \in Requests : draft'[s] # None <=> pc'[s] \in {"committing", "replying"}
    BY <1>0, <1>2 DEF DraftsAreFresh, TypeOK
  <2>3. \A s \in Requests : pc'[s] = "committing" =>
          state'[draft'[s]] = "absent" /\ \A t \in Requests \ {s} : draft'[t] # draft'[s]
    BY <1>0, <1>2 DEF DraftsAreFresh, TypeOK
  <2>4. ASSUME NEW s \in Requests, pc'[s] = "replying"
        PROVE  jobOf'[KeyOf(s)] = draft'[s] /\ kindOf'[draft'[s]] = asked'[s].kind
    <3>1. CASE s = r
      BY <1>0, <1>1, <1>2, <3>1 DEF TypeOK
    <3>2. CASE s # r
      <4>1. pc[s] = "replying" /\ KeyOf(s) \in KeysOf
        BY <1>2, <2>4, <3>2, PayloadType DEF TypeOK
      <4>2. jobOf[KeyOf(s)] = draft[s] /\ kindOf[draft[s]] = asked[s].kind
            /\ draft[s] # None /\ draft[s] \in Jobs /\ draft[s] # draft[r]
        BY <1>0, <3>2, <4>1 DEF DraftsAreFresh, TypeOK
      <4>3. KeyOf(s) # KeyOf(r)
        BY <1>0, <4>2
      <4> QED
        BY <1>1, <1>2, <4>1, <4>2, <4>3 DEF TypeOK
    <3> QED
      BY <3>1, <3>2
  <2> QED
    BY <2>1, <2>2, <2>3, <2>4 DEF DraftsAreFresh
<1> QED
  BY <1>3, <1>4, <1>5, <1>6, <1>7, <1>8

LEMMA RequestIInv ==
  ASSUME IInv, NEW r \in Requests, Arrive(r) \/ CreateStep(r) \/ Disconnect(r) \/ Break(r)
  PROVE  IInv'
<1>1. CASE Arrive(r)
  BY <1>1, ArriveIInv
<1>2. CASE Lookup(r)
  BY <1>2, ReplayIInv, AdvanceIInv DEF Lookup, Steps
<1>3. CASE LockCompany(r)
  BY <1>3, LockIInv
<1>4. CASE Recheck(r)
  BY <1>4, ReplayIInv, AdvanceIInv DEF Recheck, Steps, HoldsLock
<1>5. CASE CountActive(r)
  <2>1. CASE Cardinality(Active(asked[r].company)) >= MaxConcurrentJobs
    BY <1>5, <2>1, AnswerIInv DEF CountActive, Steps, HoldsLock
  <2>2. CASE ~(Cardinality(Active(asked[r].company)) >= MaxConcurrentJobs)
    BY <1>5, <2>2, AdvanceIInv DEF CountActive
  <2> QED
    BY <2>1, <2>2
<1>6. CASE Insert(r)
  BY <1>6, InsertIInv
<1>7. CASE Commit(r)
  BY <1>7, CommitIInv
<1>8. CASE Reply(r)
  <2>1. draft[r] \in Jobs \cup {None}
    BY DEF IInv, TypeOK
  <2> QED
    BY <1>8, <2>1, AnswerIInv DEF Reply, Steps
<1>9. CASE Break(r)
  BY <1>9, AnswerIInv DEF Break
<1>10. CASE Disconnect(r)
  <2> USE DEF IInv
  <2>1. TypeOK'
    BY <1>10 DEF Disconnect, TypeOK, rows
  <2>2. pc[r] # "idle"
    BY <1>10 DEF Disconnect, Steps, HoldsLock
  <2>3. PayloadsAreKept' /\ LocksAreHeld'
    BY <1>10, <2>2 DEF Disconnect, PayloadsAreKept, LocksAreHeld, TypeOK
  <2>4. KeysAreFree' /\ RowsAreKeyed' /\ DraftsAreFresh'
    BY <1>10 DEF Disconnect, KeysAreFree, RowsAreKeyed, DraftsAreFresh, rows, Found, KeyOf
  <2> QED
    BY <2>1, <2>3, <2>4
<1> QED
  BY <1>1, <1>2, <1>3, <1>4, <1>5, <1>6, <1>7, <1>8, <1>9, <1>10 DEF CreateStep

LEMMA NextIInv == IInv /\ [Next]_vars => IInv'
<1> SUFFICES ASSUME IInv, [Next]_vars PROVE IInv'
  OBVIOUS
<1>1. ASSUME NEW r \in Requests, Arrive(r) \/ CreateStep(r) \/ Disconnect(r) \/ Break(r)
      PROVE  IInv'
  BY <1>1, RequestIInv
<1>2. ASSUME NEW j \in Jobs, End(j) \/ Retry(j) PROVE IInv'
  <2> USE DEF IInv
  <2>1. TypeOK'
    BY <1>2 DEF End, Retry, TypeOK
  <2>2. PayloadsAreKept' /\ LocksAreHeld' /\ KeysAreFree'
    BY <1>2 DEF End, Retry, PayloadsAreKept, LocksAreHeld, KeysAreFree, Found, KeyOf
  <2>3. \A i \in Jobs : state'[i] = "absent" <=> state[i] = "absent"
    BY <1>2 DEF End, Retry, TypeOK
  <2>4. RowsAreKeyed'
    BY <1>2, <2>3 DEF End, Retry, RowsAreKeyed, TypeOK
  <2>5. DraftsAreFresh'
    BY <1>2, <2>3 DEF End, Retry, DraftsAreFresh, TypeOK, KeyOf
  <2> QED
    BY <2>1, <2>2, <2>4, <2>5
<1>3. CASE UNCHANGED vars
  BY <1>3 DEF vars, IInv, TypeOK, PayloadsAreKept, LocksAreHeld, KeysAreFree, RowsAreKeyed,
       DraftsAreFresh, Found, KeyOf
<1> QED
  BY <1>1, <1>2, <1>3 DEF Next

LEMMA AlwaysIInv == Spec => []IInv
BY InitIInv, NextIInv, PTL DEF Spec

\* Every variable keeps its type.
THEOREM SubmissionTypes == Spec => []TypeOK
BY AlwaysIInv, PTL DEF IInv

LEMMA FreeKeys == IInv => InsertFindsItsKeyFree
<1> SUFFICES ASSUME IInv, NEW r \in Requests, pc[r] \in {"inserting", "committing"}
             PROVE  /\ ~Found(r)
                    /\ \A s \in Requests \ {r} :
                         draft[s] # None /\ KeyOf(s) = KeyOf(r) => pc[s] = "replying"
  BY DEF InsertFindsItsKeyFree
<1>1. ~Found(r) /\ pc[r] \in HoldsLock
  BY DEF IInv, KeysAreFree, HoldsLock
<1>2. \A s \in Requests \ {r} : draft[s] # None /\ pc[s] # "replying" => pc[s] \in HoldsLock
  BY DEF IInv, DraftsAreFresh, HoldsLock
<1> QED
  BY <1>1, <1>2, HoldersDiffer

\* The insert of a key meets no other one: its ON CONFLICT branch is dead
\* (service.py: create_job, the lock on the company).
THEOREM InsertsMeetNoConflict == Spec => []InsertFindsItsKeyFree
BY AlwaysIInv, FreeKeys, PTL
-----------------------------------------------------------------------------
(* The limit.                                                              *)

\* The jobs the limit counts, of each company.
Counted == [c \in Companies |-> Active(c) \ retried]

CountsAreLow ==
  \A c \in Companies : Cardinality(Counted[c]) <= MaxConcurrentJobs

\* From the count to the commit there is room for the holder's job.
RoomIsKept ==
  \A r \in Requests :
    pc[r] \in {"inserting", "committing"} =>
      Cardinality(Counted[asked[r].company]) < MaxConcurrentJobs

Limit == CountsAreLow /\ RoomIsKept

CountsAreFinite ==
  \A c \in Companies : IsFiniteSet(Counted[c]) /\ Cardinality(Counted[c]) \in Nat

LEMMA JobsOfAreJobs ==
  ASSUME TypeOK, NEW c \in Companies
  PROVE  Active(c) \subseteq Jobs
<1>1. \A k \in Keys : <<c, k>> \in KeysOf
  BY DEF KeysOf
<1>2. \A k \in Keys : jobOf[<<c, k>>] \in Jobs \cup {None}
  BY <1>1 DEF TypeOK
<1>3. ASSUME NEW j \in Active(c) PROVE j \in Jobs
  <2>1. j \in JobsOf(c)
    BY <1>3 DEF Active
  <2>2. PICK k \in Keys : j = jobOf[<<c, k>>] /\ j # None
    BY <2>1 DEF JobsOf
  <2> QED
    BY <1>2, <2>2
<1> QED
  BY <1>3

LEMMA FiniteCounts == TypeOK => CountsAreFinite
<1> SUFFICES ASSUME TypeOK, NEW c \in Companies
             PROVE  IsFiniteSet(Counted[c]) /\ Cardinality(Counted[c]) \in Nat
  BY DEF CountsAreFinite
<1>1. Active(c) \subseteq Jobs
  BY JobsOfAreJobs
<1>2. Counted[c] \subseteq Jobs
  BY <1>1 DEF Counted
<1> QED
  BY <1>2, JobsAreFinite, FS_Subset, FS_CardinalityType

LEMMA CountedIsActive ==
  ASSUME TypeOK, NEW c \in Companies, Cardinality(Active(c)) < MaxConcurrentJobs
  PROVE  Cardinality(Counted[c]) < MaxConcurrentJobs
<1>2. Active(c) \subseteq Jobs /\ Counted[c] \subseteq Active(c)
  BY JobsOfAreJobs DEF Counted
<1>3. IsFiniteSet(Active(c))
  BY <1>2, JobsAreFinite, FS_Subset
<1>4. /\ Cardinality(Counted[c]) <= Cardinality(Active(c))
      /\ Cardinality(Counted[c]) \in Nat /\ Cardinality(Active(c)) \in Nat
  BY <1>2, <1>3, FS_Subset, FS_CardinalityType
<1> QED
  BY <1>4, LimitIsPositive

LEMMA InitLimit == Init => Limit
<1> SUFFICES ASSUME Init PROVE Limit
  OBVIOUS
<1>1. \A c \in Companies : \A k \in Keys : <<c, k>> \in KeysOf
  BY DEF KeysOf
<1>2. \A c \in Companies : Counted[c] = {}
  BY <1>1 DEF Init, Counted, Active, JobsOf
<1>3. Cardinality({}) = 0
  BY FS_EmptySet
<1>4. CountsAreLow
  BY <1>2, <1>3, LimitIsPositive DEF CountsAreLow
<1>5. RoomIsKept
  BY DEF Init, RoomIsKept
<1> QED
  BY <1>4, <1>5 DEF Limit

\* A step that counts no new job keeps the limit, and the room of those who
\* had it.
LEMMA FewerCounted ==
  ASSUME IInv, IInv', Limit,
         \A c \in Companies : Counted'[c] \subseteq Counted[c],
         \A r \in Requests : pc'[r] \in {"inserting", "committing"} =>
           /\ asked'[r] = asked[r]
           /\ Cardinality(Counted[asked[r].company]) < MaxConcurrentJobs
  PROVE  Limit'
<1>1. CountsAreFinite
  BY FiniteCounts DEF IInv
<1>2. CountsAreFinite'
  BY FiniteCounts, PTL DEF IInv
<1>3. \A c \in Companies :
        /\ Cardinality(Counted'[c]) \in Nat /\ Cardinality(Counted[c]) \in Nat
        /\ Cardinality(Counted'[c]) <= Cardinality(Counted[c])
  BY <1>1, <1>2, FS_Subset DEF CountsAreFinite
<1>4. CountsAreLow'
  BY <1>3, LimitIsPositive DEF Limit, CountsAreLow
<1>5. ASSUME NEW r \in Requests, pc'[r] \in {"inserting", "committing"}
      PROVE  Cardinality(Counted'[asked'[r].company]) < MaxConcurrentJobs
  <2>1. asked'[r] = asked[r] /\ asked'[r].company \in Companies
    BY <1>5 DEF IInv, TypeOK, PayloadsAreKept, Payloads
  <2> QED
    BY <1>3, <1>5, <2>1, LimitIsPositive
<1> QED
  BY <1>4, <1>5 DEF Limit, RoomIsKept

LEMMA CommitLimit ==
  ASSUME IInv, IInv', Limit, NEW r \in Requests, Commit(r)
  PROVE  Limit'
<1> USE DEF IInv
<1> DEFINE own == asked[r].company
<1>0. /\ pc[r] = "committing" /\ pc[r] \in HoldsLock /\ pc[r] # "idle"
      /\ draft[r] \in Jobs /\ draft[r] # None /\ state[draft[r]] = "absent"
      /\ jobOf' = [jobOf EXCEPT ![KeyOf(r)] = draft[r]]
      /\ state' = [state EXCEPT ![draft[r]] = "active"]
      /\ pc' = [pc EXCEPT ![r] = "replying"]
      /\ UNCHANGED <<retried, asked>>
  BY DEF Commit, Goto, HoldsLock, DraftsAreFresh, TypeOK
<1>1. KeyOf(r) \in KeysOf /\ own \in Companies /\ KeyOf(r)[1] = own
  BY <1>0, PayloadType DEF KeyOf
<1>2. ASSUME NEW c \in Companies, NEW j \in Counted'[c]
      PROVE  j \in Counted[c] \/ (c = own /\ j = draft[r])
  <2>2. PICK k \in Keys : j = jobOf'[<<c, k>>] /\ j # None /\ state'[j] = "active" /\ j \notin retried
    BY <1>0, <1>2 DEF Counted, Active, JobsOf
  <2>3. <<c, k>> \in KeysOf
    BY <2>2 DEF KeysOf
  <2>4. CASE <<c, k>> = KeyOf(r)
    BY <1>0, <1>1, <2>2, <2>3, <2>4 DEF TypeOK, KeyOf
  <2>5. CASE <<c, k>> # KeyOf(r)
    <3>1. j = jobOf[<<c, k>>] /\ j \in Jobs /\ state[j] # "absent"
      BY <1>0, <1>1, <2>2, <2>3, <2>5 DEF TypeOK, RowsAreKeyed
    <3>2. state[j] = "active"
      BY <1>0, <2>2, <3>1 DEF TypeOK
    <3> QED
      BY <2>2, <3>1, <3>2 DEF Counted, Active, JobsOf
  <2> QED
    BY <2>4, <2>5
<1>3. CountsAreFinite /\ CountsAreFinite'
  BY FiniteCounts, PTL DEF IInv
<1>4. \A c \in Companies : Cardinality(Counted'[c]) \in Nat /\ Cardinality(Counted[c]) \in Nat
  BY <1>3 DEF CountsAreFinite
<1>5. \A c \in Companies \ {own} : Cardinality(Counted'[c]) <= Cardinality(Counted[c])
  <2>1. \A c \in Companies \ {own} : Counted'[c] \subseteq Counted[c]
    BY <1>2
  <2> QED
    BY <1>3, <2>1, FS_Subset DEF CountsAreFinite
<1>6. Cardinality(Counted'[own]) <= Cardinality(Counted[own]) + 1
  <2>0. IsFiniteSet(Counted[own])
    BY <1>1, <1>3 DEF CountsAreFinite
  <2>1. Counted'[own] \subseteq Counted[own] \cup {draft[r]}
    BY <1>1, <1>2
  <2>2. /\ IsFiniteSet(Counted[own] \cup {draft[r]})
        /\ \/ Cardinality(Counted[own] \cup {draft[r]}) = Cardinality(Counted[own])
           \/ Cardinality(Counted[own] \cup {draft[r]}) = Cardinality(Counted[own]) + 1
    BY <2>0, FS_AddElement
  <2>3. Cardinality(Counted'[own]) <= Cardinality(Counted[own] \cup {draft[r]})
    BY <2>1, <2>2, FS_Subset
  <2> QED
    BY <1>1, <1>4, <2>2, <2>3
<1>7. Cardinality(Counted[own]) < MaxConcurrentJobs
  BY <1>0 DEF Limit, RoomIsKept
<1>8. CountsAreLow'
  <2>1. ASSUME NEW c \in Companies PROVE Cardinality(Counted'[c]) <= MaxConcurrentJobs
    <3>1. Cardinality(Counted[c]) <= MaxConcurrentJobs
      BY DEF Limit, CountsAreLow
    <3> QED
      BY <1>1, <1>4, <1>5, <1>6, <1>7, <3>1, LimitIsPositive
  <2> QED
    BY <2>1 DEF CountsAreLow
<1>9. RoomIsKept'
  <2>1. ASSUME NEW s \in Requests, pc'[s] \in {"inserting", "committing"}
        PROVE  Cardinality(Counted'[asked'[s].company]) < MaxConcurrentJobs
    <3>1. s # r /\ pc[s] = pc'[s] /\ pc[s] \in HoldsLock /\ pc[s] # "idle"
      BY <1>0, <2>1 DEF TypeOK, HoldsLock
    <3>2. asked[s].company \in Companies /\ asked[s].company # own
      BY <1>0, <3>1, HoldersDiffer, PayloadType
    <3>3. Cardinality(Counted[asked[s].company]) < MaxConcurrentJobs
      BY <2>1, <3>1 DEF Limit, RoomIsKept
    <3>4. asked'[s] = asked[s]
      BY <1>0
    <3> QED
      BY <1>4, <1>5, <3>2, <3>3, <3>4, LimitIsPositive
  <2> QED
    BY <2>1 DEF RoomIsKept
<1> QED
  BY <1>8, <1>9 DEF Limit

LEMMA NextLimit == IInv /\ IInv' /\ Limit /\ [Next]_vars => Limit'
<1> SUFFICES ASSUME IInv, IInv', Limit, [Next]_vars PROVE Limit'
  OBVIOUS
<1>1. CASE UNCHANGED rows
  <2>1. Counted' = Counted
    BY <1>1 DEF rows, Counted, Active, JobsOf
  <2>2. ASSUME NEW r \in Requests, pc'[r] \in {"inserting", "committing"}
        PROVE  /\ asked'[r] = asked[r]
               /\ Cardinality(Counted[asked[r].company]) < MaxConcurrentJobs
    <3>1. pc[r] \in {"inserting", "committing"} =>
            Cardinality(Counted[asked[r].company]) < MaxConcurrentJobs
      BY DEF Limit, RoomIsKept
    <3>2. ASSUME NEW s \in Requests, Arrive(s) \/ CreateStep(s) \/ Disconnect(s) \/ Break(s)
          PROVE  /\ asked'[r] = asked[r]
                 /\ Cardinality(Counted[asked[r].company]) < MaxConcurrentJobs
      <4>1. CASE Arrive(s)
        BY <2>2, <3>1, <4>1 DEF Arrive, Goto, IInv, TypeOK
      <4>2. CASE CountActive(s)
        <5>1. CASE Cardinality(Active(asked[s].company)) >= MaxConcurrentJobs
          BY <2>2, <3>1, <4>2, <5>1 DEF CountActive, Answer, Goto, IInv, TypeOK
        <5>2. CASE ~(Cardinality(Active(asked[s].company)) >= MaxConcurrentJobs)
          <6>1. asked[s].company \in Companies /\ pc' = [pc EXCEPT ![s] = "inserting"] /\ asked' = asked
            BY <4>2, <5>2, PayloadType DEF CountActive, Goto, IInv
          <6>2. IsFiniteSet(Active(asked[s].company))
            <7>1. Active(asked[s].company) \subseteq Jobs
              BY <6>1, JobsOfAreJobs DEF IInv
            <7> QED
              BY <7>1, JobsAreFinite, FS_Subset
          <6>3. Cardinality(Active(asked[s].company)) < MaxConcurrentJobs
            BY <5>2, <6>2, FS_CardinalityType, LimitIsPositive
          <6>4. Cardinality(Counted[asked[s].company]) < MaxConcurrentJobs
            BY <6>1, <6>3, CountedIsActive DEF IInv
          <6> QED
            BY <2>2, <3>1, <6>1, <6>4 DEF IInv, TypeOK
        <5> QED
          BY <5>1, <5>2
      <4>3. CASE Lookup(s) \/ LockCompany(s) \/ Recheck(s)
        BY <2>2, <3>1, <4>3 DEF Lookup, LockCompany, Recheck, Replay, Answer, Goto, IInv, TypeOK
      <4>4. CASE Insert(s) \/ Commit(s)
        BY <2>2, <3>1, <4>4 DEF Insert, Commit, Replay, Answer, Goto, IInv, TypeOK
      <4>5. CASE Reply(s) \/ Disconnect(s) \/ Break(s)
        BY <2>2, <3>1, <4>5 DEF Reply, Disconnect, Break, Answer, Goto, IInv, TypeOK
      <4> QED
        BY <3>2, <4>1, <4>2, <4>3, <4>4, <4>5 DEF CreateStep
    <3>3. ASSUME NEW j \in Jobs, End(j) \/ Retry(j)
          PROVE  asked'[r] = asked[r] /\ pc[r] \in {"inserting", "committing"}
      BY <2>2, <3>3 DEF End, Retry
    <3>4. CASE UNCHANGED vars
      BY <2>2, <3>1, <3>4 DEF vars
    <3> QED
      BY <3>1, <3>2, <3>3, <3>4 DEF Next
  <2> QED
    BY <2>1, <2>2, FewerCounted
<1>2. ASSUME NEW r \in Requests, Commit(r) PROVE Limit'
  BY <1>2, CommitLimit
<1>3. ASSUME NEW j \in Jobs, End(j) \/ Retry(j) PROVE Limit'
  <2>1. ASSUME NEW c \in Companies, NEW i \in Counted'[c] PROVE i \in Counted[c]
    <3>1. /\ state' \in [Jobs -> {"absent", "active", "failed", "final"}]
          /\ jobOf' = jobOf /\ retried \subseteq retried'
          /\ \A o \in Jobs : state'[o] = "active" => state[o] = "active" \/ o \in retried'
      BY <1>3 DEF End, Retry, IInv, TypeOK
    <3>2. PICK k \in Keys : i = jobOf[<<c, k>>] /\ i # None /\ state'[i] = "active" /\ i \notin retried'
      BY <2>1, <3>1 DEF Counted, Active, JobsOf
    <3>3. i \in Jobs
      BY <3>2 DEF IInv, TypeOK, KeysOf
    <3> QED
      BY <3>1, <3>2, <3>3 DEF Counted, Active, JobsOf
  <2>2. ASSUME NEW r \in Requests, pc'[r] \in {"inserting", "committing"}
        PROVE  /\ asked'[r] = asked[r]
               /\ Cardinality(Counted[asked[r].company]) < MaxConcurrentJobs
    BY <1>3, <2>2 DEF End, Retry, Limit, RoomIsKept
  <2> QED
    BY <2>1, <2>2, FewerCounted
<1>4. ASSUME NEW r \in Requests, Arrive(r) \/ CreateStep(r) \/ Disconnect(r) \/ Break(r), ~Commit(r)
      PROVE  UNCHANGED rows
  BY <1>4 DEF CreateStep, Arrive, Lookup, LockCompany, Recheck, CountActive, Insert, Reply,
       Disconnect, Break
<1>5. CASE UNCHANGED vars
  BY <1>5, <1>1 DEF vars, rows
<1> QED
  BY <1>1, <1>2, <1>3, <1>4, <1>5 DEF Next

LEMMA LowCounts == CountsAreLow => CreatesKeepTheLimit
BY DEF CountsAreLow, CreatesKeepTheLimit, Counted

\* Creates alone never take a company above its limit
\* (service.py: create_job).
THEOREM LimitIsKept == Spec => []CreatesKeepTheLimit
<1>1. Spec => []Limit
  BY InitLimit, NextLimit, AlwaysIInv, PTL DEF Spec
<1> QED
  BY <1>1, LowCounts, PTL DEF Limit
-----------------------------------------------------------------------------
(* The map of keys.                                                        *)

\* Who has no status has no job id, and who has one before the handler ends
\* stopped waiting.
SilentUntilAnswered ==
  \A r \in Requests :
    /\ code[r] = 0 => told[r] = None
    /\ pc[r] # "answered" => code[r] \in {0, 500}

LEMMA NextSilent == IInv /\ SilentUntilAnswered /\ [Next]_vars => SilentUntilAnswered'
<1> SUFFICES ASSUME IInv, SilentUntilAnswered, [Next]_vars PROVE SilentUntilAnswered'
  OBVIOUS
<1> USE DEF IInv, TypeOK, SilentUntilAnswered
<1>1. ASSUME NEW r \in Requests, NEW n \in {201, 401, 409, 429, 500}, NEW j, Answer(r, n, j)
      PROVE  SilentUntilAnswered'
  BY <1>1 DEF Answer, Goto
<1>2. ASSUME NEW r \in Requests, Replay(r) PROVE SilentUntilAnswered'
  BY <1>1, <1>2 DEF Replay
<1>3. ASSUME NEW r \in Requests, Lookup(r) \/ Recheck(r) \/ Insert(r) PROVE SilentUntilAnswered'
  BY <1>2, <1>3 DEF Lookup, Recheck, Insert, Goto
<1>4. ASSUME NEW r \in Requests, LockCompany(r) \/ CountActive(r) PROVE SilentUntilAnswered'
  BY <1>1, <1>4 DEF LockCompany, CountActive, Goto
<1>5. ASSUME NEW r \in Requests, Reply(r) \/ Break(r) PROVE SilentUntilAnswered'
  BY <1>1, <1>5 DEF Reply, Break
<1>6. ASSUME NEW r \in Requests, Arrive(r) \/ Commit(r) \/ Disconnect(r) PROVE SilentUntilAnswered'
  BY <1>6 DEF Arrive, Commit, Disconnect, Goto, Steps, HoldsLock
<1>7. ASSUME NEW j \in Jobs, End(j) \/ Retry(j) PROVE SilentUntilAnswered'
  BY <1>7 DEF End, Retry
<1>8. CASE UNCHANGED vars
  BY <1>8 DEF vars
<1> QED
  BY <1>3, <1>4, <1>5, <1>6, <1>7, <1>8 DEF Next, CreateStep

KeyedStep == Keyed!Next \/ UNCHANGED Keyed!keyedVars

\* An answer that agrees with the map is one of KeyedJobs, or goes to a client
\* that has left.
LEMMA AnswerKeyed ==
  ASSUME IInv, NEW r \in Requests, pc[r] \in Steps,
         NEW n \in {201, 401, 409, 429, 500}, NEW j \in Jobs \cup {None},
         Answer(r, n, j), UNCHANGED rows, UNCHANGED asked, Keyed!Fits(r, n, j)
  PROVE  KeyedStep
<1>1. asked[r] # None
  BY PayloadType DEF Steps, HoldsLock
<1>2. CASE code[r] = 0
  <2>1. /\ code' = [code EXCEPT ![r] = n]
        /\ told' = [told EXCEPT ![r] = j]
        /\ UNCHANGED <<jobOf, kindOf, asked>>
    BY <1>2 DEF Answer, rows, IInv, TypeOK
  <2>2. \E m \in {201, 401, 409, 429, 500}, i \in Jobs \cup {None} :
          /\ Keyed!Fits(r, m, i)
          /\ code' = [code EXCEPT ![r] = m]
          /\ told' = [told EXCEPT ![r] = i]
    BY <2>1, Zenon
  <2>3. Keyed!Answer(r)
    BY <1>1, <1>2, <2>1, <2>2 DEF Keyed!Answer
  <2> QED
    BY <2>3 DEF Keyed!Next, KeyedStep
<1>3. CASE code[r] # 0
  BY <1>3 DEF Answer, rows, Keyed!keyedVars, KeyedStep, IInv, TypeOK
<1> QED
  BY <1>2, <1>3

\* A replay tells what the map has of its key.
LEMMA ReplayKeyed ==
  ASSUME IInv, NEW r \in Requests, pc[r] \in Steps, Found(r),
         Replay(r), UNCHANGED rows, UNCHANGED asked
  PROVE  KeyedStep
<1> DEFINE j == jobOf[KeyOf(r)]
<1>1. j \in Jobs /\ j # None
  BY PayloadType DEF Found, IInv, TypeOK, Steps, HoldsLock
<1>2. CASE kindOf[j] = asked[r].kind
  <2>1. Answer(r, 201, j) /\ Keyed!Fits(r, 201, j)
    BY <1>1, <1>2 DEF Replay, KeyOf, Keyed!Fits
  <2> QED
    BY <1>1, <2>1, AnswerKeyed
<1>3. CASE kindOf[j] # asked[r].kind
  <2>1. Answer(r, 409, None) /\ Keyed!Fits(r, 409, None)
    BY <1>1, <1>3 DEF Replay, KeyOf, Keyed!Fits
  <2> QED
    BY <2>1, AnswerKeyed
<1> QED
  BY <1>2, <1>3

\* The commit of a draft adds its key.
LEMMA CommitKeyed ==
  ASSUME IInv, SilentUntilAnswered, NEW r \in Requests, Commit(r)
  PROVE  KeyedStep
<1>0. code[r] \in {0, 500}
  BY DEF Commit, SilentUntilAnswered
<1>1. pc[r] = "committing" /\ draft[r] \in Jobs /\ state[draft[r]] = "absent" /\ ~Found(r)
  BY DEF Commit, IInv, TypeOK, DraftsAreFresh, KeysAreFree
<1>2. asked[r] # None /\ asked[r].company \in Known /\ draft[r] # None
  BY <1>1, PayloadType DEF IInv, LocksAreHeld, HoldsLock, DraftsAreFresh
<1>3. \A other \in Companies \X Keys : jobOf[other] # draft[r]
  BY <1>1, <1>2 DEF IInv, RowsAreKeyed, KeysOf
<1>4. Keyed!Create(r, draft[r])
  BY <1>0, <1>1, <1>2, <1>3 DEF Commit, Found, KeyOf, Keyed!Create
<1> QED
  BY <1>1, <1>4 DEF KeyedStep, Keyed!Next

LEMMA NextKeyed == IInv /\ SilentUntilAnswered /\ [Next]_vars => KeyedStep
<1> SUFFICES ASSUME IInv, SilentUntilAnswered, [Next]_vars PROVE KeyedStep
  OBVIOUS
<1>1. ASSUME NEW r \in Requests, Arrive(r) PROVE KeyedStep
  BY <1>1 DEF Arrive, rows, IInv, PayloadsAreKept, Payloads, Keyed!Ask, Keyed!Next, KeyedStep
<1>2. ASSUME NEW r \in Requests, Lookup(r) \/ Recheck(r) \/ Insert(r) PROVE KeyedStep
  <2>1. CASE Found(r)
    BY <1>2, <2>1, ReplayKeyed DEF Lookup, Recheck, Insert, Steps, HoldsLock
  <2>2. CASE ~Found(r)
    BY <1>2, <2>2 DEF Lookup, Recheck, Insert, rows, Keyed!keyedVars, KeyedStep
  <2> QED
    BY <2>1, <2>2
<1>3. ASSUME NEW r \in Requests, LockCompany(r) PROVE KeyedStep
  <2>1. CASE asked[r].company \in Known
    BY <1>3, <2>1 DEF LockCompany, rows, Keyed!keyedVars, KeyedStep
  <2>2. CASE asked[r].company \notin Known
    <3>1. Answer(r, 401, None) /\ Keyed!Fits(r, 401, None)
      BY <1>3, <2>2 DEF LockCompany, Keyed!Fits
    <3> QED
      BY <1>3, <3>1, AnswerKeyed DEF LockCompany, Steps
  <2> QED
    BY <2>1, <2>2
<1>4. ASSUME NEW r \in Requests, CountActive(r) PROVE KeyedStep
  <2>1. CASE pc' = [pc EXCEPT ![r] = "inserting"] /\ UNCHANGED <<code, told>>
    BY <1>4, <2>1 DEF CountActive, rows, Keyed!keyedVars, KeyedStep
  <2>2. CASE Answer(r, 429, None)
    <3>1. Keyed!Fits(r, 429, None)
      BY <1>4 DEF CountActive, IInv, KeysAreFree, Found, KeyOf, Keyed!Fits
    <3> QED
      BY <1>4, <2>2, <3>1, AnswerKeyed DEF CountActive, Steps, HoldsLock
  <2> QED
    BY <1>4, <2>1, <2>2 DEF CountActive, Goto
<1>5. ASSUME NEW r \in Requests, Commit(r) PROVE KeyedStep
  BY <1>5, CommitKeyed
<1>6. ASSUME NEW r \in Requests, Reply(r) PROVE KeyedStep
  <2>1. draft[r] \in Jobs /\ draft[r] # None /\ Keyed!Fits(r, 201, draft[r])
    BY <1>6 DEF Reply, IInv, TypeOK, DraftsAreFresh, KeyOf, Keyed!Fits
  <2> QED
    BY <1>6, <2>1, AnswerKeyed DEF Reply, Steps
<1>7. ASSUME NEW r \in Requests, Disconnect(r) PROVE KeyedStep
  <2>1. asked[r] # None
    BY <1>7, PayloadType DEF Disconnect, Steps, HoldsLock
  <2>2. Keyed!Fits(r, 500, None)
    BY DEF Keyed!Fits
  <2>3. told' = [told EXCEPT ![r] = None]
    BY <1>7 DEF Disconnect, SilentUntilAnswered, IInv, TypeOK
  <2>4. Keyed!Answer(r)
    BY <1>7, <2>1, <2>2, <2>3 DEF Disconnect, rows, Keyed!Answer
  <2> QED
    BY <2>4 DEF KeyedStep, Keyed!Next
<1>8. ASSUME NEW r \in Requests, Break(r) PROVE KeyedStep
  <2>1. Keyed!Fits(r, 500, None)
    BY DEF Keyed!Fits
  <2> QED
    BY <1>8, <2>1, AnswerKeyed DEF Break
<1>9. ASSUME NEW j \in Jobs, End(j) \/ Retry(j) PROVE KeyedStep
  BY <1>9 DEF End, Retry, Keyed!keyedVars, KeyedStep
<1>10. CASE UNCHANGED vars
  BY <1>10 DEF vars, Keyed!keyedVars, KeyedStep
<1> QED
  BY <1>1, <1>2, <1>3, <1>4, <1>5, <1>6, <1>7, <1>8, <1>9, <1>10 DEF Next, CreateStep

LEMMA InitKeyed == Init => Keyed!Init /\ SilentUntilAnswered
BY DEF Init, KeysOf, Keyed!Init, SilentUntilAnswered

\* The requests implement the map from keys to jobs: a 201 names a committed
\* job, and every replay agrees with it
\* (service.py: create_job; routes.py: create_job).
THEOREM SubmissionIsKeyed == Spec => ImplementsKeyedJobs
<1>1. Spec => []SilentUntilAnswered
  BY InitKeyed, NextSilent, AlwaysIInv, PTL DEF Spec
<1> QED
  BY <1>1, InitKeyed, NextKeyed, AlwaysIInv, PTL DEF Spec, ImplementsKeyedJobs, Keyed!Spec, KeyedStep

\* What a client may conclude from the replies, of which it keeps each for good:
\* those of one key of one company name one job, of the kind asked for, and
\* those of two keys name two.
RepliesNameTheirJob ==
  \A r \in Requests : code[r] = 201 =>
    told[r] \in Jobs /\ told[r] = jobOf[KeyOf(r)] /\ kindOf[told[r]] = asked[r].kind
OneJobPerKey ==
  \A r, s \in Requests : code[r] = 201 /\ code[s] = 201 =>
    /\ told[r] = told[s] <=> KeyOf(r) = KeyOf(s)
    /\ told[r] = told[s] => asked[r].kind = asked[s].kind

\* Every step of the map keeps its word.
LEMMA KeyedReplies ==
  ASSUME IInv, RepliesNameTheirJob, KeyedStep
  PROVE  RepliesNameTheirJob'
<1> USE DEF IInv
<1>1. \A r \in Requests : code[r] = 201 => asked[r] # None /\ KeyOf(r) \in KeysOf
  BY PayloadType DEF PayloadsAreKept, TypeOK
<1>2. ASSUME NEW r \in Requests, Keyed!Ask(r) PROVE RepliesNameTheirJob'
  <2>1. PICK a : asked[r] = None /\ asked' = [asked EXCEPT ![r] = a]
    BY <1>2 DEF Keyed!Ask
  <2>2. UNCHANGED <<jobOf, kindOf, code, told>>
    BY <1>2 DEF Keyed!Ask
  <2>3. \A s \in Requests : s # r => asked'[s] = asked[s]
    BY <2>1 DEF TypeOK
  <2>4. \A s \in Requests : code[s] = 201 => asked'[s] = asked[s]
    BY <1>1, <2>1, <2>3
  <2> QED
    BY <2>2, <2>4 DEF RepliesNameTheirJob, KeyOf
<1>3. ASSUME NEW r \in Requests, NEW j \in Jobs, Keyed!Create(r, j) PROVE RepliesNameTheirJob'
  <2> DEFINE ck == KeyOf(r)
  <2>0. ck \in KeysOf
    <3>1. asked[r] # None
      BY <1>3 DEF Keyed!Create
    <3> QED
      BY <3>1, PayloadType DEF PayloadsAreKept
  <2>1. /\ jobOf[ck] = None /\ jobOf' = [jobOf EXCEPT ![ck] = j]
        /\ kindOf' = [kindOf EXCEPT ![j] = asked[r].kind]
    BY <1>3 DEF Keyed!Create, KeyOf
  <2> HIDE DEF ck
  <2>2. UNCHANGED <<asked, code, told>> /\ \A other \in KeysOf : jobOf[other] # j
    BY <1>3 DEF Keyed!Create, KeysOf
  <2>3. ASSUME NEW s \in Requests, code[s] = 201
        PROVE  jobOf'[KeyOf(s)] = jobOf[KeyOf(s)] /\ kindOf'[told[s]] = kindOf[told[s]]
    <3>1. told[s] \in Jobs /\ told[s] = jobOf[KeyOf(s)] /\ KeyOf(s) \in KeysOf
      BY <1>1, <2>3 DEF RepliesNameTheirJob
    <3>2. told[s] # None /\ told[s] # j
      BY <2>2, <3>1, NoneIsNobody
    <3>3. KeyOf(s) # ck
      BY <2>1, <3>1, <3>2
    <3> QED
      BY <2>1, <3>1, <3>2, <3>3 DEF TypeOK
  <2> QED
    BY <2>2, <2>3 DEF RepliesNameTheirJob, KeyOf
<1>4. ASSUME NEW r \in Requests, Keyed!Answer(r) PROVE RepliesNameTheirJob'
  <2>1. PICK n \in {201, 401, 409, 429, 500}, j \in Jobs \cup {None} :
          /\ Keyed!Fits(r, n, j)
          /\ code' = [code EXCEPT ![r] = n] /\ told' = [told EXCEPT ![r] = j]
    BY <1>4 DEF Keyed!Answer
  <2>2. UNCHANGED <<jobOf, kindOf, asked>>
    BY <1>4 DEF Keyed!Answer
  <2>3. \A s \in Requests \ {r} : code'[s] = code[s] /\ told'[s] = told[s]
    BY <2>1 DEF TypeOK
  <2>4. code'[r] = n /\ told'[r] = j
    BY <2>1 DEF TypeOK
  <2>5. n = 201 => j \in Jobs /\ j = jobOf[KeyOf(r)] /\ kindOf[j] = asked[r].kind
    BY <2>1 DEF Keyed!Fits, KeyOf
  <2> QED
    BY <2>2, <2>3, <2>4, <2>5 DEF RepliesNameTheirJob, KeyOf
<1>5. CASE UNCHANGED Keyed!keyedVars
  BY <1>5 DEF Keyed!keyedVars, RepliesNameTheirJob, KeyOf
<1> QED
  BY <1>2, <1>3, <1>4, <1>5 DEF KeyedStep, Keyed!Next

LEMMA RepliesAgree == IInv /\ RepliesNameTheirJob => OneJobPerKey
<1> SUFFICES ASSUME IInv, RepliesNameTheirJob, NEW r \in Requests, NEW s \in Requests,
                    code[r] = 201, code[s] = 201
             PROVE  /\ told[r] = told[s] <=> KeyOf(r) = KeyOf(s)
                    /\ told[r] = told[s] => asked[r].kind = asked[s].kind
  BY DEF OneJobPerKey
<1>1. KeyOf(r) \in KeysOf /\ KeyOf(s) \in KeysOf
  BY PayloadType DEF IInv, PayloadsAreKept, TypeOK
<1>2. told[r] # None
  BY NoneIsNobody DEF RepliesNameTheirJob
<1> QED
  BY <1>1, <1>2 DEF RepliesNameTheirJob, IInv, RowsAreKeyed

\* Idempotency as a client sees it: whatever was lost, repeated or raced, all
\* the 201s of one key of one company name the same job and those of different
\* keys different ones (service.py: create_job, _replay).
THEOREM KeysNameOneJob == Spec => []OneJobPerKey
<1>1. Init => RepliesNameTheirJob
  BY DEF Init, RepliesNameTheirJob
<1>2. Spec => []SilentUntilAnswered
  BY InitKeyed, NextSilent, AlwaysIInv, PTL DEF Spec
<1>3. IInv /\ SilentUntilAnswered /\ RepliesNameTheirJob /\ [Next]_vars => RepliesNameTheirJob'
  BY NextKeyed, KeyedReplies
<1> QED
  BY <1>1, <1>2, <1>3, RepliesAgree, AlwaysIInv, PTL DEF Spec
=============================================================================
