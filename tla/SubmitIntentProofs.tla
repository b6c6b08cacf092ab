-------------------------- MODULE SubmitIntentProofs --------------------------
(***************************************************************************)
(* A press repeated makes no second job, whatever replies are lost: proved *)
(* for every set of companies, jobs and presses.                           *)
(***************************************************************************)
EXTENDS SubmitIntent, FiniteSetTheorems, TLAPS

Unsent == {r \in Presses : asked[r] = None}

\* There is a key for every press to come and for the one under way.
KeysAreLeft == key + Cardinality(Unsent) + (IF pending = None THEN 0 ELSE 1) <= MaxKeys

\* Nothing was asked for under a key to come, and what the page waits for was
\* asked for under the page's key.
AsksAreOld ==
  /\ \A r \in Presses : asked[r] # None => asked[r].key <= key
  /\ pending # None => asked[pending] # None /\ asked[pending].key = key

Asked(r, ck) == asked[r] # None /\ <<asked[r].company, asked[r].key>> = ck

\* A job was asked for, under one key of one company.
RowsAreKeyed ==
  \A ck \in Companies \X Keys :
    jobOf[ck] # None =>
      /\ \E r \in Presses : Asked(r, ck)
      /\ \A other \in Companies \X Keys : jobOf[other] = jobOf[ck] => other = ck

\* 201 names the job of the key.
RepliesAreTrue ==
  \A r \in Presses : code[r] = 201 =>
    /\ asked[r] # None /\ told[r] # None
    /\ told[r] = jobOf[<<asked[r].company, asked[r].key>>]

\* The jobs announced are those of keys put aside.
AnnouncedAreAside ==
  \A j \in announced : \E ck \in Companies \X Keys : ck[2] < key /\ jobOf[ck] = j

\* A key put aside has had its job announced, to a company that asked with it.
RenewedAreAnnounced ==
  \A k \in (1..key - 1) \ forgotten :
    \E ck \in Companies \X Keys :
      ck[2] = k /\ jobOf[ck] \in announced /\ \E r \in Presses : Asked(r, ck)

IInv ==
  /\ TypeOK /\ KeysAreLeft /\ AsksAreOld /\ RowsAreKeyed /\ RepliesAreTrue
  /\ AnnouncedAreAside /\ RenewedAreAnnounced
-----------------------------------------------------------------------------
LEMMA UnsentIsFinite == IsFiniteSet(Unsent) /\ Cardinality(Unsent) \in Nat /\ Cardinality(Unsent) <= Cardinality(Presses)
BY KeysAreEnough, FS_Subset, FS_CardinalityType DEF Unsent

LEMMA InitIInv == Init => IInv
<1> SUFFICES ASSUME Init PROVE IInv
  OBVIOUS
<1> USE DEF Init, Server!Init
<1>1. TypeOK
  BY KeysAreEnough, FS_CardinalityType DEF TypeOK, Keys
<1>2. KeysAreLeft
  BY KeysAreEnough, UnsentIsFinite, FS_CardinalityType DEF KeysAreLeft
<1>3. AsksAreOld /\ RowsAreKeyed /\ RepliesAreTrue
  BY DEF AsksAreOld, RowsAreKeyed, RepliesAreTrue
<1>4. AnnouncedAreAside /\ RenewedAreAnnounced
  BY DEF AnnouncedAreAside, RenewedAreAnnounced
<1> QED
  BY <1>1, <1>2, <1>3, <1>4 DEF IInv

LEMMA CreateIInv == ASSUME IInv, NEW r \in Presses, NEW j \in Jobs, Create(r, j) PROVE IInv'
<1> DEFINE ck == <<asked[r].company, asked[r].key>>
<1> USE DEF Create, Server!Create, page, IInv
<1>1. asked[r] # None /\ ck \in Companies \X Keys /\ jobOf[ck] = None
  BY DEF TypeOK
<1>2. /\ jobOf' = [jobOf EXCEPT ![ck] = j]
      /\ \A other \in Companies \X Keys : jobOf[other] # j
      /\ UNCHANGED <<asked, code, told, key, pending, announced, forgotten, company>>
  OBVIOUS
<1> HIDE DEF ck
<1>3. TypeOK'
  BY <1>2 DEF TypeOK
<1>4. KeysAreLeft' /\ AsksAreOld'
  BY <1>2 DEF KeysAreLeft, AsksAreOld, Unsent
<1>5. Asked(r, ck)
  BY <1>1 DEF Asked, ck
<1>6. RowsAreKeyed'
  BY <1>1, <1>2, <1>5 DEF RowsAreKeyed, Asked, TypeOK
<1>7. \A other \in Companies \X Keys : jobOf[other] # None => jobOf'[other] = jobOf[other]
  BY <1>1, <1>2 DEF TypeOK
<1>8. RepliesAreTrue'
  <2> SUFFICES ASSUME NEW s \in Presses, code[s] = 201
               PROVE  /\ asked[s] # None /\ told[s] # None
                      /\ told[s] = jobOf'[<<asked[s].company, asked[s].key>>]
    BY <1>2 DEF RepliesAreTrue
  <2>1. <<asked[s].company, asked[s].key>> \in Companies \X Keys
    BY DEF TypeOK, RepliesAreTrue
  <2> QED
    BY <1>7, <2>1 DEF RepliesAreTrue
<1>9. AnnouncedAreAside' /\ RenewedAreAnnounced'
  <2>1. None \notin announced
    BY NoneIsNothing DEF TypeOK
  <2>2. AnnouncedAreAside'
    BY <1>2, <1>7, <2>1 DEF AnnouncedAreAside
  <2>3. RenewedAreAnnounced'
    BY <1>2, <1>7, <2>1 DEF RenewedAreAnnounced, Asked
  <2> QED
    BY <2>2, <2>3
<1> QED
  BY <1>3, <1>4, <1>6, <1>8, <1>9

LEMMA AnswerIInv == ASSUME IInv, NEW r \in Presses, Answer(r) PROVE IInv'
<1> USE DEF Answer, Server!Answer, page, IInv
<1>1. PICK n \in {201, 401, 409, 429, 500}, j \in Jobs \cup {None} :
        /\ Server!Fits(r, n, j)
        /\ code' = [code EXCEPT ![r] = n] /\ told' = [told EXCEPT ![r] = j]
  OBVIOUS
<1>2. UNCHANGED <<jobOf, asked, key, pending, announced, forgotten, company>> /\ asked[r] # None
  OBVIOUS
<1>3. TypeOK'
  BY <1>1, <1>2 DEF TypeOK
<1>4. KeysAreLeft' /\ AsksAreOld' /\ RowsAreKeyed' /\ AnnouncedAreAside' /\ RenewedAreAnnounced'
  BY <1>2 DEF KeysAreLeft, Unsent, AsksAreOld, RowsAreKeyed, AnnouncedAreAside, RenewedAreAnnounced, Asked
<1>5. RepliesAreTrue'
  BY <1>1, <1>2 DEF RepliesAreTrue, TypeOK, Server!Fits
<1> QED
  BY <1>3, <1>4, <1>5

\* What changes no question, no key and nothing announced.
LEMMA OtherIInv ==
  ASSUME IInv, TypeOK', UNCHANGED <<jobOf, asked, code, told, key, pending, announced, forgotten>>
  PROVE  IInv'
BY DEF IInv, KeysAreLeft, Unsent, AsksAreOld, RowsAreKeyed, RepliesAreTrue, AnnouncedAreAside,
       RenewedAreAnnounced, Asked

LEMMA PressIInv == ASSUME IInv, NEW r \in Presses, Press(r) PROVE IInv'
<1> DEFINE question == [company |-> company, key |-> key, kind |-> "report"]
<1> USE DEF IInv
<1>1. /\ question \in [company : Companies, key : Keys, kind : {"report"}]
      /\ question # None /\ question.company = company /\ question.key = key
  BY NoneIsNothing DEF TypeOK
<1>2. /\ asked[r] = None /\ pending = None /\ pending' = r
      /\ asked' = [asked EXCEPT ![r] = question]
      /\ UNCHANGED <<jobOf, code, told, key, announced, forgotten, company, waiting, read>>
  BY DEF Press
<1> HIDE DEF question
<1>3. TypeOK'
  BY <1>1, <1>2 DEF TypeOK
<1>4. \A s \in Presses : asked[s] # None => asked'[s] = asked[s]
  BY <1>2 DEF TypeOK
<1>5. asked'[r] = question /\ r # None
  BY <1>2, NoneIsNothing DEF TypeOK
<1>6. KeysAreLeft'
  <2>1. r \in Unsent /\ Unsent' = Unsent \ {r}
    BY <1>1, <1>2 DEF Unsent, TypeOK
  <2>2. Cardinality(Unsent') = Cardinality(Unsent) - 1
    BY <2>1, UnsentIsFinite, FS_RemoveElement
  <2> QED
    BY <1>2, <1>5, <2>2, UnsentIsFinite, KeysAreEnough DEF KeysAreLeft, TypeOK, Keys
<1>7. AsksAreOld'
  BY <1>1, <1>2, <1>4, <1>5 DEF AsksAreOld, TypeOK, Keys
<1>8. \A s \in Presses, ck \in Companies \X Keys : Asked(s, ck) => Asked(s, ck)'
  BY <1>4 DEF Asked
<1>9. RowsAreKeyed'
  BY <1>2, <1>8 DEF RowsAreKeyed
<1>10. RepliesAreTrue'
  <2> SUFFICES ASSUME NEW s \in Presses, code[s] = 201
               PROVE  /\ asked'[s] # None /\ told[s] # None
                      /\ told[s] = jobOf[<<asked'[s].company, asked'[s].key>>]
    BY <1>2 DEF RepliesAreTrue
  <2>1. /\ asked[s] # None /\ told[s] # None
        /\ told[s] = jobOf[<<asked[s].company, asked[s].key>>]
    BY DEF RepliesAreTrue
  <2>2. asked'[s] = asked[s]
    BY <1>4, <2>1, Zenon
  <2> QED
    BY <2>1, <2>2, Zenon
<1>11. AnnouncedAreAside' /\ RenewedAreAnnounced'
  BY <1>2, <1>8 DEF AnnouncedAreAside, RenewedAreAnnounced
<1> QED
  BY <1>3, <1>6, <1>7, <1>9, <1>10, <1>11

LEMMA SettleIInv == ASSUME IInv, NEW r \in Presses, Settle(r) PROVE IInv'
<1> USE DEF IInv
<1>1. /\ pending = r /\ r # None /\ pending' = None
      /\ UNCHANGED <<jobOf, asked, code, told, forgotten, company, waiting, read>>
  BY NoneIsNothing DEF Settle, server
<1>2. CASE UNCHANGED <<key, announced>>
  <2>1. TypeOK'
    BY <1>1, <1>2 DEF Settle, server, TypeOK
  <2>2. KeysAreLeft'
    <3>1. UNCHANGED Unsent
      BY <1>1 DEF Unsent
    <3> QED
      BY <1>1, <1>2, <3>1, UnsentIsFinite, KeysAreEnough DEF KeysAreLeft, TypeOK, Keys
  <2> QED
    BY <1>1, <1>2, <2>1, <2>2 DEF AsksAreOld, RowsAreKeyed, RepliesAreTrue, AnnouncedAreAside,
       RenewedAreAnnounced, Asked
<1>3. CASE code[r] = 201 /\ key' = key + 1 /\ announced' = announced \cup {told[r]}
  <2> DEFINE ck == <<asked[r].company, asked[r].key>>
  <2>1. /\ Asked(r, ck) /\ ck \in Companies \X Keys /\ ck[2] = key
        /\ told[r] = jobOf[ck] /\ told[r] # None /\ told[r] \in Jobs
    BY <1>1, <1>3 DEF TypeOK, RepliesAreTrue, AsksAreOld, Asked
  <2> HIDE DEF ck
  <2>2. KeysAreLeft' /\ key' \in Keys
    <3>1. UNCHANGED Unsent
      BY <1>1 DEF Unsent
    <3> QED
      BY <1>1, <1>3, <3>1, UnsentIsFinite, KeysAreEnough DEF KeysAreLeft, TypeOK, Keys
  <2>3. TypeOK'
    BY <1>1, <1>3, <2>1, <2>2 DEF Settle, server, TypeOK
  <2>4. AsksAreOld'
    BY <1>1, <1>3 DEF AsksAreOld, TypeOK, Keys
  <2>5. RowsAreKeyed' /\ RepliesAreTrue'
    BY <1>1 DEF RowsAreKeyed, RepliesAreTrue, Asked
  <2>6. AnnouncedAreAside'
    <3> SUFFICES ASSUME NEW j \in announced'
                 PROVE  \E d \in Companies \X Keys : d[2] < key' /\ jobOf[d] = j
      BY <1>1 DEF AnnouncedAreAside
    <3>1. CASE j = told[r]
      BY <1>3, <2>1, <3>1 DEF TypeOK, Keys
    <3>2. CASE j \in announced
      <4>1. PICK d \in Companies \X Keys : d[2] < key /\ jobOf[d] = j
        BY <3>2 DEF AnnouncedAreAside
      <4>2. d[2] \in Int /\ key \in Int
        BY DEF TypeOK, Keys
      <4>3. d[2] < key'
        BY <1>3, <4>1, <4>2
      <4> QED
        BY <4>1, <4>3
    <3> QED
      BY <1>3, <3>1, <3>2
  <2>7. RenewedAreAnnounced'
    <3> SUFFICES ASSUME NEW k \in (1..key' - 1) \ forgotten
                 PROVE  \E d \in Companies \X Keys :
                          d[2] = k /\ jobOf[d] \in announced' /\ \E s \in Presses : Asked(s, d)
      BY <1>1 DEF RenewedAreAnnounced, Asked
    <3>1. k = key \/ k \in (1..key - 1) \ forgotten
      BY <1>3 DEF TypeOK, Keys
    <3> QED
      BY <1>3, <2>1, <3>1 DEF RenewedAreAnnounced
  <2> QED
    BY <2>2, <2>3, <2>4, <2>5, <2>6, <2>7
<1> QED
  BY <1>2, <1>3 DEF Settle

LEMMA ReloadIInv == ASSUME IInv, Reload PROVE IInv'
<1> USE DEF IInv
<1>1. /\ key + Cardinality(Presses) < MaxKeys /\ key' = key + 1
      /\ forgotten' = forgotten \cup {key} /\ pending' = None
      /\ UNCHANGED <<jobOf, asked, code, told, announced, company, waiting, read>>
  BY DEF Reload, server
<1>2. key' \in Keys /\ KeysAreLeft'
  <2>1. UNCHANGED Unsent
    BY <1>1 DEF Unsent
  <2> QED
    BY <1>1, <2>1, UnsentIsFinite, KeysAreEnough, FS_CardinalityType DEF KeysAreLeft, TypeOK, Keys
<1>3. TypeOK'
  BY <1>1, <1>2 DEF Reload, server, TypeOK
<1>4. AsksAreOld'
  BY <1>1 DEF AsksAreOld, TypeOK, Keys
<1>5. RowsAreKeyed' /\ RepliesAreTrue'
  BY <1>1 DEF RowsAreKeyed, RepliesAreTrue, Asked
<1>6. AnnouncedAreAside'
  <2>1. \A d \in Companies \X Keys : d[2] < key => d[2] < key'
    BY <1>1 DEF TypeOK, Keys
  <2> QED
    BY <1>1, <2>1 DEF AnnouncedAreAside
<1>7. RenewedAreAnnounced'
  <2>1. (1..key' - 1) \ forgotten' \subseteq (1..key - 1) \ forgotten
    BY <1>1 DEF TypeOK, Keys
  <2> QED
    BY <1>1, <2>1 DEF RenewedAreAnnounced, Asked
<1> QED
  BY <1>2, <1>3, <1>4, <1>5, <1>6, <1>7

LEMMA NextIInv == IInv /\ [Next]_vars => IInv'
<1> SUFFICES ASSUME IInv, [Next]_vars PROVE IInv'
  OBVIOUS
<1>1. ASSUME NEW r \in Presses, Press(r) \/ Answer(r) \/ Settle(r) \/ \E j \in Jobs : Create(r, j) PROVE IInv'
  BY <1>1, PressIInv, AnswerIInv, SettleIInv, CreateIInv
<1>2. ASSUME NEW j \in Jobs, Live(j) PROVE IInv'
  <2>1. TypeOK'
    BY <1>2 DEF Live, server, page, IInv, TypeOK
  <2> QED
    BY <1>2, <2>1, OtherIInv DEF Live, server, page
<1>3. ASSUME NEW c \in Companies, SignIn(c) PROVE IInv'
  <2>1. TypeOK'
    BY <1>3 DEF SignIn, server, IInv, TypeOK
  <2> QED
    BY <1>3, <2>1, OtherIInv DEF SignIn, server
<1>4. CASE UNCHANGED vars
  <2>1. TypeOK'
    BY <1>4 DEF vars, server, page, IInv, TypeOK
  <2> QED
    BY <1>4, <2>1, OtherIInv DEF vars, server, page
<1> QED
  BY <1>1, <1>2, <1>3, <1>4, ReloadIInv DEF Next

\* Keys, questions, jobs and announcements stay in step (SubmitButton.tsx: submit).
THEOREM IntentInvariance == Spec => []IInv
BY InitIInv, NextIInv, PTL DEF Spec
-----------------------------------------------------------------------------
\* Every variable keeps its type, and there is always a key for the next press
\* (SubmitButton.tsx).
THEOREM IntentTypes == Spec => []TypeOK
<1>1. IInv => TypeOK
  BY DEF IInv
<1> QED
  BY <1>1, IntentInvariance, PTL

LEMMA NoDuplicates == IInv => PressesAreNotDuplicated
<1> SUFFICES ASSUME IInv, NEW k \in (1..key - 1) \ forgotten, NEW c \in Companies,
                    jobOf[<<c, k>>] # None, ~Shared(k)
             PROVE  jobOf[<<c, k>>] \in announced
  BY DEF PressesAreNotDuplicated
<1>1. <<c, k>> \in Companies \X Keys
  BY KeysAreEnough DEF IInv, TypeOK, Keys
<1>2. PICK r \in Presses : Asked(r, <<c, k>>)
  BY <1>1 DEF IInv, RowsAreKeyed
<1>3. PICK ck \in Companies \X Keys, s \in Presses : ck[2] = k /\ jobOf[ck] \in announced /\ Asked(s, ck)
  BY DEF IInv, RenewedAreAnnounced
<1>4. ck = <<c, k>>
  BY <1>2, <1>3 DEF Shared, Asked
<1> QED
  BY <1>3, <1>4

\* A press repeated makes no second job: a job made under a key the page has put
\* aside is one its user was told of (SubmitButton.tsx, submit).
THEOREM WishesAreGrantedOnce == Spec => []PressesAreNotDuplicated
BY NoDuplicates, IntentInvariance, PTL

LEMMA AnnouncedAreOld == IInv => AnnouncedJobsAreSettled
<1> SUFFICES ASSUME IInv, NEW c \in Companies, jobOf[<<c, key>>] \in announced PROVE FALSE
  BY DEF AnnouncedJobsAreSettled
<1>1. <<c, key>> \in Companies \X Keys /\ key \in Int
  BY DEF IInv, TypeOK, Keys
<1>2. PICK ck \in Companies \X Keys : ck[2] < key /\ jobOf[ck] = jobOf[<<c, key>>]
  BY DEF IInv, AnnouncedAreAside
<1>3. jobOf[<<c, key>>] # None
  BY NoneIsNothing DEF IInv, TypeOK
<1>4. ck = <<c, key>>
  BY <1>1, <1>2, <1>3 DEF IInv, RowsAreKeyed
<1> QED
  BY <1>1, <1>2, <1>4

\* No job is announced twice: what was announced is not the job of the page's
\* key (SubmitButton.tsx, submit).
THEOREM JobsAreAnnouncedOnce == Spec => []AnnouncedJobsAreSettled
BY AnnouncedAreOld, IntentInvariance, PTL
-----------------------------------------------------------------------------
\* The button asks of the server what KeyedJobs promises and nothing else.
LEMMA ServerSteps == TypeOK /\ [Next]_vars => [Server!Next]_(Server!keyedVars)
<1> SUFFICES ASSUME TypeOK, [Next]_vars PROVE [Server!Next]_(Server!keyedVars)
  OBVIOUS
<1>1. ASSUME NEW r \in Presses, Press(r) PROVE Server!Ask(r)
  BY <1>1 DEF Press, Server!Ask, TypeOK
<1>2. ASSUME NEW r \in Presses, Answer(r) \/ \E j \in Jobs : Create(r, j) PROVE Server!Next
  BY <1>2 DEF Answer, Create, Server!Next
<1>3. ASSUME NEW r \in Presses, Settle(r) PROVE UNCHANGED Server!keyedVars
  BY <1>3 DEF Settle, server, Server!keyedVars
<1>4. CASE (\E j \in Jobs : Live(j)) \/ (\E c \in Companies : SignIn(c)) \/ Reload
  BY <1>4 DEF Live, SignIn, Reload, server, Server!keyedVars
<1>5. CASE UNCHANGED vars
  BY <1>5 DEF vars, server, Server!keyedVars
<1> QED
  BY <1>1, <1>2, <1>3, <1>4, <1>5 DEF Next, Server!Next

\* To the server the button is one more client of KeyedJobs, which is what the
\* requests of JobSubmission implement (SubmitButton.tsx: submit).
THEOREM IntentIsAClient == Spec => Server!Spec
<1>1. Init => Server!Init
  BY DEF Init
<1> QED
  BY <1>1, ServerSteps, IntentTypes, PTL DEF Spec, Server!Spec
=============================================================================
