---------------------------- MODULE JobViewProofs ----------------------------
(***************************************************************************)
(* What the page shows of a job is never behind what it was told: proved   *)
(* for any users, companies and length of the job's history.               *)
(***************************************************************************)
EXTENDS JobView, TLAPS

Statuses == {"queued", "running", "done", "failed", "cancelled"}

\* A job that is done or was cancelled stays so.
EndsAreLast == \A v \in 1..Now : past[v] \in {"done", "cancelled"} => v = Now

\* Nobody is told of what has not happened yet.
VersionsArePast ==
  /\ \A f \in Fields : answer[f] <= Now
  /\ \A a \in Auths, f \in Fields : cache[a][f] <= Now

\* Another company's answers are without the job, the lists of its own have it,
OthersSeeNothing ==
  /\ auth \in Owners => answer["list"] # Nothing
  /\ auth \notin Owners => ~open /\ \A f \in Fields : answer[f] <= Nothing
  /\ \A a \in Auths \ Owners : settled[a] = 0 /\ \A f \in Fields : cache[a][f] <= Nothing

\* and no answer about its result says that there is none.
ResultsAreKnown == answer["result"] # Nothing /\ \A a \in Auths : cache[a]["result"] # Nothing

\* A detail is not older than the one it replaces, nor its events than its row.
DetailsAreInOrder ==
  /\ answer["row"] # Unknown => cache[auth]["row"] <= answer["row"]
  /\ answer["events"] # Unknown => answer["row"] # Unknown /\ answer["row"] <= answer["events"]
  /\ \A a \in Auths : cache[a]["row"] <= cache[a]["events"]

\* Who has sent a mutation has seen the job in the list, and an exception made
\* for the detail is one of the page that is open.
SendersHaveTheList ==
  sent # NoMutation =>
    sent.by \in Owners /\ cache[sent.by]["list"] > Nothing /\ (sent.by # auth => ~blind)

\* What is shown, and what is about to be, is not behind the last mutation.
ListIsNotBehind ==
  /\ answer["list"] # Unknown => answer["list"] >= settled[auth]
  /\ "list" \notin fetching \cup failing => cache[auth]["list"] >= settled[auth]

DetailIsNotBehind ==
  ~blind =>
    /\ "detail" \in fetching /\ answer["row"] # Unknown => answer["row"] >= settled[auth]
    /\ open /\ "detail" \notin fetching \cup failing => cache[auth]["row"] >= settled[auth]

SettledIsPast == \A a \in Auths : settled[a] <= Now

IInv ==
  /\ TypeOK /\ EndsAreLast /\ VersionsArePast /\ OthersSeeNothing /\ ResultsAreKnown
  /\ DetailsAreInOrder /\ SendersHaveTheList
  /\ SettledIsPast /\ ListIsNotBehind /\ DetailIsNotBehind
-----------------------------------------------------------------------------
(* The operators of the model.                                             *)

LEMMA WhatIsMounted ==
  /\ "list" \in Mounted
  /\ "detail" \in Mounted <=> open
  /\ "result" \in Mounted <=> open /\ WantsResult(cache[auth]["row"])
  /\ Mounted \subseteq Queries
BY DEF Mounted, Queries, Shown, KeyOf

LEMMA WhatIsAsked ==
  /\ FieldsOf("list") = {"list"} /\ FieldsOf("result") = {"result"}
  /\ FieldsOf("detail") = {"row", "events"}
  /\ \A q \in Queries : FieldsOf(q) \subseteq Fields
BY DEF FieldsOf, Queries, Fields

LEMMA VersionsAreNumbers == Versions \subseteq Int /\ \A v \in Versions : v >= Unknown
BY ChangesAreBounded DEF Versions, Unknown, Nothing

\* An answer that says done is about the job as it is and stays.
LEMMA DoneIsNow ==
  ASSUME IInv, NEW v \in Versions, v <= Now, WantsResult(v)
  PROVE  v = Now /\ past[Now] = "done"
<1>1. v \in 1..Now /\ past[v] = "done"
  BY VersionsAreNumbers DEF WantsResult, StatusAt, IInv, TypeOK, Now, Nothing, Versions
<1> QED
  BY <1>1 DEF IInv, EndsAreLast

LEMMA InitIInv == Init => IInv
<1> SUFFICES ASSUME Init PROVE IInv
  OBVIOUS
<1> USE ChangesAreBounded, OwnersAreUsers DEF Init, NoAnswer, Fields, Unknown, Nothing, Now
<1>1. TypeOK
  <2>1. fetching \cup failing \subseteq Mounted
    BY WhatIsMounted
  <2>2. past \in Seq(Statuses) /\ Len(past) = 1
    BY DEF Statuses
  <2>3. answer \in [Fields -> Versions] /\ cache \in [Auths -> [Fields -> Versions]]
    BY DEF Versions
  <2>4. settled \in [Auths -> 0..MaxChanges] /\ 1 \in 1..MaxChanges
    OBVIOUS
  <2> QED
    BY ONLY Init, <2>1, <2>2, <2>3, <2>4 DEF Init, TypeOK, Statuses
<1>2. EndsAreLast /\ VersionsArePast /\ OthersSeeNothing /\ ResultsAreKnown
  BY DEF EndsAreLast, VersionsArePast, OthersSeeNothing, ResultsAreKnown
<1>3. DetailsAreInOrder /\ SendersHaveTheList
  BY DEF DetailsAreInOrder, SendersHaveTheList
<1>4. SettledIsPast /\ ListIsNotBehind /\ DetailIsNotBehind
  BY DEF SettledIsPast, ListIsNotBehind, DetailIsNotBehind
<1> QED
  BY <1>1, <1>2, <1>3, <1>4 DEF IInv
-----------------------------------------------------------------------------
(* The job goes on.                                                        *)

\* What was read of the job stays so.
LEMMA PastStays ==
  ASSUME TypeOK, NEW s \in Statuses, past' = Append(past, s)
  PROVE  /\ Now' = Now + 1 /\ past' \in Seq(Statuses)
         /\ past'[Now + 1] = s
         /\ \A v \in 1..Now : past'[v] = past[v]
BY DEF TypeOK, Now, Statuses

LEMMA PastIInv ==
  ASSUME IInv, NEW s \in Statuses, past' = Append(past, s), Now < MaxChanges,
         past[Now] \notin {"done", "cancelled"},
         UNCHANGED <<client, answer, history>>,
         sent' = sent \/ (sent # NoMutation /\ sent' = [sent EXCEPT !.served = TRUE])
  PROVE  IInv'
<1>1. /\ Now' = Now + 1 /\ past' \in Seq(Statuses) /\ past'[Now + 1] = s
      /\ \A v \in 1..Now : past'[v] = past[v]
      /\ Now \in Nat \ {0}
  BY PastStays DEF TypeOK, Now, IInv
<1>2. \A v \in Versions : v <= Now => StatusAt(v)' = StatusAt(v)
  <2> SUFFICES ASSUME NEW v \in Versions, v <= Now, v > Nothing PROVE past'[v] = past[v]
    BY DEF StatusAt
  <2>1. v \in 1..Now
    BY <1>1, VersionsAreNumbers DEF Nothing
  <2> QED
    BY <1>1, <2>1
<1> USE DEF IInv, client, history
<1>3. TypeOK'
  <2>1. cache[auth]["row"] \in Versions /\ cache[auth]["row"] <= Now
    BY DEF TypeOK, VersionsArePast, Fields
  <2>2. Mounted' = Mounted
    BY <1>2, <2>1 DEF Mounted, WantsResult, Shown, KeyOf
  <2>3. Len(past') \in 1..MaxChanges
    BY <1>1, ChangesAreBounded DEF Now
  <2>4. sent' \in {NoMutation} \cup [kind : {"cancel", "retry"}, by : Auths, served : BOOLEAN]
    BY DEF TypeOK
  <2> QED
    BY <1>1, <2>2, <2>3, <2>4 DEF TypeOK, Statuses
<1>4. EndsAreLast'
  <2> SUFFICES ASSUME NEW v \in 1..Now + 1, past'[v] \in {"done", "cancelled"} PROVE v = Now + 1
    BY <1>1 DEF EndsAreLast
  <2>1. CASE v \in 1..Now
    BY <1>1, <2>1 DEF EndsAreLast
  <2> QED
    BY <1>1, <2>1
<1>5. VersionsArePast' /\ SettledIsPast'
  BY <1>1, VersionsAreNumbers DEF VersionsArePast, SettledIsPast, TypeOK
<1>6. SendersHaveTheList'
  BY DEF SendersHaveTheList, TypeOK
<1>7. OthersSeeNothing' /\ ResultsAreKnown' /\ DetailsAreInOrder'
  BY DEF OthersSeeNothing, ResultsAreKnown, DetailsAreInOrder
<1>8. ListIsNotBehind' /\ DetailIsNotBehind'
  BY DEF ListIsNotBehind, DetailIsNotBehind
<1> QED
  BY <1>3, <1>4, <1>5, <1>6, <1>7, <1>8

LEMMA ChangeIInv == ASSUME IInv, Change PROVE IInv'
<1>1. PICK s \in Statuses : past' = Append(past, s)
  BY DEF Change, Successors, Statuses
<1>2. past[Now] \notin {"done", "cancelled"}
  BY DEF Change, Successors
<1>3. UNCHANGED <<client, answer, history>> /\ sent' = sent /\ Now < MaxChanges
  BY DEF Change
<1> QED
  BY <1>1, <1>2, <1>3, PastIInv

LEMMA ServeIInv == ASSUME IInv, Serve PROVE IInv'
<1>1. CASE sent.kind = "cancel" /\ IsActive(Now) /\ Now < MaxChanges
  <2>1. past[Now] \notin {"done", "cancelled"}
    BY <1>1 DEF IsActive, StatusAt, Nothing, IInv, TypeOK, Now
  <2> QED
    BY <1>1, <2>1, PastIInv DEF Serve, Statuses
<1>2. CASE sent.kind = "retry" /\ past[Now] = "failed" /\ Now < MaxChanges
  <2>1. past' = Append(past, "queued")
    BY <1>2 DEF Serve
  <2> QED
    BY <1>2, <2>1, PastIInv DEF Serve, Statuses
<1>3. CASE past' = past
  <2> USE DEF IInv, client, history, Serve
  <2>1. TypeOK'
    BY <1>3 DEF TypeOK, Mounted, Shown, StatusAt, WantsResult, KeyOf
  <2>2. SendersHaveTheList'
    BY DEF SendersHaveTheList, TypeOK
  <2>3. EndsAreLast' /\ VersionsArePast' /\ SettledIsPast' /\ OthersSeeNothing'
    BY <1>3 DEF EndsAreLast, VersionsArePast, SettledIsPast, OthersSeeNothing, Now
  <2>4. ResultsAreKnown' /\ DetailsAreInOrder' /\ ListIsNotBehind' /\ DetailIsNotBehind'
    BY DEF ResultsAreKnown, DetailsAreInOrder, ListIsNotBehind, DetailIsNotBehind
  <2> QED
    BY <2>1, <2>2, <2>3, <2>4
<1> QED
  BY <1>1, <1>2, <1>3 DEF Serve
-----------------------------------------------------------------------------
(* The server reads.                                                       *)

LEMMA ReadIInv ==
  ASSUME IInv, NEW f \in Fields, NEW v \in {Nothing, Now}, Read(f, v),
         f # "result" => v = Now,
         f = "result" => v = Now /\ auth \in Owners,
         f = "events" => answer["row"] # Unknown
  PROVE  IInv'
<1> DEFINE w == IF auth \in Owners THEN v ELSE Nothing
<1> USE DEF IInv, client, history, Read
<1>1. /\ answer[f] = Unknown /\ answer' = [answer EXCEPT ![f] = w]
      /\ UNCHANGED <<past, auth, open, fetching, cache, failing, sent, settled, blind>>
  OBVIOUS
<1>2. Now \in 1..MaxChanges /\ w \in {Nothing, Now} /\ w \in Versions /\ w <= Now /\ w # Unknown
  BY ChangesAreBounded DEF TypeOK, Now, Versions, Nothing, Unknown
<1>3. auth \in Auths /\ answer \in [Fields -> Versions] /\ cache \in [Auths -> [Fields -> Versions]]
  BY DEF TypeOK
<1>4. TypeOK'
  BY <1>1, <1>2, <1>3 DEF TypeOK, Mounted, Shown, StatusAt, WantsResult, KeyOf
<1>5. EndsAreLast' /\ VersionsArePast' /\ SettledIsPast' /\ SendersHaveTheList'
  BY <1>1, <1>2, <1>3 DEF EndsAreLast, VersionsArePast, SettledIsPast, SendersHaveTheList, Now
<1>6. OthersSeeNothing'
  BY <1>1, <1>2, <1>3, VersionsAreNumbers DEF OthersSeeNothing, Nothing
<1>7. ResultsAreKnown'
  BY <1>1, <1>2, <1>3 DEF ResultsAreKnown, Nothing
<1>8. \A g \in Fields : cache[auth][g] <= w
  BY <1>2, <1>3 DEF OthersSeeNothing, VersionsArePast
<1>9. settled[auth] <= w
  BY <1>2, <1>3 DEF OthersSeeNothing, SettledIsPast, Nothing
<1>10. answer["row"] <= w
  BY <1>2, <1>3 DEF OthersSeeNothing, VersionsArePast, Fields
<1> HIDE DEF w
<1>11. DetailsAreInOrder'
  BY <1>1, <1>2, <1>3, <1>8, <1>10 DEF DetailsAreInOrder, Fields
<1>12. ListIsNotBehind' /\ DetailIsNotBehind'
  BY <1>1, <1>2, <1>3, <1>9 DEF ListIsNotBehind, DetailIsNotBehind, Fields
<1> QED
  BY <1>4, <1>5, <1>6, <1>7, <1>11, <1>12

LEMMA ReadsIInv ==
  ASSUME IInv, ListJobs \/ GetJob \/ GetAuditEvents \/ GetResult
  PROVE  IInv'
<1>1. CASE ListJobs
  BY <1>1, ReadIInv DEF ListJobs, Fields
<1>2. CASE GetJob
  BY <1>2, ReadIInv DEF GetJob, Fields
<1>3. CASE GetAuditEvents
  BY <1>3, ReadIInv DEF GetAuditEvents, Fields
<1>4. CASE GetResult
  <2>1. auth \in Owners /\ WantsResult(cache[auth]["row"])
    BY <1>4, WhatIsMounted DEF GetResult, IInv, TypeOK, OthersSeeNothing
  <2>2. cache[auth]["row"] \in Versions /\ cache[auth]["row"] <= Now
    BY DEF IInv, TypeOK, VersionsArePast, Fields
  <2>3. past[Now] = "done"
    BY <2>1, <2>2, DoneIsNow
  <2> QED
    BY <1>4, <2>1, <2>3, ReadIInv DEF GetResult, Fields
<1> QED
  BY <1>1, <1>2, <1>3, <1>4
-----------------------------------------------------------------------------
(* The page.                                                               *)

\* Queries that are mounted are fetched again, of which nothing is known yet.
LEMMA FetchForgets ==
  ASSUME TypeOK, NEW S \in SUBSET Queries, Fetch(S)
  PROVE  /\ fetching' = fetching \cup S /\ failing' = failing \ S
         /\ answer' \in [Fields -> Versions]
         /\ \A f \in Fields : answer'[f] = answer[f] \/ answer'[f] = Unknown
         /\ "list" \in S => answer'["list"] = Unknown
         /\ "detail" \in S => answer'["row"] = Unknown /\ answer'["events"] = Unknown
         /\ "detail" \notin S => answer'["row"] = answer["row"] /\ answer'["events"] = answer["events"]
<1> USE DEF Fetch, TypeOK, Fields, Queries
<1>1. answer' \in [Fields -> Versions]
  BY DEF Versions
<1>2. "row" \notin FieldsOf("list") \cup FieldsOf("result") /\ "events" \notin FieldsOf("list") \cup FieldsOf("result")
  BY WhatIsAsked
<1> QED
  BY <1>1, <1>2, WhatIsAsked

\* What an answer that was forgotten no longer says.
LEMMA ForgettingKeeps ==
  ASSUME IInv, answer' \in [Fields -> Versions],
         \A f \in Fields : answer'[f] = answer[f] \/ answer'[f] = Unknown,
         answer'["row"] = Unknown => answer'["events"] = Unknown,
         UNCHANGED <<past, auth, cache, settled>>, open' => open \/ auth \in Owners
  PROVE  /\ EndsAreLast' /\ VersionsArePast' /\ OthersSeeNothing' /\ ResultsAreKnown'
         /\ DetailsAreInOrder' /\ SettledIsPast'
<1> USE DEF IInv, Fields
<1>1. Now' = Now /\ Now \in Nat
  BY DEF Now, TypeOK
<1>2. EndsAreLast' /\ SettledIsPast'
  BY <1>1 DEF EndsAreLast, SettledIsPast
<1>3. VersionsArePast' /\ OthersSeeNothing'
  BY <1>1 DEF VersionsArePast, OthersSeeNothing, Unknown, Nothing
<1>4. ResultsAreKnown'
  BY DEF ResultsAreKnown, Unknown, Nothing
<1>5. DetailsAreInOrder'
  BY DEF DetailsAreInOrder
<1> QED
  BY <1>2, <1>3, <1>4, <1>5

LEMMA RefetchIInv ==
  ASSUME IInv, NEW S \in SUBSET Mounted, Fetch(S),
         UNCHANGED <<past, auth, open, cache, sent, settled>>,
         blind' \in BOOLEAN, blind' => blind, blind => blind' \/ "detail" \in S \/ ~open
  PROVE  IInv'
<1>1. S \in SUBSET Queries
  BY WhatIsMounted
<1>2. /\ fetching' = fetching \cup S /\ failing' = failing \ S
      /\ answer' \in [Fields -> Versions]
      /\ \A f \in Fields : answer'[f] = answer[f] \/ answer'[f] = Unknown
      /\ "list" \in S => answer'["list"] = Unknown
      /\ "detail" \in S => answer'["row"] = Unknown /\ answer'["events"] = Unknown
      /\ "detail" \notin S => answer'["row"] = answer["row"] /\ answer'["events"] = answer["events"]
  BY <1>1, FetchForgets DEF IInv
<1>3. TypeOK'
  <2>1. Mounted' = Mounted
    BY DEF Mounted, Shown, StatusAt, WantsResult, KeyOf
  <2> QED
    BY <1>2, <2>1 DEF IInv, TypeOK
<1>4. EndsAreLast' /\ VersionsArePast' /\ OthersSeeNothing' /\ ResultsAreKnown' /\ DetailsAreInOrder' /\ SettledIsPast'
  BY <1>2, ForgettingKeeps DEF IInv, DetailsAreInOrder
<1>5. SendersHaveTheList'
  BY DEF IInv, SendersHaveTheList
<1>6. ListIsNotBehind'
  BY <1>2 DEF IInv, ListIsNotBehind, Fields
<1>7. DetailIsNotBehind'
  BY <1>2, WhatIsMounted DEF IInv, TypeOK, DetailIsNotBehind
<1> QED
  BY <1>3, <1>4, <1>5, <1>6, <1>7 DEF IInv

LEMMA PollIInv == ASSUME IInv, NEW q \in Queries, Poll(q) PROVE IInv'
<1>1. {q} \in SUBSET Mounted /\ blind' \in BOOLEAN
  BY DEF Poll, IInv, TypeOK
<1> QED
  BY <1>1, RefetchIInv DEF Poll, IInv, TypeOK

LEMMA FocusIInv == ASSUME IInv, Focus PROVE IInv'
<1>1. Mounted \ fetching \in SUBSET Mounted /\ blind' \in BOOLEAN
  BY DEF Focus, IInv, TypeOK
<1>2. blind => blind' \/ "detail" \in Mounted \ fetching \/ ~open
  BY WhatIsMounted DEF Focus, IInv, TypeOK
<1> QED
  BY <1>1, <1>2, RefetchIInv DEF Focus, IInv, TypeOK

LEMMA LoseIInv == ASSUME IInv, NEW q \in Queries, Lose(q) PROVE IInv'
<1> USE DEF IInv, history
<1>1. /\ q \in fetching /\ fetching' = fetching \ {q} /\ failing' = failing \cup {q}
      /\ answer' = [f \in Fields |-> IF f \in FieldsOf(q) THEN Unknown ELSE answer[f]]
      /\ UNCHANGED <<past, auth, open, cache, sent, settled, blind>>
  BY DEF Lose
<1>2. /\ answer' \in [Fields -> Versions]
      /\ \A f \in Fields : answer'[f] = answer[f] \/ answer'[f] = Unknown
      /\ answer'["row"] = Unknown => answer'["events"] = Unknown
  BY <1>1, WhatIsAsked DEF TypeOK, Versions, Fields, Queries, DetailsAreInOrder
<1>3. TypeOK'
  <2>1. Mounted' = Mounted
    BY <1>1 DEF Mounted, Shown, StatusAt, WantsResult, KeyOf
  <2> QED
    BY <1>1, <1>2, <2>1 DEF TypeOK
<1>4. EndsAreLast' /\ VersionsArePast' /\ OthersSeeNothing' /\ ResultsAreKnown' /\ DetailsAreInOrder' /\ SettledIsPast'
  BY <1>1, <1>2, ForgettingKeeps
<1>5. SendersHaveTheList'
  BY <1>1 DEF SendersHaveTheList
<1>6. ListIsNotBehind' /\ DetailIsNotBehind'
  BY <1>1, <1>2 DEF ListIsNotBehind, DetailIsNotBehind, Fields
<1> QED
  BY <1>3, <1>4, <1>5, <1>6

LEMMA SignInIInv == ASSUME IInv, NEW a \in Auths, SignIn(a) PROVE IInv'
<1> USE DEF IInv, SignIn, Mount
<1>1. answer' \in [Fields -> Versions] /\ \A f \in Fields : answer'[f] = Unknown
  BY DEF NoAnswer, Versions
<1>2. TypeOK'
  BY <1>1, WhatIsMounted DEF TypeOK, Mounted
<1>3. EndsAreLast' /\ VersionsArePast' /\ SettledIsPast'
  BY <1>1 DEF EndsAreLast, VersionsArePast, SettledIsPast, Now, TypeOK, Unknown
<1>4. OthersSeeNothing' /\ ResultsAreKnown' /\ DetailsAreInOrder'
  BY <1>1 DEF OthersSeeNothing, ResultsAreKnown, DetailsAreInOrder, Fields, Unknown, Nothing
<1>5. SendersHaveTheList' /\ ListIsNotBehind' /\ DetailIsNotBehind'
  BY <1>1 DEF SendersHaveTheList, ListIsNotBehind, DetailIsNotBehind, Fields
<1> QED
  BY <1>2, <1>3, <1>4, <1>5

LEMMA ClickIInv == ASSUME IInv, NEW kind \in {"cancel", "retry"}, Click(kind) PROVE IInv'
<1> USE DEF IInv, Click, client, history
<1>1. cache[auth]["list"] > Nothing /\ auth \in Owners /\ auth \in Auths
  BY DEF IsActive, Shown, KeyOf, StatusAt, OthersSeeNothing, TypeOK, Fields, Versions, Nothing, Unknown
<1>2. TypeOK'
  BY DEF TypeOK, Mounted, Shown, StatusAt, WantsResult, KeyOf
<1>3. SendersHaveTheList'
  BY <1>1 DEF SendersHaveTheList
<1>4. EndsAreLast' /\ VersionsArePast' /\ OthersSeeNothing' /\ ResultsAreKnown'
  BY DEF EndsAreLast, VersionsArePast, OthersSeeNothing, ResultsAreKnown, Now
<1>5. DetailsAreInOrder' /\ SettledIsPast' /\ ListIsNotBehind' /\ DetailIsNotBehind'
  BY DEF DetailsAreInOrder, SettledIsPast, ListIsNotBehind, DetailIsNotBehind, Now
<1> QED
  BY <1>2, <1>3, <1>4, <1>5

LEMMA ToggleIInv == ASSUME IInv, Toggle PROVE IInv'
<1> USE DEF IInv, Toggle
<1>1. cache[auth]["list"] > Nothing /\ auth \in Owners /\ auth \in Auths
  BY DEF Shown, KeyOf, OthersSeeNothing, TypeOK, Fields, Versions, Nothing, Unknown
<1>2. SendersHaveTheList'
  BY DEF SendersHaveTheList
<1>3. CASE open
  <2>1. /\ open' = FALSE /\ fetching' = fetching \cap {"list"} /\ failing' = failing \cap {"list"}
        /\ answer' = [NoAnswer EXCEPT !["list"] = answer["list"]]
    BY <1>3 DEF TypeOK
  <2>2. answer' \in [Fields -> Versions] /\ \A f \in Fields : answer'[f] = IF f = "list" THEN answer[f] ELSE Unknown
    BY <2>1 DEF NoAnswer, TypeOK, Fields, Versions
  <2>3. TypeOK'
    BY <2>1, <2>2, WhatIsMounted DEF TypeOK, Mounted
  <2>4. EndsAreLast' /\ VersionsArePast' /\ OthersSeeNothing' /\ ResultsAreKnown' /\ DetailsAreInOrder' /\ SettledIsPast'
    BY <2>1, <2>2, ForgettingKeeps DEF Fields
  <2>5. ListIsNotBehind' /\ DetailIsNotBehind'
    BY <2>1, <2>2 DEF ListIsNotBehind, DetailIsNotBehind, Fields
  <2> QED
    BY <1>2, <2>3, <2>4, <2>5
<1>4. CASE ~open
  <2> DEFINE S == {"detail"} \cup {q \in {"result"} : WantsResult(Shown("row"))}
  <2>1. open' = TRUE /\ Fetch(S) /\ S \in SUBSET Queries /\ "detail" \in S /\ "list" \notin S
    BY <1>4 DEF Queries, TypeOK
  <2>2. S \subseteq Mounted' /\ Mounted \subseteq Mounted'
    BY <1>4, <2>1 DEF Mounted, Shown, StatusAt, WantsResult, KeyOf
  <2> HIDE DEF S
  <2>3. /\ fetching' = fetching \cup S /\ failing' = failing \ S
        /\ answer' \in [Fields -> Versions]
        /\ \A f \in Fields : answer'[f] = answer[f] \/ answer'[f] = Unknown
        /\ answer'["row"] = Unknown /\ answer'["events"] = Unknown
    BY <2>1, FetchForgets
  <2>4. TypeOK'
    BY <2>1, <2>2, <2>3 DEF TypeOK
  <2>5. EndsAreLast' /\ VersionsArePast' /\ OthersSeeNothing' /\ ResultsAreKnown' /\ DetailsAreInOrder' /\ SettledIsPast'
    BY <1>1, <2>3, ForgettingKeeps
  <2>6. ListIsNotBehind' /\ DetailIsNotBehind'
    BY <2>1, <2>3 DEF ListIsNotBehind, DetailIsNotBehind, Fields
  <2> QED
    BY <1>2, <2>4, <2>5, <2>6
<1> QED
  BY <1>3, <1>4

\* What the mutation did is behind every fetch that begins now.
LEMMA SettleIInv == ASSUME IInv, Settle PROVE IInv'
<1> DEFINE S == {q \in Invalidates(sent.by) : ~IsFirst(q)}
<1> USE DEF IInv
<1>1. /\ sent # NoMutation /\ Fetch(S) /\ settled' = [settled EXCEPT ![sent.by] = Now]
      /\ blind' = (sent.by = auth /\ IsFirst("detail")) /\ sent' = NoMutation
      /\ UNCHANGED <<past, auth, open, cache>>
  BY DEF Settle
<1>2. sent.by \in Owners /\ sent.by \in Auths /\ cache[sent.by]["list"] > Nothing
  BY <1>1, OwnersAreUsers DEF SendersHaveTheList
<1>3. S \in SUBSET Queries /\ S \subseteq Mounted
  BY WhatIsMounted DEF Invalidates
<1>4. sent.by = auth => "list" \in S
  BY <1>2, WhatIsMounted, WhatIsAsked DEF Invalidates, IsFirst, Shown, KeyOf, Nothing, Unknown
<1>5. sent.by = auth /\ open /\ ~blind' => "detail" \in S
  BY <1>1, WhatIsMounted DEF Invalidates
<1> HIDE DEF S
<1>6. /\ fetching' = fetching \cup S /\ failing' = failing \ S
      /\ answer' \in [Fields -> Versions]
      /\ \A f \in Fields : answer'[f] = answer[f] \/ answer'[f] = Unknown
      /\ "list" \in S => answer'["list"] = Unknown
      /\ "detail" \in S => answer'["row"] = Unknown /\ answer'["events"] = Unknown
      /\ "detail" \notin S => answer'["row"] = answer["row"] /\ answer'["events"] = answer["events"]
  BY <1>1, <1>3, FetchForgets
<1>7. Now \in 0..MaxChanges /\ Now' = Now
  BY <1>1 DEF TypeOK, Now
<1>8. settled' \in [Auths -> 0..MaxChanges] /\ \A a \in Auths : settled'[a] = IF a = sent.by THEN Now ELSE settled[a]
  BY <1>1, <1>2, <1>7 DEF TypeOK
<1>9. TypeOK'
  <2>1. Mounted' = Mounted
    BY <1>1 DEF Mounted, Shown, StatusAt, WantsResult, KeyOf
  <2> QED
    BY <1>1, <1>3, <1>6, <1>8, <2>1 DEF TypeOK
<1>10. EndsAreLast' /\ VersionsArePast' /\ ResultsAreKnown'
  BY <1>1, <1>6, <1>7 DEF EndsAreLast, VersionsArePast, ResultsAreKnown, Fields, Unknown, Nothing, TypeOK
<1>11. OthersSeeNothing'
  <2>1. answer'["list"] = answer["list"] \/ answer'["list"] = Unknown
    BY <1>6 DEF Fields
  <2> QED
    BY <1>1, <1>2, <1>6, <1>8, <2>1 DEF OthersSeeNothing, Unknown, Nothing
<1>12. DetailsAreInOrder' /\ SettledIsPast' /\ SendersHaveTheList'
  BY <1>1, <1>6, <1>7, <1>8 DEF DetailsAreInOrder, SettledIsPast, SendersHaveTheList, TypeOK, Fields
<1>13. auth \in Auths
  BY DEF TypeOK
<1>14. ListIsNotBehind'
  BY <1>1, <1>4, <1>6, <1>8, <1>13 DEF ListIsNotBehind, Fields
<1>15. DetailIsNotBehind'
  <2>1. CASE sent.by = auth
    <3>1. "detail" \in fetching' => open
      BY <1>3, <1>6, WhatIsMounted DEF TypeOK
    <3> QED
      BY <1>1, <1>5, <1>6, <3>1, <2>1 DEF DetailIsNotBehind
  <2>2. CASE sent.by # auth
    BY <1>1, <1>6, <1>8, <1>13, <2>2 DEF DetailIsNotBehind, SendersHaveTheList
  <2> QED
    BY <2>1, <2>2
<1> QED
  BY <1>9, <1>10, <1>11, <1>12, <1>14, <1>15

\* An answer that arrives is as new as it must be: the answers were.
LEMMA ReceiveIInv == ASSUME IInv, NEW q \in Queries, Receive(q) PROVE IInv'
<1> DEFINE E == q = "detail" /\ WantsResult(answer["row"]) /\ "result" \notin Mounted
<1> USE DEF IInv
<1>1. /\ q \in fetching /\ fetching' = (fetching \ {q}) \cup {r \in {"result"} : E}
      /\ failing' = failing \ {q}
      /\ answer' = [f \in Fields |-> IF f \in FieldsOf(q) THEN Unknown ELSE answer[f]]
      /\ \A f \in FieldsOf(q) : answer[f] # Unknown
      /\ cache' = [cache EXCEPT ![auth] = [f \in Fields |-> IF f \in FieldsOf(q) THEN answer[f] ELSE @[f]]]
      /\ UNCHANGED <<past, auth, open, sent, settled, blind>>
  BY DEF Receive, Answered, KeyOf, history
<1>2. auth \in Auths /\ answer \in [Fields -> Versions] /\ cache \in [Auths -> [Fields -> Versions]]
  BY DEF TypeOK
<1>3. /\ answer' \in [Fields -> Versions]
      /\ \A f \in Fields : answer'[f] = IF f \in FieldsOf(q) THEN Unknown ELSE answer[f]
  BY <1>1, <1>2 DEF Versions
<1>4. /\ cache' \in [Auths -> [Fields -> Versions]]
      /\ \A a \in Auths, f \in Fields :
           cache'[a][f] = IF a = auth /\ f \in FieldsOf(q) THEN answer[f] ELSE cache[a][f]
  BY <1>1, <1>2
<1>5. \A f \in Fields : answer[f] <= Now /\ cache[auth][f] <= Now
  BY <1>2 DEF VersionsArePast
<1>6. "list" \in Fields /\ "row" \in Fields /\ "events" \in Fields /\ "result" \in Fields
  BY DEF Fields
<1>7. /\ "list" \in FieldsOf(q) <=> q = "list"
      /\ "row" \in FieldsOf(q) <=> q = "detail"
      /\ "events" \in FieldsOf(q) <=> q = "detail"
  BY WhatIsAsked DEF Queries
<1>8. fetching' \cup failing' \subseteq Mounted'
  <2>1. \A r \in Mounted \ {"result"} : r \in Mounted'
    BY <1>1 DEF Mounted
  <2>2. CASE q = "detail"
    <3>1. open /\ cache'[auth]["row"] = answer["row"]
      BY <1>1, <1>2, <1>4, <1>6, <2>2, <1>7, WhatIsMounted DEF TypeOK
    <3>2. "result" \in Mounted' <=> WantsResult(answer["row"])
      BY <1>1, <3>1 DEF Mounted, Shown, KeyOf, WantsResult, StatusAt
    <3>3. ASSUME "result" \in Mounted PROVE WantsResult(answer["row"])
      <4>1. cache[auth]["row"] = Now
        BY <1>2, <1>5, <1>6, <3>3, WhatIsMounted, DoneIsNow
      <4>2. answer["row"] = Now
        <5>1. answer["row"] # Unknown
          BY <1>1, <2>2, <1>7
        <5>2. Now <= answer["row"] /\ answer["row"] <= Now
          BY <1>5, <1>6, <4>1, <5>1 DEF DetailsAreInOrder
        <5>3. answer["row"] \in Int /\ Now \in Int
          BY <1>2, <1>6, <4>1, VersionsAreNumbers
        <5> QED
          BY <5>2, <5>3
      <4> QED
        BY <3>3, <4>1, <4>2, WhatIsMounted
    <3> QED
      BY <1>1, <2>1, <3>2, <3>3 DEF TypeOK
  <2>3. CASE q # "detail"
    <3>1. cache'[auth]["row"] = cache[auth]["row"]
      BY <1>2, <1>4, <1>6, <2>3, <1>7
    <3>2. Mounted' = Mounted
      BY <1>1, <3>1 DEF Mounted, Shown, KeyOf, WantsResult, StatusAt
    <3> QED
      BY <1>1, <2>3, <3>2 DEF TypeOK
  <2> QED
    BY <2>2, <2>3
<1> HIDE DEF E
<1>9. TypeOK'
  BY <1>1, <1>3, <1>4, <1>8 DEF TypeOK
<1>10. EndsAreLast' /\ VersionsArePast' /\ SettledIsPast'
  BY <1>1, <1>2, <1>3, <1>4, <1>5 DEF EndsAreLast, VersionsArePast, SettledIsPast, Now, Unknown, TypeOK
<1>11. OthersSeeNothing'
  BY <1>1, <1>2, <1>3, <1>4, <1>6 DEF OthersSeeNothing, Unknown, Nothing
<1>12. ResultsAreKnown'
  BY <1>1, <1>2, <1>3, <1>4, <1>6 DEF ResultsAreKnown, Unknown, Nothing
<1>13. DetailsAreInOrder'
  <2>1. \A a \in Auths : cache'[a]["row"] <= cache'[a]["events"]
    <3>1. CASE q = "detail"
      <4>1. answer["row"] <= answer["events"]
        BY <1>1, <1>7, <3>1 DEF DetailsAreInOrder
      <4> QED
        BY <1>4, <1>6, <1>7, <3>1, <4>1 DEF DetailsAreInOrder
    <3>2. CASE q # "detail"
      BY <1>4, <1>6, <1>7, <3>2 DEF DetailsAreInOrder
    <3> QED
      BY <3>1, <3>2
  <2>2. CASE q = "detail"
    <3>1. answer'["row"] = Unknown /\ answer'["events"] = Unknown
      BY <1>3, <1>6, <1>7, <2>2
    <3> QED
      BY <2>1, <3>1 DEF DetailsAreInOrder
  <2>3. CASE q # "detail"
    <3>1. /\ answer'["row"] = answer["row"] /\ answer'["events"] = answer["events"]
          /\ cache'[auth]["row"] = cache[auth]["row"] /\ auth' = auth
      BY <1>1, <1>2, <1>3, <1>4, <1>6, <1>7, <2>3
    <3> QED
      BY <2>1, <3>1 DEF DetailsAreInOrder
  <2> QED
    BY <2>2, <2>3
<1>14. SendersHaveTheList'
  <2> SUFFICES ASSUME sent # NoMutation PROVE cache'[sent.by]["list"] > Nothing
    BY <1>1 DEF SendersHaveTheList
  <2>1. sent.by \in Owners /\ sent.by \in Auths /\ cache[sent.by]["list"] > Nothing
    BY OwnersAreUsers DEF SendersHaveTheList
  <2>2. CASE sent.by = auth /\ q = "list"
    <3>1. answer["list"] # Unknown /\ answer["list"] # Nothing /\ answer["list"] \in Versions
      BY <1>1, <1>2, <1>6, <1>7, <2>1, <2>2 DEF OthersSeeNothing
    <3>2. answer["list"] > Nothing
      BY <3>1, ChangesAreBounded DEF Versions, Unknown, Nothing
    <3> QED
      BY <1>4, <1>6, <1>7, <2>1, <2>2, <3>2
  <2>3. CASE ~(sent.by = auth /\ q = "list")
    BY <1>4, <1>6, <1>7, <2>1, <2>3
  <2> QED
    BY <2>2, <2>3
<1>15. /\ UNCHANGED <<auth, open, settled, blind>> /\ q \in fetching
       /\ q # "list" => ("list" \in fetching' \cup failing' <=> "list" \in fetching \cup failing)
       /\ "detail" \in fetching' => q # "detail" /\ "detail" \in fetching
       /\ q # "detail" => ("detail" \in fetching' \cup failing' <=> "detail" \in fetching \cup failing)
  BY <1>1
<1>16. ListIsNotBehind'
  <2> SUFFICES /\ answer'["list"] # Unknown => answer'["list"] >= settled[auth]
               /\ "list" \notin fetching' \cup failing' => cache'[auth]["list"] >= settled[auth]
    BY <1>15 DEF ListIsNotBehind
  <2>1. CASE q = "list"
    <3>1. answer'["list"] = Unknown /\ cache'[auth]["list"] = answer["list"] /\ answer["list"] # Unknown
      BY <1>1, <1>2, <1>3, <1>4, <1>6, <1>7, <2>1
    <3> QED
      BY ONLY <3>1, IInv DEF IInv, ListIsNotBehind
  <2>2. CASE q # "list"
    <3>1. answer'["list"] = answer["list"] /\ cache'[auth]["list"] = cache[auth]["list"]
      BY <1>2, <1>3, <1>4, <1>6, <1>7, <2>2
    <3> QED
      BY ONLY <3>1, <2>2, <1>15, IInv DEF IInv, ListIsNotBehind
  <2> QED
    BY <2>1, <2>2
<1>17. DetailIsNotBehind'
  <2> SUFFICES ASSUME ~blind
               PROVE  /\ "detail" \in fetching' /\ answer'["row"] # Unknown => answer'["row"] >= settled[auth]
                      /\ open /\ "detail" \notin fetching' \cup failing' => cache'[auth]["row"] >= settled[auth]
    BY <1>15 DEF DetailIsNotBehind
  <2>1. CASE q = "detail"
    <3>1. answer'["row"] = Unknown /\ cache'[auth]["row"] = answer["row"] /\ answer["row"] # Unknown
      BY <1>1, <1>2, <1>3, <1>4, <1>6, <1>7, <2>1
    <3> QED
      BY ONLY <3>1, <2>1, <1>15, IInv, ~blind DEF IInv, DetailIsNotBehind
  <2>2. CASE q # "detail"
    <3>1. answer'["row"] = answer["row"] /\ cache'[auth]["row"] = cache[auth]["row"]
      BY <1>2, <1>3, <1>4, <1>6, <1>7, <2>2
    <3> QED
      BY ONLY <3>1, <2>2, <1>15, IInv, ~blind DEF IInv, DetailIsNotBehind
  <2> QED
    BY <2>1, <2>2
<1> QED
  BY <1>9, <1>10, <1>11, <1>12, <1>13, <1>14, <1>16, <1>17
-----------------------------------------------------------------------------
LEMMA NextIInv == IInv /\ [Next]_vars => IInv'
<1> SUFFICES ASSUME IInv, [Next]_vars PROVE IInv'
  OBVIOUS
<1>1. CASE UNCHANGED vars
  BY <1>1 DEF vars, client, history, IInv, TypeOK, EndsAreLast, VersionsArePast, OthersSeeNothing,
     ResultsAreKnown, DetailsAreInOrder, SendersHaveTheList, SettledIsPast, ListIsNotBehind,
     DetailIsNotBehind, Mounted, Shown, KeyOf, WantsResult, StatusAt, Now
<1> QED
  BY <1>1, ChangeIInv, ReadsIInv, ServeIInv, ReceiveIInv, LoseIInv, PollIInv, FocusIInv,
     ToggleIInv, SettleIInv, SignInIInv, ClickIInv DEF Next

LEMMA AlwaysIInv == Spec => []IInv
BY InitIInv, NextIInv, PTL DEF Spec
-----------------------------------------------------------------------------
(* The theorems.                                                           *)

\* The page's state stays well formed: what is fetched, or failed, is mounted
\* (JobsPanel.tsx, JobDetailPanel.tsx: the enabled observers).
THEOREM ViewTypes == Spec => []TypeOK
BY AlwaysIInv, PTL DEF IInv

\* The page at rest shows what the last mutation did (MutationsAreShown).
THEOREM MutationsShow == Spec => []MutationsAreShown
<1>1. IInv => MutationsAreShown
  BY DEF IInv, MutationsAreShown, ListIsNotBehind, DetailIsNotBehind, Resting, Mounted, Shown, KeyOf
<1> QED
  BY <1>1, AlwaysIInv, PTL

\* A detail that has ended lists the event of its end (EndsAreExplained).
THEOREM EndsHaveEvents == Spec => []EndsAreExplained
<1>1. IInv => EndsAreExplained
  BY OwnersAreUsers DEF IInv, EndsAreExplained, DetailsAreInOrder
<1> QED
  BY <1>1, AlwaysIInv, PTL

\* The 404 of a result that is not there is never met (ResultsAreThere).
THEOREM ResultsAreFound == Spec => []ResultsAreThere
<1>1. IInv => ResultsAreThere
  BY DEF IInv, ResultsAreThere, ResultsAreKnown
<1> QED
  BY <1>1, AlwaysIInv, PTL

\* Another company's user is not shown the job, neither fetched nor left in a
\* cache (JobsStayInTheirCompany).
THEOREM CompaniesAreApart == Spec => []JobsStayInTheirCompany
<1>1. IInv => JobsStayInTheirCompany
  <2> SUFFICES ASSUME IInv, auth \notin Owners, NEW f \in Fields
               PROVE  ~open /\ Shown(f) \in {Unknown, Nothing}
    BY DEF JobsStayInTheirCompany, Fields
  <2> QED
    BY ChangesAreBounded DEF IInv, TypeOK, OthersSeeNothing, Shown, KeyOf, Versions, Unknown, Nothing
<1> QED
  BY <1>1, AlwaysIInv, PTL
=============================================================================
