------------------------------ MODULE KeyedJobs ------------------------------
(***************************************************************************)
(* What POST /jobs promises: a map from the idempotency keys of a company  *)
(* to jobs that only grows, and answers that agree with it at the moment   *)
(* they are given, however many requests carry one key, whatever process   *)
(* fails and whatever reply is lost.                                       *)
(***************************************************************************)
CONSTANTS Companies, Known, Keys, Kinds, Jobs, Requests, None

VARIABLES jobOf, kindOf, asked, code, told

keyedVars == <<jobOf, kindOf, asked, code, told>>

Init ==
  /\ jobOf = [ck \in Companies \X Keys |-> None]
  /\ kindOf = [j \in Jobs |-> None]
  /\ asked = [r \in Requests |-> None]
  /\ code = [r \in Requests |-> 0]
  /\ told = [r \in Requests |-> None]

Ask(r) ==
  /\ asked[r] = None
  /\ asked' \in {[asked EXCEPT ![r] = a] :
                   a \in [company : Companies, key : Keys, kind : Kinds]}
  /\ UNCHANGED <<jobOf, kindOf, code, told>>

\* A request gets its job, perhaps after its client stopped waiting.
Create(r, j) ==
  LET ck == <<asked[r].company, asked[r].key>>
  IN /\ asked[r] # None
     /\ code[r] \in {0, 500}
     /\ asked[r].company \in Known
     /\ jobOf[ck] = None
     /\ \A other \in Companies \X Keys : jobOf[other] # j
     /\ jobOf' = [jobOf EXCEPT ![ck] = j]
     /\ kindOf' = [kindOf EXCEPT ![j] = asked[r].kind]
     /\ UNCHANGED <<asked, code, told>>

\* 201 names the job of the key, 409 says it is of another kind, 429 and 401
\* that there is none; 500 and a lost connection say nothing.
Fits(r, n, j) ==
  LET found == jobOf[<<asked[r].company, asked[r].key>>]
  IN \/ n = 201 /\ found = j /\ j # None /\ kindOf[j] = asked[r].kind
     \/ n = 409 /\ found # None /\ kindOf[found] # asked[r].kind /\ j = None
     \/ n = 429 /\ found = None /\ j = None
     \/ n = 401 /\ asked[r].company \notin Known /\ j = None
     \/ n = 500 /\ j = None

Answer(r) ==
  /\ asked[r] # None /\ code[r] = 0
  /\ \E n \in {201, 401, 409, 429, 500}, j \in Jobs \cup {None} :
       /\ Fits(r, n, j)
       /\ code' = [code EXCEPT ![r] = n]
       /\ told' = [told EXCEPT ![r] = j]
  /\ UNCHANGED <<jobOf, kindOf, asked>>

Next ==
  \E r \in Requests : Ask(r) \/ Answer(r) \/ \E j \in Jobs : Create(r, j)

Spec == Init /\ [][Next]_keyedVars
=============================================================================
