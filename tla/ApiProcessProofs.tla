-------------------------- MODULE ApiProcessProofs --------------------------
(***************************************************************************)
(* A server that drains loses no request it has counted, and it counts     *)
(* them all.  Its migrations are those of MigrationRunner.                 *)
(***************************************************************************)
EXTENDS ApiProcess, MigrationRunnerProofs, FiniteSetTheorems

Server ==
  /\ lifespan \in {"off", "serving", "draining", "disposing", "over"}
  /\ shutting_down \in BOOLEAN /\ drained \in BOOLEAN /\ timed_out \in BOOLEAN /\ pool \in BOOLEAN
  /\ in_flight \in Nat
  /\ request \in [Requests -> {"idle", "accepted", "working", "answered", "done", "refused"}]

\* Requests are refused from the first step of the drain on, and once it has ended
\* well there are none.
DrainIsFinal ==
  /\ shutting_down <=> lifespan \in {"draining", "disposing", "over"}
  /\ lifespan \in {"disposing", "over"} /\ ~timed_out => InFlight = {}
  /\ lifespan = "over" /\ ~timed_out => ~pool

ServesAfterMigrations == Serves => phase[here] = "up"

ServerInv == Server /\ CounterIsExact /\ DrainIsFinal
ApiInv == IInv /\ ServerInv /\ ServesAfterMigrations
-----------------------------------------------------------------------------
\* The migrations of a container that also serves are those of MigrationRunner.
LEMMA StepsAreMigrations == [ApiNext]_apiVars => [Next]_vars
BY DEF ApiNext, apiVars, Serve, Migrations, Startup, Drain, DrainEnds, Dispose,
       RequestStarted, GetDb, CallNext, RequestFinished

\* A container that serves, dies and starts again is to the database one more
\* runner of migrate.py (api/Dockerfile).
THEOREM Migrates == ApiSpec => Spec
<1>1. ApiInit => Init
  BY DEF ApiInit
<1> QED
  BY <1>1, StepsAreMigrations, PTL DEF ApiSpec, Spec

LEMMA InFlightIsFinite == IsFiniteSet(InFlight) /\ Cardinality(InFlight) \in Nat /\ (Cardinality(InFlight) = 0 <=> InFlight = {})
<1>1. IsFiniteSet(InFlight)
  BY HereIsARunner, FS_Subset DEF InFlight
<1> QED
  BY <1>1, FS_CardinalityType, FS_EmptySet

\* The set of requests in flight, step by step.
LEMMA RequestMoves ==
  ASSUME Server, NEW q \in Requests, NEW to \in {"idle", "accepted", "working", "answered", "done", "refused"},
         request' = [request EXCEPT ![q] = to]
  PROVE  InFlight' = IF to \in {"accepted", "working", "answered"} THEN InFlight \cup {q} ELSE InFlight \ {q}
BY DEF Server, InFlight

LEMMA ServeKeeps ==
  ASSUME ServerInv, Serve
  PROVE  ServerInv'
<1> USE DEF ServerInv
<1>1. CASE Startup
  BY <1>1 DEF Startup, Lifespan, vars, Server, CounterIsExact, DrainIsFinal, InFlight
<1>2. CASE Drain
  <2>1. in_flight <= 0 => InFlight = {}
    BY InFlightIsFinite DEF CounterIsExact, Server
  <2> QED
    BY <1>2, <2>1 DEF Drain, Lifespan, Server, CounterIsExact, DrainIsFinal, InFlight
<1>3. CASE DrainEnds
  <2>1. drained => InFlight = {}
    BY InFlightIsFinite DEF CounterIsExact, Server
  <2> QED
    BY <1>3, <2>1 DEF DrainEnds, Lifespan, Server, CounterIsExact, DrainIsFinal, InFlight
<1>4. CASE Dispose
  BY <1>4 DEF Dispose, Lifespan, Server, CounterIsExact, DrainIsFinal, InFlight
<1>5. ASSUME NEW q \in Requests, RequestStarted(q) PROVE ServerInv'
  <2>1. CASE shutting_down
    <3>1. q \notin InFlight /\ InFlight' = InFlight \ {q}
      BY <1>5, <2>1, RequestMoves DEF RequestStarted, Request, InFlight
    <3>2. InFlight' = InFlight
      BY <3>1
    <3> QED
      BY <1>5, <2>1, <3>2 DEF RequestStarted, Request, Server, CounterIsExact, DrainIsFinal
  <2>2. CASE ~shutting_down
    <3>1. q \notin InFlight /\ InFlight' = InFlight \cup {q}
      BY <1>5, <2>2, RequestMoves DEF RequestStarted, Request, InFlight
    <3>2. Cardinality(InFlight') = Cardinality(InFlight) + 1
      BY <3>1, InFlightIsFinite, FS_AddElement
    <3>3. Server'
      <4>1. /\ request' = [request EXCEPT ![q] = "accepted"]
            /\ in_flight' = in_flight + 1 /\ drained' = FALSE
            /\ UNCHANGED <<lifespan, shutting_down, timed_out, pool>>
        BY <1>5, <2>2 DEF RequestStarted, Request
      <4>2. in_flight' \in Nat
        BY <4>1 DEF Server
      <4>3. drained' \in BOOLEAN
        BY <4>1
      <4>4. request' \in [Requests -> {"idle", "accepted", "working", "answered", "done", "refused"}]
        BY <4>1 DEF Server
      <4> QED
        BY <4>1, <4>2, <4>3, <4>4 DEF Server
    <3>4. CounterIsExact'
      <4>1. in_flight' = in_flight + 1 /\ drained' = FALSE
        BY <1>5, <2>2 DEF RequestStarted
      <4> QED
        BY <3>2, <4>1, InFlightIsFinite DEF CounterIsExact, Server
    <3>5. DrainIsFinal'
      BY <1>5, <2>2 DEF RequestStarted, DrainIsFinal
    <3> QED
      BY <3>3, <3>4, <3>5
  <2> QED
    BY <2>1, <2>2
<1>6. ASSUME NEW q \in Requests, GetDb(q) PROVE ServerInv'
  <2>1. q \in InFlight /\ InFlight' = InFlight
    BY <1>6, RequestMoves DEF GetDb, Request, InFlight
  <2> QED
    BY <1>6, <2>1 DEF GetDb, Request, Server, CounterIsExact, DrainIsFinal
<1>7. ASSUME NEW q \in Requests, CallNext(q) PROVE ServerInv'
  <2>1. q \in InFlight /\ InFlight' = InFlight
    BY <1>7, RequestMoves DEF CallNext, Request, InFlight
  <2> QED
    BY <1>7, <2>1 DEF CallNext, Request, Server, CounterIsExact, DrainIsFinal
<1>8. ASSUME NEW q \in Requests, RequestFinished(q) PROVE ServerInv'
  <2>1. q \in InFlight /\ InFlight' = InFlight \ {q}
    BY <1>8, RequestMoves DEF RequestFinished, Request, InFlight
  <2>2. Cardinality(InFlight') = Cardinality(InFlight) - 1
    BY <2>1, InFlightIsFinite, FS_RemoveElement
  <2>3. in_flight = Cardinality(InFlight) /\ in_flight # 0
    BY <2>1, InFlightIsFinite DEF CounterIsExact
  <2>4. ~drained /\ in_flight' = in_flight - 1 /\ (drained' <=> in_flight' = 0)
    <3>1. ~drained
      BY <2>3 DEF CounterIsExact
    <3>2. in_flight' = in_flight - 1 /\ drained' = (drained \/ in_flight' <= 0)
      BY <1>8 DEF RequestFinished
    <3>3. drained' <=> in_flight' <= 0
      BY <3>1, <3>2, Zenon
    <3>4. in_flight \in Nat
      BY DEF Server
    <3>5. in_flight' <= 0 <=> in_flight' = 0
      BY <2>3, <3>2, <3>4
    <3> QED
      BY <3>1, <3>2, <3>3, <3>5
  <2>5. Server'
    BY <1>8, <2>3, <2>4 DEF RequestFinished, Request, Server
  <2>6. CounterIsExact'
    BY <2>2, <2>3, <2>4 DEF CounterIsExact
  <2>7. DrainIsFinal'
    BY <1>8, <2>1 DEF RequestFinished, DrainIsFinal
  <2> QED
    BY <2>5, <2>6, <2>7
<1> QED
  BY <1>1, <1>2, <1>3, <1>4, <1>5, <1>6, <1>7, <1>8 DEF Serve

LEMMA StoppedIsClean ==
  ASSUME Stopped
  PROVE  ServerInv' /\ ~Serves'
<1>1. InFlight' = {}
  BY DEF Stopped, InFlight
<1> QED
  BY <1>1, FS_EmptySet DEF Stopped, ServerInv, Server, CounterIsExact, DrainIsFinal, Serves

LEMMA InitApiInv == ApiInit => ApiInv
<1> SUFFICES ASSUME ApiInit PROVE ApiInv
  OBVIOUS
<1>1. IInv
  BY InitIInv DEF ApiInit
<1>2. InFlight = {}
  BY DEF ApiInit, InFlight
<1> QED
  BY <1>1, <1>2, FS_EmptySet
  DEF ApiInit, ApiInv, ServerInv, Server, CounterIsExact, DrainIsFinal, ServesAfterMigrations, Serves

LEMMA NextApiInv == ApiInv /\ [ApiNext]_apiVars => ApiInv'
<1> SUFFICES ASSUME ApiInv, [ApiNext]_apiVars PROVE ApiInv'
  OBVIOUS
<1>1. IInv'
  BY StepsAreMigrations, NextIInv DEF ApiInv
<1>2. CASE Serve
  <2>1. UNCHANGED phase
    BY <1>2 DEF Serve, Startup, Drain, DrainEnds, Dispose, RequestStarted, GetDb, CallNext,
                RequestFinished, vars
  <2>2. ServesAfterMigrations'
    <3>1. CASE Startup
      BY <2>1, <3>1 DEF Startup, ServesAfterMigrations
    <3>2. ASSUME ~Startup PROVE Serves
      BY <1>2, <3>2 DEF Serve, Drain, DrainEnds, Dispose, RequestStarted, GetDb, CallNext,
                        RequestFinished, Request, Lifespan, Serves
    <3> QED
      BY <2>1, <3>1, <3>2 DEF ApiInv, ServesAfterMigrations
  <2> QED
    BY <1>1, <1>2, <2>2, ServeKeeps DEF ApiInv
<1>3. CASE Migrations
  <2>1. CASE UNCHANGED server /\ (phase'[here] = "up" \/ lifespan = "off")
    BY <1>1, <2>1 DEF ApiInv, ServerInv, Server, CounterIsExact, DrainIsFinal, InFlight, server,
                      ServesAfterMigrations, Serves
  <2>2. CASE Stopped
    BY <1>1, <2>2, StoppedIsClean DEF ApiInv, ServesAfterMigrations
  <2> QED
    BY <1>3, <2>1, <2>2 DEF Migrations
<1>4. CASE UNCHANGED apiVars
  BY <1>1, <1>4 DEF ApiInv, ServerInv, Server, CounterIsExact, DrainIsFinal, InFlight, apiVars, vars, server,
                    ServesAfterMigrations, Serves
<1> QED
  BY <1>2, <1>3, <1>4 DEF ApiNext

\* The inductive invariant of the container, on top of the runner's
\* (api/main.py: lifespan; graceful_shutdown.py).
THEOREM ApiInvariance == ApiSpec => []ApiInv
BY InitApiInv, NextApiInv, PTL DEF ApiSpec
-----------------------------------------------------------------------------
\* The server's variables stay in their ranges; the counter is never negative.
THEOREM ApiTypes == ApiSpec => []ApiTypeOK
<1>1. ApiInv => ApiTypeOK
  BY DEF ApiInv, IInv, ServerInv, Server, ApiTypeOK
<1> QED
  BY <1>1, ApiInvariance, PTL

\* in_flight and the event drained agree with the requests, however many.
THEOREM CountersAreExact == ApiSpec => []CounterIsExact
<1>1. ApiInv => CounterIsExact
  BY DEF ApiInv, ServerInv
<1> QED
  BY <1>1, ApiInvariance, PTL

\* No request is cut off by a shutdown whose drain ended well.
THEOREM DrainsLoseNothing == ApiSpec => []PoolOutlivesRequests
<1>1. ApiInv => PoolOutlivesRequests
  BY DEF ApiInv, ServerInv, DrainIsFinal, PoolOutlivesRequests, InFlight
<1> QED
  BY <1>1, ApiInvariance, PTL

\* The order of the container's command carries over to every request.
THEOREM RequestsFindTheSchema == ApiSpec => []RequestsMeetTheSchema
<1>1. ApiInv => RequestsMeetTheSchema
  BY WholeSchema, HereIsARunner
  DEF ApiInv, ServesAfterMigrations, ServesOnWholeSchema, RequestsMeetTheSchema
<1> QED
  BY <1>1, ApiInvariance, PTL

\* The migrations of a serving container, like all others, keep the ledger's order.
THEOREM ApiKeepsTheLedger == ApiSpec => []LedgerIsAPrefix
BY Migrates, LedgersAreInOrder, PTL

\* And its truth.
THEOREM ApiKeepsTheLedgerTrue == ApiSpec => []LedgerTellsTheSchema
BY Migrates, LedgersAreTrue, PTL
=============================================================================
