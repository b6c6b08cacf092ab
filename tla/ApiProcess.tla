----------------------------- MODULE ApiProcess -----------------------------
(***************************************************************************)
(* An API container: python -m shared.db.migrate && uvicorn.  After its    *)
(* migrations the process here serves requests until it is told to stop;   *)
(* then it refuses new ones, waits for those in flight and disposes of its *)
(* pool of connections.  The coroutines of one event loop interleave only  *)
(* where they await, the routes run in threads.  Requests may arrive until *)
(* the process is gone, and none of them need ever end.                    *)
(***************************************************************************)
EXTENDS MigrationRunner, FiniteSets, Integers

CONSTANTS here, Requests

ASSUME HereIsARunner == here \in Runners /\ IsFiniteSet(Requests)

VARIABLES
  lifespan,
  shutting_down, in_flight, drained,  \* of GracefulShutdown
  timed_out,                          \* history: drain gave up
  pool,                               \* _pool is there
  request

server == <<lifespan, shutting_down, in_flight, drained, timed_out, pool, request>>
apiVars == <<vars, server>>

ApiTypeOK ==
  /\ TypeOK
  /\ lifespan \in {"off", "serving", "draining", "disposing", "over"}
  /\ shutting_down \in BOOLEAN /\ drained \in BOOLEAN /\ timed_out \in BOOLEAN /\ pool \in BOOLEAN
  /\ in_flight \in Nat
  /\ request \in [Requests -> {"idle", "accepted", "working", "answered", "done", "refused"}]

ApiInit ==
  /\ Init
  /\ lifespan = "off" /\ request = [q \in Requests |-> "idle"]
  /\ in_flight = 0 /\ drained = TRUE
  /\ shutting_down = FALSE /\ timed_out = FALSE /\ pool = FALSE
-----------------------------------------------------------------------------
Serves == lifespan # "off"
Request(q, from, to) == Serves /\ request[q] = from /\ request' = [request EXCEPT ![q] = to]
Lifespan(from, to) == lifespan = from /\ lifespan' = to

\* Up to the yield of the lifespan.
Startup ==
  /\ phase[here] = "up" /\ Lifespan("off", "serving")
  /\ UNCHANGED <<vars, shutting_down, in_flight, drained, timed_out, pool, request>>

\* Mutant: requests are counted and none is refused.
StartAnyway(q) ==
  /\ Request(q, "idle", "accepted")
  /\ in_flight' = in_flight + 1 /\ drained' = FALSE
  /\ UNCHANGED <<vars, lifespan, shutting_down, timed_out, pool>>

\* request_started, and the 503 of the middleware.
RequestStarted(q) ==
  /\ \/ shutting_down /\ Request(q, "idle", "refused") /\ UNCHANGED <<in_flight, drained>>
     \/ /\ ~shutting_down /\ Request(q, "idle", "accepted")
        /\ in_flight' = in_flight + 1 /\ drained' = FALSE
  /\ UNCHANGED <<vars, lifespan, shutting_down, timed_out, pool>>

\* get_db: a thread takes a connection of the pool, and makes the pool if need be.
GetDb(q) ==
  /\ Request(q, "accepted", "working")
  /\ pool' = TRUE
  /\ UNCHANGED <<vars, lifespan, shutting_down, in_flight, drained, timed_out>>

\* call_next returns or raises; what the route writes it has committed.
CallNext(q) ==
  /\ \E from \in {"accepted", "working"} : Request(q, from, "answered")
  /\ UNCHANGED <<vars, lifespan, shutting_down, in_flight, drained, timed_out, pool>>

\* Mutant: the first request that ends sets the event.
FinishCarelessly(q) ==
  /\ Request(q, "answered", "done")
  /\ in_flight' = in_flight - 1 /\ drained' = TRUE
  /\ UNCHANGED <<vars, lifespan, shutting_down, timed_out, pool>>

\* request_finished, in the finally of the middleware.
RequestFinished(q) ==
  /\ Request(q, "answered", "done")
  /\ in_flight' = in_flight - 1
  /\ drained' = (drained \/ in_flight' <= 0)
  /\ UNCHANGED <<vars, lifespan, shutting_down, timed_out, pool>>

\* The lifespan goes on: drain up to its first await.
Drain ==
  /\ Lifespan("serving", IF in_flight <= 0 THEN "disposing" ELSE "draining")
  /\ shutting_down' = TRUE
  /\ UNCHANGED <<vars, in_flight, drained, timed_out, pool, request>>

\* Mutant: the event is awaited without wait_for.
DrainForEver ==
  /\ drained /\ Lifespan("draining", "disposing")
  /\ UNCHANGED <<vars, timed_out, shutting_down, in_flight, drained, pool, request>>

\* wait_for(drained.wait(), timeout)
DrainEnds ==
  /\ Lifespan("draining", "disposing")
  /\ timed_out' = ~drained
  /\ UNCHANGED <<vars, shutting_down, in_flight, drained, pool, request>>

\* dispose_pool
Dispose ==
  /\ Lifespan("disposing", "over")
  /\ pool' = FALSE
  /\ UNCHANGED <<vars, shutting_down, in_flight, drained, timed_out, request>>

\* The process is gone, and its requests with it.
Stopped ==
  /\ lifespan' = "off" /\ request' = [q \in Requests |-> "idle"]
  /\ in_flight' = 0 /\ drained' = TRUE
  /\ shutting_down' = FALSE /\ timed_out' = FALSE /\ pool' = FALSE

Serve ==
  \/ Startup \/ Drain \/ DrainEnds \/ Dispose
  \/ \E q \in Requests : RequestStarted(q) \/ GetDb(q) \/ CallNext(q) \/ RequestFinished(q)

\* Migrations, of this container and of others; the server dies with its process.
Migrations ==
  /\ Next
  /\ IF phase'[here] = "up" \/ lifespan = "off" THEN UNCHANGED server ELSE Stopped

ApiNext == Serve \/ Migrations

ApiSpec == ApiInit /\ [][ApiNext]_apiVars

\* The event loop of a living process runs what is ready, and its timers expire.
\* Nothing says that a request ends.
ApiFairSpec == ApiSpec /\ Fairness /\ WF_server(DrainEnds \/ Dispose)
-----------------------------------------------------------------------------
InFlight == {q \in Requests : request[q] \in {"accepted", "working", "answered"}}

\* The counter is the number of requests between the two ends of the middleware,
\* and the event says that there are none.
CounterIsExact == in_flight = Cardinality(InFlight) /\ (drained <=> in_flight = 0)

\* No request is at work when the pool is disposed of or afterwards, and none
\* makes a new one, unless drain gave up waiting (graceful_shutdown.py: the
\* comment in request_started; docs/api.md, "drena as requests em andamento").
PoolOutlivesRequests ==
  lifespan \in {"disposing", "over"} /\ ~timed_out =>
    /\ \A q \in Requests : request[q] \notin {"accepted", "working"}
    /\ lifespan = "over" => ~pool

\* Requests are served on the schema of all the files, but for what is reverted.
RequestsMeetTheSchema == Serves => \A f \in Files \ reverted : Whole(f)

\* A shutdown ends, however long its requests take.
ShutdownsEnd == lifespan = "draining" ~> lifespan \in {"over", "off"}
=============================================================================
