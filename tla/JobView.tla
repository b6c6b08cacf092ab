-------------------------------- MODULE JobView --------------------------------
(***************************************************************************)
(* What the web client shows of one job, and how it learns that the job    *)
(* went on: JobsPanel.tsx (the list, its mutations), JobDetailPanel.tsx    *)
(* (detail and result), jobQueries.ts (keys, polling, invalidation), api.ts*)
(* (requests) and the reads of the server, service.py.                     *)
(*                                                                         *)
(* The caches are TanStack Query's, of which this is modelled: one cache   *)
(* per key; a query is fetched when it is mounted or enabled, whatever the *)
(* cache has; to invalidate it starts its fetch again, but for a first one *)
(* that is under way; who leaves a query aborts its fetch; a fetch that    *)
(* fails leaves the data.  A fetch stands for its retries.                 *)
(*                                                                         *)
(* An answer is the version of the job it was read at, an index of "past". *)
(***************************************************************************)
EXTENDS Integers, Sequences

CONSTANTS
  Auths,      \* identities of the user: FAKE_USERS of auth.ts
  Owners,     \* those of the job's company
  MaxChanges  \* bound on the changes of the job

ASSUME OwnersAreUsers == Owners \subseteq Auths
ASSUME ChangesAreBounded == MaxChanges \in Nat \ {0}

Unknown == -1  \* no answer, or no data yet
Nothing == 0   \* an answer without the job

VARIABLES
  past,      \* the statuses the job has had
  auth,      \* who the page is for
  open,      \* whether the job's panel is expanded
  fetching,  \* queries being fetched
  answer,    \* what the server has read for them
  cache,     \* data of each identity's queries
  failing,   \* mounted queries whose last fetch failed
  sent,      \* the mutation under way, or NoMutation
  settled,   \* version when each identity's last mutation settled (history)
  blind      \* it settled under the fetch of the detail, its first (history)

client == <<auth, open, fetching, cache, failing>>
history == <<settled, blind>>
vars == <<past, client, answer, sent, history>>

Queries == {"list", "detail", "result"}
Fields == {"list", "row", "events", "result"}  \* a detail is read in two statements
NoMutation == [kind |-> "none", by |-> "nobody", served |-> FALSE]
Versions == {Unknown, Nothing} \cup 1..MaxChanges

NoAnswer == [f \in Fields |-> Unknown]

Init ==
  /\ past = <<"queued">>
  /\ auth \in Auths
  /\ open = FALSE
  /\ fetching = {"list"}
  /\ answer = NoAnswer
  /\ cache = [a \in Auths |-> NoAnswer]
  /\ failing = {}
  /\ sent = NoMutation
  /\ settled = [a \in Auths |-> 0]
  /\ blind = FALSE
-----------------------------------------------------------------------------
Now == Len(past)
StatusAt(v) == IF v > Nothing THEN past[v] ELSE "unknown"

FieldsOf(q) == IF q = "detail" THEN {"row", "events"} ELSE {q}

\* Mutant: keys without the identity.
OneKey(a) == CHOOSE b \in Auths : TRUE

\* jobQueryKeys: the identity is part of every key.
KeyOf(a) == a

Shown(f) == cache[KeyOf(auth)][f]

\* Mutant: a queued job is not polled for.
IsRunning(v) == StatusAt(v) = "running"

\* shouldPollActiveJobs
IsActive(v) == StatusAt(v) \in {"queued", "running"}

\* Mutant: the result is asked for with the detail.
WantsResultAlways(v) == v = v

\* enabled: detail.data?.status === "done"
WantsResult(v) == StatusAt(v) = "done"

\* The queries the page has observers of, enabled.
Mounted == {"list"} \cup {q \in {"detail"} : open}
                    \cup {q \in {"result"} : open /\ WantsResult(Shown("row"))}

TypeOK ==
  /\ past \in Seq({"queued", "running", "done", "failed", "cancelled"})
  /\ Len(past) \in 1..MaxChanges
  /\ auth \in Auths
  /\ open \in BOOLEAN
  /\ fetching \cup failing \subseteq Mounted
  /\ answer \in [Fields -> Versions]
  /\ cache \in [Auths -> [Fields -> Versions]]
  /\ sent \in {NoMutation} \cup [kind : {"cancel", "retry"}, by : Auths, served : BOOLEAN]
  /\ settled \in [Auths -> 0..MaxChanges]
  /\ blind \in BOOLEAN

\* The fetches of some queries begin, or begin again.
Fetch(queries) ==
  /\ fetching' = fetching \cup queries
  /\ answer' = [f \in Fields |-> IF \E q \in queries : f \in FieldsOf(q) THEN Unknown ELSE answer[f]]
  /\ failing' = failing \ queries

\* The queries of the page become others, all fetched anew.
Mount(queries) ==
  /\ fetching' = queries
  /\ answer' = NoAnswer
  /\ failing' = {}
-----------------------------------------------------------------------------
(* The server.                                                             *)

\* What JobQueue makes of a job: claims and ends, and what others ask of it.
Successors(s) ==
  CASE s = "queued" -> {"running", "cancelled"}
    [] s = "running" -> {"done", "failed", "cancelled"}
    [] s = "failed" -> {"queued"}
    [] OTHER -> {}

Change ==
  /\ Now < MaxChanges
  /\ \E s \in Successors(past[Now]) : past' = Append(past, s)
  /\ UNCHANGED <<client, answer, sent, history>>

Read(f, v) ==
  /\ answer[f] = Unknown
  /\ answer' = [answer EXCEPT ![f] = IF auth \in Owners THEN v ELSE Nothing]
  /\ UNCHANGED <<past, client, sent, history>>

\* list_jobs, with the company of the identity.
ListJobs == "list" \in fetching /\ Read("list", Now)

\* get_job: the row, ...
GetJob == "detail" \in fetching /\ Read("row", Now)

\* Mutant: the events are not read after the row.
GetEventsAnyTime == "detail" \in fetching /\ Read("events", Now)

\* ... and then _get_audit_events, a statement by itself.  An event is written
\* with the change it tells of.
GetAuditEvents == "detail" \in fetching /\ answer["row"] # Unknown /\ Read("events", Now)

\* get_result: 404 before there is one.
GetResult ==
  /\ "result" \in fetching
  /\ Read("result", IF past[Now] = "done" THEN Now ELSE Nothing)

\* cancel_job and retry_job, or the 409 of an illegal one.
Serve ==
  /\ sent # NoMutation /\ ~sent.served
  /\ sent' = [sent EXCEPT !.served = TRUE]
  /\ past' = CASE sent.kind = "cancel" /\ IsActive(Now) /\ Now < MaxChanges -> Append(past, "cancelled")
               [] sent.kind = "retry" /\ past[Now] = "failed" /\ Now < MaxChanges -> Append(past, "queued")
               [] OTHER -> past
  /\ UNCHANGED <<client, answer, history>>
-----------------------------------------------------------------------------
(* The page.                                                               *)

Answered(q) == \A f \in FieldsOf(q) : answer[f] # Unknown

\* An answer arrives; a detail that is done enables the result.
Receive(q) ==
  /\ q \in fetching /\ Answered(q)
  /\ cache' = [cache EXCEPT ![KeyOf(auth)] =
                 [f \in Fields |-> IF f \in FieldsOf(q) THEN answer[f] ELSE @[f]]]
  /\ LET enables == q = "detail" /\ WantsResult(answer["row"]) /\ "result" \notin Mounted
     IN /\ fetching' = (fetching \ {q}) \cup {r \in {"result"} : enables}
        /\ answer' = [f \in Fields |-> IF f \in FieldsOf(q) THEN Unknown ELSE answer[f]]
        /\ failing' = failing \ {q}
  /\ UNCHANGED <<past, auth, open, sent, history>>

\* The request and its retries failed, as when their answers are lost; a 404 is
\* an answer.
Lose(q) ==
  /\ q \in fetching /\ Answered(q)
  /\ fetching' = fetching \ {q}
  /\ answer' = [f \in Fields |-> IF f \in FieldsOf(q) THEN Unknown ELSE answer[f]]
  /\ failing' = failing \cup {q}
  /\ UNCHANGED <<past, auth, open, cache, sent, history>>

\* refetchInterval of the list and of the detail.
Poll(q) ==
  /\ q \in {"list", "detail"} \cap (Mounted \ fetching)
  /\ IsActive(Shown(IF q = "list" THEN "list" ELSE "row"))
  /\ Fetch({q})
  /\ blind' = (blind /\ q # "detail")
  /\ UNCHANGED <<past, auth, open, cache, sent, settled>>

\* refetchOnWindowFocus
Focus ==
  /\ Mounted \ fetching # {}
  /\ Fetch(Mounted \ fetching)
  /\ blind' = (blind /\ "detail" \in fetching)
  /\ UNCHANGED <<past, auth, open, cache, sent, settled>>

\* onToggle of the job's row.
Toggle ==
  /\ Shown("list") > Nothing
  /\ open' = ~open
  /\ IF open
       THEN /\ fetching' = fetching \cap {"list"}
            /\ answer' = [NoAnswer EXCEPT !["list"] = answer["list"]]
            /\ failing' = failing \cap {"list"}
       ELSE Fetch({"detail"} \cup {q \in {"result"} : WantsResult(Shown("row"))})
  /\ blind' = FALSE
  /\ UNCHANGED <<past, auth, cache, sent, settled>>

\* setAuth: other keys, and the panel is closed (visibleExpanded).
SignIn(a) ==
  /\ a # auth
  /\ auth' = a
  /\ open' = FALSE
  /\ Mount({"list"})
  /\ blind' = FALSE
  /\ UNCHANGED <<past, cache, sent, settled>>

\* The row's button, which is there for its status and disabled while busy.
Click(kind) ==
  /\ sent = NoMutation
  /\ IF kind = "cancel" THEN IsActive(Shown("list")) ELSE StatusAt(Shown("list")) = "failed"
  /\ sent' = [kind |-> kind, by |-> auth, served |-> FALSE]
  /\ UNCHANGED <<past, client, answer, history>>

\* A first fetch, which has no data to fall back on, is not begun again.
IsFirst(q) == q \in fetching /\ \A f \in FieldsOf(q) : Shown(f) = Unknown

\* Mutant: the list alone is invalidated.
InvalidatesList(a) == IF a = auth THEN {"list"} ELSE {}

\* getJobMutationInvalidationKeys, of the mounted queries; the others are
\* fetched when they are mounted.
Invalidates(a) == IF a = auth THEN Mounted ELSE {}

\* onSettled of both mutations, with the identity captured when they started,
\* after an answer, a refusal or a lost reply.
Settle ==
  /\ sent # NoMutation
  /\ Fetch({q \in Invalidates(sent.by) : ~IsFirst(q)})
  /\ settled' = [settled EXCEPT ![sent.by] = Now]
  /\ blind' = (sent.by = auth /\ IsFirst("detail"))
  /\ sent' = NoMutation
  /\ UNCHANGED <<past, auth, open, cache>>
-----------------------------------------------------------------------------
Next ==
  \/ Change \/ ListJobs \/ GetJob \/ GetAuditEvents \/ GetResult \/ Serve
  \/ \E q \in Queries : Receive(q) \/ Lose(q) \/ Poll(q)
  \/ Focus \/ Toggle \/ Settle
  \/ \E a \in Auths : SignIn(a)
  \/ \E kind \in {"cancel", "retry"} : Click(kind)

Spec == Init /\ [][Next]_vars

\* Timers fire, the server reads, and of the answers to who asks again and again
\* some arrive: not every one is lost, or made void by another press.
Fairness ==
  /\ WF_vars(Poll("list") \/ ListJobs) /\ SF_vars(Receive("list"))
  /\ WF_vars(Poll("detail") \/ GetJob) /\ SF_vars(GetAuditEvents) /\ SF_vars(Receive("detail"))

FairSpec == Spec /\ Fairness
-----------------------------------------------------------------------------
(* Properties.                                                             *)

Unended(v) == StatusAt(v) \in {"queued", "running"}

Resting(q) == q \in Mounted \ (fetching \cup failing)

\* After a mutation settled, with or without its reply, the page that is at
\* rest shows what it did, in the list and in the detail, whichever fetches were
\* under way and without the help of the polls.  The exception is a detail whose
\* first fetch was (JobsPanel.tsx: onSettled; jobQueries.ts:
\* getJobMutationInvalidationKeys; docs/web.md, "Ações por estado").
MutationsAreShown ==
  /\ Resting("list") => Shown("list") >= settled[auth]
  /\ Resting("detail") /\ ~blind => Shown("row") >= settled[auth]

\* A detail that has ended, which is not polled for any more, lists the event
\* of its end (service.py: get_job, the events read after the row).
EndsAreExplained ==
  \A a \in Owners :
    cache[a]["row"] > Nothing /\ ~Unended(cache[a]["row"]) => cache[a]["events"] >= cache[a]["row"]

\* A result is asked for only when it is there, so the 404 that nobody asks
\* again after is never met (JobDetailPanel.tsx: enabled, retry: false).
ResultsAreThere == \A a \in Auths : cache[a]["result"] # Nothing

\* Another company's user is never shown the job, neither fetched nor left in a
\* cache (jobQueries.ts: jobQueryKeys; service.py: company_id in every read).
JobsStayInTheirCompany ==
  auth \notin Owners => ~open /\ \A f \in Fields : Shown(f) \in {Unknown, Nothing}

\* A list or a detail never shows an active job for ever while the job has gone
\* on, unless the user leaves (JobsPanel.tsx, JobDetailPanel.tsx:
\* refetchInterval).
Follows(a, q, f) ==
  []<>(auth # a \/ q \notin Mounted \/ ~Unended(Shown(f)) \/ Shown(f) = Now)

ActiveJobsAreFollowed ==
  \A a \in Owners : Follows(a, "list", "list") /\ Follows(a, "detail", "row")
=============================================================================
