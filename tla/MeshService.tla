----------------------------- MODULE MeshService -----------------------------
(***************************************************************************)
(* The coordinator's job service (src/coordinator/mesh-service.ts) over    *)
(* the job table of src/storage/store.ts and the admission test of         *)
(* src/scheduler/scheduler.ts.  A job is leased to one worker at a time;   *)
(* when the worker rejects, fails, falls silent or disconnects, the job    *)
(* moves to the next preplanned standby, which must replay the tokens the  *)
(* client already holds before it may add new ones.                        *)
(*                                                                         *)
(* The service runs on one event loop, so one action is one whole handler. *)
(* Workers are an arbitrary environment here: any envelope may arrive for  *)
(* any lease that was ever granted, at any time and any number of times.   *)
(***************************************************************************)
EXTENDS Integers, Sequences, FiniteSets

CONSTANTS
    Jobs,             \* job identifiers, each used by at most one submit
    Workers,          \* registered workers
    Sessions,         \* client sessions
    Keys,             \* idempotency keys
    Tokens,           \* texts of token events
    MaxTokens,        \* output limit of a request, in token events
    MaxStandby,       \* maxStandbyRoutes
    MaxConcurrency,   \* min(worker, deployment) concurrency
    Stages,           \* Stages[w]: nodes the pipeline deployed on w runs on
    NoJob, NoKey, NoWorker

ASSUME ConstantsOK ==
    /\ MaxTokens \in Nat /\ MaxStandby \in Nat /\ MaxConcurrency \in Nat
    /\ Stages \in [Workers -> SUBSET Workers]
    /\ NoJob \notin Jobs /\ NoKey \notin Keys /\ NoWorker \notin Workers

VARIABLES
    \* tables of the database, kept over a coordinator restart
    status, worker, lease,            \* jobs
    keyJob,                           \* idempotency_keys
    \* the request each job is submitted with: its session, and whether it
    \* carries an integer seed
    session, seeded,
    \* memory of the service: the runtimes map and the sessions in use
    live,              \* jobs that have a runtime
    plan, routeIndex,  \* preplanned routes; index of the current one, from 1
    output,            \* outputTokens
    replay,            \* replayPrefix; null is the record with no tokens
    leaseTimer, firstTokenTimer,      \* jobs with that timer armed
    activeSessions,
    lost,              \* jobs a running disconnect handler has yet to retry
    \* what the service sees of the workers
    conn, health,
    \* what it has told the client, and two histories
    events,            \* events pushed to the job's queue
    issued,            \* issued[j][n]: worker that lease n of j was granted to
    heard              \* tokens accepted under the current lease

request == <<session, seeded>>
world   == <<conn, health>>
vars    == <<status, worker, lease, keyJob, request, live, plan, routeIndex,
             output, replay, leaseTimer, firstTokenTimer, activeSessions, lost,
             world, events, issued, heard>>

Active   == {"leasing", "running", "streaming"}
NonTerminal == {"queued"} \union Active
Terminal == {"completed", "failed", "cancelled", "expired"}

NoReplay == [tokens |-> <<>>, next |-> 0]
TokenEvent(i, t) == [type |-> "token", index |-> i, text |-> t]
PlainEvent(type) == [type |-> type, index |-> 0, text |-> NoKey]

-----------------------------------------------------------------------------
(* Admission *)

\* countActiveJobs
ActiveOn(w) == {j \in Jobs : worker[j] = w /\ status[j] \in Active}

HasRoomNoRecount(w) == TRUE

HasRoom(w) == Cardinality(ActiveOn(w)) < MaxConcurrency

\* isConnected: a connection that had a heartbeat ("pending" is before it)
\* counts as connected even while its socket is closing.
Connected(w) == conn[w] \in {"ready", "closing"}

\* isRouteCurrentlyEligible for the one-stage route on w, with the connected
\* workers as candidates.  health abstracts the store's view of w: "offline"
\* is not schedulable, "eligible" passes evidence, slots, context and memory.
\* It is only looked at while w is connected, and "offline" otherwise.
Eligible(w) ==
    /\ health[w] = "eligible" /\ Connected(w)
    /\ HasRoom(w)
    /\ \A n \in Stages[w] : health[n] # "offline" /\ Connected(n)

\* hub.send reaches a worker only over an open socket.
CanSend(w) == conn[w] = "ready"

IsInjectivePlan(p) == \A m, n \in 1..Len(p) : p[m] = p[n] => m = n

IsAnyPlan(p) == TRUE

\* selectRoutePlan excludes the workers of every route it has chosen.
IsDisjointPlan(p) == IsInjectivePlan(p)

\* The plans the scheduler may choose: any order, since scores are data.
Plans ==
    {p \in UNION {[1..n -> Workers] : n \in 1..(1 + MaxStandby)} :
        IsDisjointPlan(p) /\ \A n \in DOMAIN p : Eligible(p[n])}

-----------------------------------------------------------------------------
Init ==
    /\ status = [j \in Jobs |-> "none"]
    /\ worker = [j \in Jobs |-> NoWorker]
    /\ lease = [j \in Jobs |-> 0]
    /\ session \in [Jobs -> Sessions] /\ seeded \in [Jobs -> BOOLEAN]
    /\ keyJob = [k \in Keys |-> NoJob]
    /\ live = {}
    /\ plan = [j \in Jobs |-> <<>>]
    /\ routeIndex = [j \in Jobs |-> 0]
    /\ output = [j \in Jobs |-> <<>>]
    /\ replay = [j \in Jobs |-> NoReplay]
    /\ leaseTimer = {} /\ firstTokenTimer = {}
    /\ activeSessions = [s \in Sessions |-> NoJob]
    /\ lost = {}
    /\ conn = [w \in Workers |-> "down"]
    /\ health = [w \in Workers |-> "offline"]
    /\ events = [j \in Jobs |-> <<>>]
    /\ issued = [j \in Jobs |-> <<>>]
    /\ heard = [j \in Jobs |-> <<>>]

-----------------------------------------------------------------------------
(* Endings and leases *)

FinishRuntimeLeakingSession(j) ==
    /\ live' = live \ {j}
    /\ leaseTimer' = leaseTimer \ {j}
    /\ firstTokenTimer' = firstTokenTimer \ {j}
    /\ plan' = [plan EXCEPT ![j] = <<>>]
    /\ routeIndex' = [routeIndex EXCEPT ![j] = 0]
    /\ replay' = [replay EXCEPT ![j] = NoReplay]
    /\ UNCHANGED activeSessions

\* finishRuntime: timers cleared, session released, runtime deleted.  The
\* output of a deleted runtime is kept for the properties only.
FinishRuntime(j) ==
    /\ live' = live \ {j}
    /\ leaseTimer' = leaseTimer \ {j}
    /\ firstTokenTimer' = firstTokenTimer \ {j}
    /\ plan' = [plan EXCEPT ![j] = <<>>]
    /\ routeIndex' = [routeIndex EXCEPT ![j] = 0]
    /\ replay' = [replay EXCEPT ![j] = NoReplay]
    /\ activeSessions' =
          [activeSessions EXCEPT ![session[j]] = IF @ = j THEN NoJob ELSE @]

\* The job ends with outcome st and its queue with an event of this type.
End(j, st, type) ==
    /\ status' = [status EXCEPT ![j] = st]
    /\ events' = [events EXCEPT ![j] = Append(@, PlainEvent(type))]
    /\ FinishRuntime(j)
    /\ UNCHANGED <<worker, lease, output, issued, heard>>

\* failRuntime: "expired" for deadline_exceeded, "failed" for any other code.
FailRuntime(j, st) == End(j, st, "failed")

\* The part of dispatch that grants: route i of the plan, under a new lease.
GrantLease(j, w) ==
    /\ status' = [status EXCEPT ![j] = "leasing"]
    /\ worker' = [worker EXCEPT ![j] = w]
    /\ lease' = [lease EXCEPT ![j] = @ + 1]
    /\ issued' = [issued EXCEPT ![j] = Append(@, w)]
    /\ heard' = [heard EXCEPT ![j] = <<>>]
    /\ leaseTimer' = leaseTimer \union {j}
    /\ firstTokenTimer' = firstTokenTimer \ {j}

\* The first route of p from index n on that dispatch can offer.  Trying a
\* route whose socket is closing fails at once and moves on to the next one;
\* the lease written for it is overwritten before the handler returns.
Offerable(p, n) == {i \in n..Len(p) : Eligible(p[i]) /\ CanSend(p[i])}
IsFirst(i, S) == i \in S /\ \A k \in S : i <= k

\* retryOrFail: everything the client holds must be reproduced first.
ReplayPrefix(j) == [tokens |-> output[j], next |-> 0]

\* Committed output may only be replayed from a deterministic seed.
MayMove(j) == output[j] = <<>> \/ seeded[j]

RetryOrFail(j) ==
    LET choices == Offerable(plan[j], routeIndex[j] + 1) IN
    \/ /\ ~MayMove(j) \/ choices = {}
       /\ FailRuntime(j, "failed")
    \/ /\ MayMove(j)
       /\ \E i \in choices :
            /\ IsFirst(i, choices)
            /\ GrantLease(j, plan[j][i])
            /\ routeIndex' = [routeIndex EXCEPT ![j] = i]
            /\ replay' = [replay EXCEPT ![j] = ReplayPrefix(j)]
            /\ UNCHANGED <<live, plan, output, activeSessions, events>>
    \* dispatch finds that the deadline passed before its timer fired
    \/ /\ MayMove(j) /\ \E i \in (routeIndex[j] + 1)..Len(plan[j]) : Eligible(plan[j][i])
       /\ FailRuntime(j, "expired")

-----------------------------------------------------------------------------
(* Client operations *)

KeyFreeUnchecked(k) == TRUE

\* An idempotency key that is bound to a job refuses every later submit.
KeyFree(k) == k # NoKey => keyJob[k] = NoJob

SessionFree(s) == activeSessions[s] = NoJob

BindKey(k, j) == keyJob' = [x \in Keys |-> IF x = k THEN j ELSE keyJob[x]]

\* submit with no route: the job is failed and its key stays bound.
SubmitWithoutRoute(j, k) ==
    /\ lost = {} /\ status[j] = "none"
    /\ SessionFree(session[j]) /\ KeyFree(k)
    /\ Plans = {}
    /\ BindKey(k, j)
    /\ status' = [status EXCEPT ![j] = "failed"]
    /\ UNCHANGED <<worker, lease, request, live, plan, routeIndex, output, replay,
                   leaseTimer, firstTokenTimer, activeSessions, lost, world,
                   events, issued, heard>>

\* submit: the job row, the runtime and the "accepted" event are created and
\* the first offerable route of the plan is offered; with none, or with the
\* deadline already passed, the job ends at once.
Submit(j, k, p) ==
    LET choices == Offerable(p, 1) IN
    /\ lost = {} /\ status[j] = "none"
    /\ SessionFree(session[j]) /\ KeyFree(k)
    /\ p \in Plans
    /\ BindKey(k, j)
    /\ \/ \E i \in choices :
            /\ IsFirst(i, choices)
            /\ GrantLease(j, p[i])
            /\ routeIndex' = [routeIndex EXCEPT ![j] = i]
            /\ plan' = [plan EXCEPT ![j] = p]
            /\ live' = live \union {j}
            /\ activeSessions' = [activeSessions EXCEPT ![session[j]] = j]
            /\ events' = [events EXCEPT ![j] = <<PlainEvent("accepted")>>]
       \/ \E st \in {"failed", "expired"} :
            /\ st = "failed" => choices = {}
            /\ status' = [status EXCEPT ![j] = st]
            /\ events' = [events EXCEPT ![j] =
                             <<PlainEvent("accepted"), PlainEvent("failed")>>]
            /\ UNCHANGED <<worker, lease, issued, heard, leaseTimer, firstTokenTimer,
                           routeIndex, plan, live, activeSessions>>
    /\ UNCHANGED <<request, output, replay, lost, world>>

\* cancel, also reached through cancelMatchingActiveSession.
Cancel(j) ==
    /\ lost = {} /\ j \in live
    /\ End(j, "cancelled", "failed")
    /\ UNCHANGED <<keyJob, request, lost, world>>

-----------------------------------------------------------------------------
(* Envelopes from workers.  Lease n of j can only be quoted by the worker it *)
(* was granted to: the hub stamps envelopes with the connection's worker.    *)

\* validJobEnvelope
ValidJobEnvelope(j, n) ==
    /\ worker[j] = issued[j][n] /\ lease[j] = n
    /\ status[j] \in NonTerminal

\* What the handlers of an envelope of lease n of j have in common; an
\* envelope that fails this test changes nothing.
Receives(j, n) ==
    /\ lost = {} /\ j \in live
    /\ ValidJobEnvelope(j, n)
    /\ UNCHANGED <<keyJob, request, lost, world>>

ArmsNoTimer(j) == UNCHANGED firstTokenTimer

ArmsFirstTokenTimer(j) == firstTokenTimer' = firstTokenTimer \union {j}

OnLeaseAccepted(j, n) ==
    /\ Receives(j, n)
    /\ leaseTimer' = leaseTimer \ {j}
    /\ ArmsFirstTokenTimer(j)
    /\ status' = [status EXCEPT ![j] = "running"]
    /\ UNCHANGED <<worker, lease, live, plan, routeIndex, output, replay,
                   activeSessions, events, issued, heard>>

\* onLeaseRejected and onFailure
OnRejectOrFailure(j, n) == Receives(j, n) /\ RetryOrFail(j)

Advance(r) ==
    IF r.next + 1 = Len(r.tokens) THEN NoReplay
    ELSE [tokens |-> r.tokens, next |-> r.next + 1]

ReplaysAnyText(r, i, t) == i = r.next

\* The standby must repeat the committed tokens one by one.
Replays(r, i, t) == i = r.next /\ t = r.tokens[r.next + 1]

ExtendsAtAnyIndex(j, i) == Len(output[j]) < MaxTokens

Extends(j, i) == i = Len(output[j]) /\ Len(output[j]) < MaxTokens

TakesToken(j, n, t) ==
    /\ Receives(j, n)
    /\ heard' = [heard EXCEPT ![j] = Append(@, t)]
    /\ leaseTimer' = leaseTimer \ {j} /\ firstTokenTimer' = firstTokenTimer \ {j}
    /\ UNCHANGED <<worker, lease, live, plan, routeIndex, activeSessions, issued>>

\* A replayed token is checked and kept from the client.
OnReplayedToken(j, n, i, t) ==
    /\ TakesToken(j, n, t)
    /\ replay[j] # NoReplay /\ Replays(replay[j], i, t)
    /\ replay' = [replay EXCEPT ![j] = Advance(@)]
    /\ UNCHANGED <<status, output, events>>

OnNewToken(j, n, i, t) ==
    /\ TakesToken(j, n, t)
    /\ replay[j] = NoReplay /\ Extends(j, i)
    /\ output' = [output EXCEPT ![j] = Append(@, t)]
    /\ events' = [events EXCEPT ![j] = Append(@, TokenEvent(i, t))]
    /\ status' = [status EXCEPT ![j] = IF i = 0 THEN "streaming" ELSE @]
    /\ UNCHANGED replay

\* replay_prefix_mismatch, invalid_stream
OnInvalidToken(j, n, i, t) ==
    /\ Receives(j, n)
    /\ IF replay[j] # NoReplay THEN ~Replays(replay[j], i, t) ELSE ~Extends(j, i)
    /\ FailRuntime(j, "failed")

OnToken(j, n, i, t) ==
    OnReplayedToken(j, n, i, t) \/ OnNewToken(j, n, i, t) \/ OnInvalidToken(j, n, i, t)

ReplayIsDone(j) == replay[j] = NoReplay

\* onComplete; ok is the verdict of validateCompletion on text and metrics.
OnComplete(j, n, ok) ==
    /\ Receives(j, n)
    /\ IF ReplayIsDone(j) /\ ok THEN End(j, "completed", "completed")
                                ELSE FailRuntime(j, "failed")

-----------------------------------------------------------------------------
(* Timers *)

LeaseTimeout(j) ==
    /\ lost = {} /\ j \in live \intersect leaseTimer
    /\ RetryOrFail(j)
    /\ UNCHANGED <<keyJob, request, lost, world>>

\* The timer re-checks on firing: armed again by a late "accept", it is idle
\* once output has begun and no replay is under way.
FirstTokenTimeout(j) ==
    /\ lost = {} /\ j \in live \intersect firstTokenTimer
    /\ IF output[j] # <<>> /\ replay[j] = NoReplay
       THEN /\ firstTokenTimer' = firstTokenTimer \ {j}
            /\ UNCHANGED <<status, worker, lease, live, plan, routeIndex, output, replay,
                           leaseTimer, activeSessions, events, issued, heard>>
       ELSE RetryOrFail(j)
    /\ UNCHANGED <<keyJob, request, lost, world>>

DeadlineBeforeOutput(j) ==
    /\ lost = {} /\ j \in live /\ output[j] = <<>>
    /\ FailRuntime(j, "expired")
    /\ UNCHANGED <<keyJob, request, lost, world>>

Deadline(j) ==
    /\ lost = {} /\ j \in live
    /\ FailRuntime(j, "expired")
    /\ UNCHANGED <<keyJob, request, lost, world>>

-----------------------------------------------------------------------------
(* The hub's view of the workers *)

service == <<status, worker, lease, keyJob, request, live, plan, routeIndex, output, replay,
             leaseTimer, firstTokenTimer, activeSessions, events, issued, heard>>

\* A hello makes its socket the connection of w.  It takes the place of an
\* older one without a disconnect being reported for that, then or later.
Hello(w) ==
    /\ lost = {} /\ conn[w] # "pending"
    /\ conn' = [conn EXCEPT ![w] = "pending"]
    /\ health' = [health EXCEPT ![w] = "offline"]
    /\ UNCHANGED <<service, lost>>

\* A heartbeat: the first one makes the connection ready.
Heartbeat(w, h) ==
    /\ lost = {} /\ conn[w] # "down"
    /\ conn' = [conn EXCEPT ![w] = IF @ = "pending" THEN "ready" ELSE @]
    /\ health' = [health EXCEPT ![w] = h]
    /\ UNCHANGED <<service, lost>>

\* The stale-worker sweep, a lapse of evidence, or a deregistration.
HealthDrops(w, h) ==
    /\ lost = {} /\ conn[w] # "down" /\ health[w] # "offline" /\ h # "eligible"
    /\ health' = [health EXCEPT ![w] = h]
    /\ UNCHANGED <<service, lost, conn>>

\* The coordinator closes the socket; the close event comes later.
SocketCloses(w) ==
    /\ lost = {} /\ conn[w] = "ready"
    /\ conn' = [conn EXCEPT ![w] = "closing"]
    /\ UNCHANGED <<service, lost, health>>

StagesAffected(w) == {j \in live : w \in Stages[worker[j]]}

LoseNothing(w, registered) == {}

\* handleWorkerDisconnect: the jobs leased to w, then those whose pipeline
\* runs a stage on w, provided that the store still knows the node of w.
\* They are retried one by one by RetryLost.
Lose(w, registered) ==
    ActiveOn(w) \union (IF registered THEN StagesAffected(w) ELSE {})

Detach(w, registered) ==
    /\ lost = {} /\ conn[w] # "down"
    /\ conn' = [conn EXCEPT ![w] = "down"]
    /\ health' = [health EXCEPT ![w] = "offline"]
    /\ lost' = Lose(w, registered)
    /\ UNCHANGED service

\* handleClose of the current connection; removeWorker calls it too.
Disconnect(w) == Detach(w, TRUE)

\* worker.goodbye deregisters w before it reports the disconnect.  The same
\* happens when a connection closes whose worker was deregistered meanwhile,
\* by the goodbye of an older socket.
Goodbye(w) == Detach(w, FALSE)

\* One turn of handleWorkerDisconnect's loops.  Nothing else runs until they
\* are done; the query they start from has no order.
RetryLost(j) ==
    /\ j \in lost /\ j \in live
    /\ lost' = lost \ {j}
    /\ RetryOrFail(j)
    /\ UNCHANGED <<keyJob, request, world>>

\* The coordinator stops, between two handlers or inside the disconnect
\* handler, and starts again: memory and connections are gone, and the
\* constructor fails every job it finds unfinished.
Restart ==
    /\ lost' = {}
    /\ status' = [j \in Jobs |-> IF status[j] \in NonTerminal THEN "failed" ELSE status[j]]
    /\ live' = {} /\ leaseTimer' = {} /\ firstTokenTimer' = {}
    /\ plan' = [j \in Jobs |-> <<>>]
    /\ routeIndex' = [j \in Jobs |-> 0]
    /\ replay' = [j \in Jobs |-> NoReplay]
    /\ activeSessions' = [s \in Sessions |-> NoJob]
    /\ conn' = [w \in Workers |-> "down"]
    /\ health' = [w \in Workers |-> "offline"]
    /\ UNCHANGED <<worker, lease, keyJob, request, output, events, issued, heard>>

-----------------------------------------------------------------------------
Leases(j) == 1..Len(issued[j])
Healths == {"offline", "online", "eligible"}

JobStep(j) ==
    \/ \E k \in Keys \union {NoKey} :
          SubmitWithoutRoute(j, k) \/ \E p \in Plans : Submit(j, k, p)
    \/ Cancel(j) \/ LeaseTimeout(j) \/ FirstTokenTimeout(j) \/ Deadline(j) \/ RetryLost(j)
    \/ \E n \in Leases(j) :
          \/ OnLeaseAccepted(j, n) \/ OnRejectOrFailure(j, n)
          \/ \E i \in 0..MaxTokens, t \in Tokens : OnToken(j, n, i, t)
          \/ \E ok \in BOOLEAN : OnComplete(j, n, ok)

WorkerStep(w) ==
    \/ Hello(w) \/ \E h \in Healths : Heartbeat(w, h) \/ HealthDrops(w, h)
    \/ SocketCloses(w) \/ Disconnect(w) \/ Goodbye(w)

Next == (\E j \in Jobs : JobStep(j)) \/ (\E w \in Workers : WorkerStep(w)) \/ Restart

Spec == Init /\ [][Next]_vars

-----------------------------------------------------------------------------
(* Fairness: a due timer callback runs after the handler that is running, so  *)
(* handlers cannot hold it off for ever although they interrupt its being     *)
(* enabled; a disconnect handler that has begun finishes.                     *)
Fairness == \A j \in Jobs : SF_vars(Deadline(j)) /\ WF_vars(RetryLost(j))

FairSpec == Spec /\ Fairness

-----------------------------------------------------------------------------
(* Properties *)

Replay == [tokens : Seq(Tokens), next : Nat]
Event  == [type : {"accepted", "token", "completed", "failed"},
           index : Nat, text : Tokens \union {NoKey}]

\* Every variable stays in the set its declaration in the code promises.
TypeOK ==
    /\ status \in [Jobs -> {"none"} \union NonTerminal \union Terminal]
    /\ worker \in [Jobs -> Workers \union {NoWorker}]
    /\ lease \in [Jobs -> Nat]
    /\ keyJob \in [Keys -> Jobs \union {NoJob}]
    /\ session \in [Jobs -> Sessions] /\ seeded \in [Jobs -> BOOLEAN]
    /\ live \subseteq Jobs /\ lost \subseteq Jobs
    /\ leaseTimer \subseteq Jobs /\ firstTokenTimer \subseteq Jobs
    /\ plan \in [Jobs -> Seq(Workers)] /\ routeIndex \in [Jobs -> Nat]
    /\ output \in [Jobs -> Seq(Tokens)] /\ heard \in [Jobs -> Seq(Tokens)]
    /\ replay \in [Jobs -> Replay]
    /\ activeSessions \in [Sessions -> Jobs \union {NoJob}]
    /\ conn \in [Workers -> {"down", "pending", "ready", "closing"}]
    /\ health \in [Workers -> Healths]
    /\ events \in [Jobs -> Seq(Event)]
    /\ issued \in [Jobs -> Seq(Workers)]

\* The memory of the service and the database agree (submit, finishRuntime,
\* recoverOrphanedJobs): exactly the unfinished jobs have a runtime, each one
\* holds its session, and no session is held by anything else.  A job that
\* ended without releasing its session would make the session busy for ever.
RuntimesMatchRows ==
    /\ \A j \in Jobs : j \in live <=> status[j] \in NonTerminal
    /\ \A j \in live : activeSessions[session[j]] = j
    /\ \A s \in Sessions : activeSessions[s] # NoJob =>
          activeSessions[s] \in live /\ session[activeSessions[s]] = s

SplicedJob(j) ==
    /\ j \in live =>
          IF replay[j] = NoReplay THEN heard[j] = output[j]
          ELSE /\ replay[j].tokens = output[j] /\ replay[j].next < Len(output[j])
               /\ heard[j] = SubSeq(output[j], 1, replay[j].next)
    /\ status[j] = "completed" => heard[j] = output[j]

\* The splice of failover (retryOrFail, onToken): whatever has been failed
\* over, lost or repeated, the tokens accepted under the current lease are a
\* prefix of what the client holds, and all of it once no replay is pending.
\* So a completed answer is the whole output of the one lease that completed.
SplicedStream == \A j \in Jobs : SplicedJob(j)

Ending(st) == PlainEvent(IF st = "completed" THEN "completed" ELSE "failed")

StreamOf(j) ==
    LET n == Len(output[j]) IN
    /\ events[j][1] = PlainEvent("accepted")
    /\ \A i \in 1..n : events[j][i + 1] = TokenEvent(i - 1, output[j][i])
    /\ \/ Len(events[j]) = n + 1 /\ status[j] \in Active \union {"failed"}
       \/ /\ Len(events[j]) = n + 2 /\ status[j] \in Terminal
          /\ events[j][n + 2] = Ending(status[j])

\* What the client's queue holds (submit, onToken, finishRuntime): "accepted",
\* then the output tokens numbered from 0 without gap or repetition over all
\* leases, then at most one ending, which comes last and matches the job row.
\* Only a coordinator that restarts leaves a stream without an ending.
ClientSeesOneStream == \A j \in Jobs : events[j] # <<>> => StreamOf(j)

\* No worker is offered the same job twice (selectRoutePlan, retryOrFail).
\* task.cancel names only the job, so a second offer could be revoked by the
\* cancel of the first, and its tokens could not be told from stale ones.
NoSecondOffer == \A j \in Jobs : IsInjectivePlan(issued[j])

\* The job table never counts more jobs on a worker than it has slots for
\* (dispatch re-checks eligibility at every grant, including failovers of
\* several jobs by one disconnect).
WithinConcurrency == \A w \in Workers : Cardinality(ActiveOn(w)) <= MaxConcurrency

\* While the current lease has produced nothing, one of the two short timers
\* is running (dispatch, onLeaseAccepted, onToken): a silent worker is
\* noticed before the deadline of the request.
SilenceIsWatched ==
    \A j \in live : heard[j] = <<>> => j \in leaseTimer \union firstTokenTimer

\* Between handlers, the worker of every unfinished job has a connection in
\* the hub (handleClose, handleWorkerDisconnect, worker.hello), so that its
\* loss will be reported: no disconnect, supersession or failover onto a
\* leaving worker strands a lease on a worker nobody watches.
LeasesAreAttached == lost = {} => \A j \in live : conn[worker[j]] # "down"

\* The same for the nodes that run stages of the job's pipeline.  A worker
\* that says goodbye leaves such jobs behind.
StagesAreAttached ==
    lost = {} => \A j \in live : \A n \in Stages[worker[j]] : conn[n] # "down"

\* Endings are final (validJobEnvelope, promoteJobRoute, finishRuntime): no
\* late envelope, timer, failover or restart changes the outcome of a job or
\* adds to its stream, and a bound idempotency key keeps its job.
EndingsAreFinal ==
    [][/\ \A j \in Jobs : status[j] \in Terminal =>
             status'[j] = status[j] /\ events'[j] = events[j]
       /\ \A k \in Keys : keyJob[k] # NoJob => keyJob'[k] = keyJob[k]]_vars

\* Output that has been committed without a seed stays with the worker that
\* produced it (retryOrFail): such a job never gets another lease.
UnseededOutputStays ==
    [][\A j \in Jobs : output[j] # <<>> /\ ~seeded[j] => lease'[j] = lease[j]]_vars

\* Every job that is accepted ends (deadline timer): no loss of workers,
\* messages or connections leaves it, or its session, pending for ever.
JobsEnd == \A j \in Jobs : j \in live ~> j \notin live

=============================================================================
