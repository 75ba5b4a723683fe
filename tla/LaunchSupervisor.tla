-------------------------- MODULE LaunchSupervisor --------------------------
(***************************************************************************)
(* One launch of a distributed pipeline: PythonLaunchSupervisor starts the *)
(* stages in order through one WorkerTunnelLaunchAgent per worker, and     *)
(* tears the route down when it is stopped, cancelled, or loses a stage.   *)
(*                                                                         *)
(*   distribution/launch-supervisor.ts           state, rec, rb, called    *)
(*   distribution/worker-tunnel-launch-agent.ts  tun                       *)
(*   coordinator/worker-hub.ts                   hub                       *)
(*   WorkerRuntime                               the workers               *)
(*                                                                         *)
(* A step is one turn of the coordinator's event loop.  Promises that      *)
(* settle inside it run their continuations before the next turn, so the   *)
(* supervisor reacts to a frame, a close or an abort within the step.      *)
(***************************************************************************)
EXTENDS WorkerRuntime

VARIABLES
    state,   \* PythonLaunchSupervisor.state
    rec,     \* the process records' states
    tun,     \* agent.start and its handle: none, preparing, rejected, open, closed
    rb,      \* the record rollbackInternal is at, 0 when it is not running
    called,  \* has it called that record's handle.stop?
    hub,     \* is the worker's connection registered and ready?
    past     \* history: has the worker rejoined inside its grace?

supervisorVars == <<state, rec, tun, rb, called, hub, past>>
vars == <<workerVars, supervisorVars>>

States  == {"idle", "starting", "running", "stopping", "stopped", "failed"}
Records == {"pending", "starting", "ready", "stopping", "stopped", "failed"}

\* record.handle is set.
Held(p) == tun[p] \in {"open", "closed"}

Terminal == state \in {"stopped", "failed"} /\ rb = 0

Init ==
    /\ WorkerInit
    /\ state = "idle"
    /\ rec = [p \in Stages |-> "pending"]
    /\ tun = [p \in Stages |-> "none"]
    /\ rb = 0
    /\ called = FALSE
    /\ hub = [w \in Stages |-> TRUE]
    /\ past = [w \in Stages |-> "clean"]

\* hub.send to the workers of a set: the frame is lost on a dead socket.
Sent(d, W, m) ==
    [w \in Stages |-> IF w \in W /\ sock[w] = "open" THEN Append(d[w], m) ELSE d[w]]

\* Variant: the await of the preparation does not listen to the signal.
AbortedKeepingPreparation(t) == t

\* controller.abort: WorkerTunnelLaunchAgent's listeners reject a preparation
\* that is awaited and send runtime.stop for every pending start at once.
Aborted(t) == [p \in Stages |-> IF t[p] = "preparing" THEN "rejected" ELSE t[p]]
AbortStops(d, t) == Sent(d, {p \in Stages : t[p] = "open"}, "stop")

\* The catch of startInternal, failRunning, or stopInternal: settle the active
\* record, abort, and begin the rollback with the last record.
Unwind(s, r, t, d) ==
    /\ state' = s
    /\ rec' = [p \in Stages |->
                  IF r[p] # "starting" THEN r[p]
                  ELSE IF s = "failed" THEN "failed"
                  ELSE IF t[p] = "open" THEN r[p] ELSE "stopped"]
    /\ tun' = Aborted(t)
    /\ down' = AbortStops(d, t)
    /\ rb' = N
    /\ called' = FALSE

\* The head of startInternal's loop for record p: agent.start asks the worker
\* to prepare, and throws when the worker is not connected.
StartRecord(p, r, t, d) ==
    IF hub[p]
    THEN /\ state' = "starting"
         /\ rec' = [r EXCEPT ![p] = "starting"]
         /\ tun' = [t EXCEPT ![p] = "preparing"]
         /\ down' = Sent(d, {p}, "prepare")
         /\ UNCHANGED <<rb, called>>
    ELSE Unwind("failed", [r EXCEPT ![p] = "starting"],
                [t EXCEPT ![p] = "rejected"], d)

Start ==
    /\ state = "idle"
    /\ StartRecord(1, rec, tun, down)
    /\ UNCHANGED <<job, child, accepts, due, sock, up, cuts, losses, hub, past>>

\* stop(): from idle there is nothing to undo; a launch in progress is
\* cancelled; otherwise the call joins what is already under way.
Stop ==
    /\ \/ /\ state = "idle"
          /\ state' = "stopped"
          /\ UNCHANGED <<rec, tun, down, rb, called>>
       \/ state \in {"starting", "running"} /\ Unwind("stopping", rec, tun, down)
    /\ UNCHANGED <<job, child, accepts, due, sock, up, cuts, losses, hub, past>>

\* LaunchReadinessTimeoutError.
ReadinessTimeout ==
    /\ state = "starting"
    /\ Unwind("failed", rec, tun, down)
    /\ UNCHANGED <<job, child, accepts, due, sock, up, cuts, losses, hub, past>>

-----------------------------------------------------------------------------
\* handleEnvelope: the next frame of worker w.
Arrives(w, m) ==
    /\ up[w] # <<>>
    /\ Head(up[w]) = m
    /\ up' = [up EXCEPT ![w] = Tail(@)]
    /\ UNCHANGED <<job, child, accepts, due, sock, cuts, losses, hub, past>>

Ignore == UNCHANGED <<state, rec, tun, rb, called, down>>

\* runtime.prepared: agent.start goes on to send runtime.start and returns its
\* handle, or rejects.
OnPrepared(w) ==
    /\ Arrives(w, "prepared")
    /\ IF tun[w] # "preparing" THEN Ignore
       ELSE /\ tun' = [tun EXCEPT ![w] = "open"]
            /\ down' = Sent(down, {w}, "start")
            /\ UNCHANGED <<state, rec, rb, called>>

OnUnprepared(w) ==
    /\ Arrives(w, "unprepared")
    /\ IF tun[w] # "preparing" THEN Ignore
       ELSE Unwind("failed", rec, [tun EXCEPT ![w] = "rejected"], down)

\* runtime.ready: the record becomes ready and the loop goes on to the next
\* one, or the launch is running.
OnReady(w) ==
    /\ Arrives(w, "ready")
    /\ IF ~(tun[w] = "open" /\ rec[w] = "starting" /\ state = "starting") THEN Ignore
       ELSE LET r == [rec EXCEPT ![w] = "ready"]
            IN  IF w < N THEN StartRecord(w + 1, r, tun, down)
                ELSE /\ state' = "running"
                     /\ rec' = r
                     /\ UNCHANGED <<tun, rb, called, down>>

\* The exited promise of an open handle settles: waitUntilReady rejects, or
\* onProcessExit fails a launch that is starting or running.
HandleLost(w) ==
    LET t == [tun EXCEPT ![w] = "closed"]
    IN  IF state \in {"starting", "running"}
        THEN Unwind("failed", [rec EXCEPT ![w] = "failed"], t, down)
        ELSE tun' = t /\ UNCHANGED <<state, rec, rb, called, down>>

\* runtime.exited.
OnExited(w) ==
    /\ Arrives(w, "exited")
    /\ IF tun[w] = "open" THEN HandleLost(w) ELSE Ignore

\* Variant: a disconnect rejects preparations only.
HubNoticesPreparing(w) ==
    /\ hub[w] /\ sock[w] # "open"
    /\ hub' = [hub EXCEPT ![w] = FALSE]
    /\ IF tun[w] = "preparing"
       THEN Unwind("failed", rec, [tun EXCEPT ![w] = "rejected"], down)
       ELSE Ignore
    /\ UNCHANGED <<job, child, accepts, due, sock, up, cuts, losses, past>>

\* The hub's close handler emits disconnect, and onDisconnect rejects the
\* preparation or the pending start of that worker.
HubNotices(w) ==
    /\ hub[w] /\ sock[w] # "open"
    /\ hub' = [hub EXCEPT ![w] = FALSE]
    /\ CASE tun[w] = "open" -> HandleLost(w)
         [] tun[w] = "preparing" ->
               Unwind("failed", rec, [tun EXCEPT ![w] = "rejected"], down)
         [] OTHER -> Ignore
    /\ UNCHANGED <<job, child, accepts, due, sock, up, cuts, losses, past>>

\* A worker.hello on a new connection.  If the hub has not noticed the old
\* connection's end it supersedes it, and no disconnect is ever emitted.
Reconnect(w) ==
    /\ Rejoin(w)
    /\ hub' = [hub EXCEPT ![w] = TRUE]
    /\ past' = [past EXCEPT ![w] = IF hub[w] \/ @ = "superseded"
                                   THEN "superseded" ELSE "rejoined"]
    /\ UNCHANGED <<state, rec, tun, rb, called>>

-----------------------------------------------------------------------------
\* rollbackInternal: one record after the other, from the last to the first.
RollbackDone ==
    /\ rb' = rb - 1
    /\ called' = FALSE
    /\ state' = IF rb = 1 /\ state = "stopping" THEN "stopped" ELSE state

\* A record without a handle is skipped.
RollbackSkip ==
    /\ rb > 0 /\ ~Held(rb)
    /\ RollbackDone
    /\ UNCHANGED <<workerVars, rec, tun, hub, past>>

\* handle.stop: runtime.stop is sent again for a start that is still pending.
RollbackStop ==
    /\ rb > 0 /\ Held(rb) /\ ~called
    /\ called' = TRUE
    /\ rec' = IF rec[rb] = "failed" THEN rec ELSE [rec EXCEPT ![rb] = "stopping"]
    /\ down' = IF tun[rb] = "open" THEN Sent(down, {rb}, "stop") ELSE down
    /\ UNCHANGED <<job, child, accepts, due, sock, up, cuts, losses,
                   state, tun, rb, hub, past>>

\* ... and awaited until the exited promise settles.
RollbackStopped ==
    /\ rb > 0 /\ called /\ tun[rb] = "closed"
    /\ RollbackDone
    /\ rec' = IF rec[rb] = "failed" THEN rec ELSE [rec EXCEPT ![rb] = "stopped"]
    /\ UNCHANGED <<workerVars, tun, hub, past>>

\* Variant: a stop the hub accepted is never given up.
StopTimeoutOffline(w) ==
    /\ tun[w] = "open" /\ state \notin {"starting", "running"} /\ ~hub[w]
    /\ tun' = [tun EXCEPT ![w] = "closed"]
    /\ UNCHANGED <<workerVars, state, rec, rb, called, hub, past>>

\* worker_tunnel_stop_timeout: the stop is given up after timeoutMs.
StopTimeout(w) ==
    /\ tun[w] = "open" /\ state \notin {"starting", "running"}
    /\ tun' = [tun EXCEPT ![w] = "closed"]
    /\ UNCHANGED <<workerVars, state, rec, rb, called, hub, past>>

\* The coordinator's progress: its rollback and readiness timer, and what it
\* does about one worker.
RouteProgress == RollbackSkip \/ RollbackStop \/ RollbackStopped \/ ReadinessTimeout

TunnelProgress(w) ==
    \/ OnPrepared(w) \/ OnUnprepared(w) \/ OnReady(w) \/ OnExited(w)
    \/ HubNotices(w) \/ StopTimeout(w)

Next ==
    \/ Start \/ Stop \/ RouteProgress
    \/ \E w \in Stages : TunnelProgress(w) \/ Reconnect(w)
    \/ \E w \in Stages : (WorkerProgress(w) \/ WorkerChance(w)) /\ UNCHANGED supervisorVars

Spec == Init /\ [][Next]_vars

\* Every turn of the two event loops, every timer and every signal to a child
\* eventually happens; a stage need not become ready, the connection need not
\* come back, and nobody has to stop the launch.
FairSpec ==
    /\ Spec
    /\ WF_vars(RouteProgress)
    /\ \A w \in Stages :
        /\ WF_vars(TunnelProgress(w))
        /\ WF_vars(WorkerProgress(w) /\ UNCHANGED supervisorVars)

-----------------------------------------------------------------------------
TypeOK ==
    /\ job \in [Stages -> Jobs]
    /\ child \in [Stages -> Children]
    /\ accepts \in [Stages -> BOOLEAN]
    /\ due \in [Stages -> SUBSET {"grace", "pause", "leave"}]
    /\ sock \in [Stages -> {"open", "dead", "closed", "left"}]
    /\ down \in [Stages -> Seq({"prepare", "start", "stop"})]
    /\ up \in [Stages -> Seq({"prepared", "unprepared", "ready", "exited"})]
    /\ cuts \in 0 .. MaxCuts
    /\ losses \in 0 .. MaxLosses
    /\ state \in States
    /\ rec \in [Stages -> Records]
    /\ tun \in [Stages -> {"none", "preparing", "rejected", "open", "closed"}]
    /\ rb \in 0 .. N
    /\ called \in BOOLEAN
    /\ hub \in [Stages -> BOOLEAN]
    /\ past \in [Stages -> {"clean", "rejoined", "superseded"}]

\* A launch that reports running has every stage ready behind an open handle:
\* no exit or disconnect of an earlier stage, arriving while a later one was
\* still being started, has been swallowed.
RunningIsReady ==
    state = "running" => \A p \in Stages : rec[p] = "ready" /\ tun[p] = "open"

\* When the launch has settled, every record has a final state and no handle or
\* agent.start is left open on the coordinator, whichever of stop, timeout,
\* exit and disconnect came first.
SettledIsFinal ==
    Terminal => \A p \in Stages : /\ rec[p] \in {"pending", "stopped", "failed"}
                                  /\ tun[p] \notin {"preparing", "open"}

\* No stage is started once the launch has been cancelled or has failed: an
\* answer to runtime.prepare that arrives after the abort does not send
\* runtime.start.
NoStartAfterAbort ==
    [][state \notin {"idle", "starting", "running"} =>
          \A w \in Stages : down'[w] # Append(down[w], "start")]_vars

\* A launch that was started runs or settles: no rollback waits forever for a
\* worker that lost the stop or whose answer was lost.
LaunchSettles == state \notin {"idle", "running"} ~> (state = "running" \/ Terminal)

\* A stage that is dead under a launch still running: it stays so until the
\* launch ends, for a launch starts each stage once.
Unnoticed(w) == state = "running" /\ child[w] = "dead"

\* A stage that dies under a running launch ends it, but for two cases in which
\* the supervisor is never told: the worker's connection was superseded before
\* the hub noticed its end, so that the lost runtime.exited is not made up for
\* by a disconnect; or the worker was paused, and its reset disowned the handle
\* before stopping it.
DeadStageEndsLaunch ==
    []<>(\A w \in Stages : Unnoticed(w) => past[w] = "superseded" \/ ~accepts[w])

\* The same without the second exception.
StageDeathIsDetected ==
    []<>(\A w \in Stages : Unnoticed(w) => past[w] = "superseded")

\* Once the launch has settled every stage process is eventually gone, unless
\* its worker rejoined inside the reconnect grace: the coordinator forgot the
\* start at the disconnect, and the rejoin cancels the worker's own reset.
StagesAreReaped ==
    Terminal ~> \A w \in Stages : child[w] \notin Living \/ past[w] # "clean"

\* The same without the exception.
NoStageOutlivesLaunch ==
    Terminal ~> \A w \in Stages : child[w] \notin Living

\* The route is stopped from its last stage to its first: a stop is sent to a
\* stage only when no later stage still has an open handle.
StopsInReverse ==
    [][\A p \in Stages : down'[p] = Append(down[p], "stop") =>
          \A q \in Stages : q > p => tun[q] # "open"]_vars
=============================================================================
