---------------------------- MODULE WorkerRuntime ----------------------------
(***************************************************************************)
(* The worker's half of a distributed launch: the messages runtime.prepare,*)
(* runtime.start and runtime.stop of one launch, the stage process they    *)
(* create, and the resets that dispose of it.                              *)
(*                                                                         *)
(*   worker/agent.ts             the handlers and the disconnect grace     *)
(*   distribution/launch-supervisor.ts   LocalProcessHandle (child)        *)
(*   coordinator/worker-hub.ts   the connection as each end sees it        *)
(*                                                                         *)
(* Every worker hosts one stage of the launch, so a worker and its stage   *)
(* share a number.  The actions here leave the coordinator's variables to  *)
(* the module that composes the two sides.                                 *)
(***************************************************************************)
EXTENDS Integers, Sequences

CONSTANTS
    N,          \* stages of the launch, in launchOrder
    MaxCuts,    \* bound: broken connections and goodbyes
    MaxLosses   \* bound: crashed stages and pauses

ASSUME LaunchAssumption == N \in Nat \ {0} /\ MaxCuts \in Nat /\ MaxLosses \in Nat

Stages == 1 .. N

VARIABLES
    job,      \* the worker's entry for the launch: preparation and start
    child,    \* the stage process
    accepts,  \* baseAcceptsNewWork()
    due,      \* resets the worker owes: disconnect grace, pause, shutdown
    sock,     \* the socket: open, dead (not noticed), closed, or left for good
    down,     \* frames on their way to the worker
    up,       \* frames on their way to the coordinator
    cuts,
    losses

workerVars == <<job, child, accepts, due, sock, down, up, cuts, losses>>

\* "preparing" is a preparation of the current generation and "stale" one that
\* a reset superseded; "starting" awaits launchAgent.start, "cancelled" does
\* after a stop aborted it and "dropped" after a reset forgot it; "held" is a
\* handle in runtimeProcesses.
Jobs     == {"none", "preparing", "stale", "prepared", "starting", "cancelled",
             "dropped", "held", "over"}
Children == {"none", "alive", "ready", "killing", "dead"}
Living   == {"alive", "ready", "killing"}

WorkerInit ==
    /\ job = [w \in Stages |-> "none"]
    /\ child = [w \in Stages |-> "none"]
    /\ accepts = [w \in Stages |-> TRUE]
    /\ due = [w \in Stages |-> {}]
    /\ sock = [w \in Stages |-> "open"]
    /\ down = [w \in Stages |-> <<>>]
    /\ up = [w \in Stages |-> <<>>]
    /\ cuts = 0
    /\ losses = 0

\* sendMessage: a frame written to a socket that is not open, or is already
\* dead, is lost.
Report(w, m) ==
    up' = IF sock[w] = "open" THEN [up EXCEPT ![w] = Append(@, m)] ELSE up

Silent == up' = up

Receive(w, m) ==
    /\ down[w] # <<>>
    /\ Head(down[w]) = m
    /\ down' = [down EXCEPT ![w] = Tail(@)]

Cut  == cuts < MaxCuts /\ cuts' = cuts + 1 /\ UNCHANGED losses
Lose == losses < MaxLosses /\ losses' = losses + 1 /\ UNCHANGED cuts

-----------------------------------------------------------------------------
\* handleServerMessage: runtime.prepare.
OnPrepare(w) ==
    /\ Receive(w, "prepare")
    /\ IF accepts[w]
       THEN job' = [job EXCEPT ![w] = "preparing"] /\ Silent
       ELSE Report(w, "unprepared") /\ UNCHANGED job
    /\ UNCHANGED <<child, accepts, due, sock, cuts, losses>>

\* prepareDistributedRuntime returns: the artifacts are materialised, or they
\* are not, or a reset has moved the preparation generation on.
PrepareReturns(w) ==
    /\ \/ /\ job[w] = "preparing"
          /\ job' = [job EXCEPT ![w] = "prepared"]
          /\ Report(w, "prepared")
       \/ /\ job[w] \in {"preparing", "stale"}
          /\ job' = [job EXCEPT ![w] = "over"]
          /\ Report(w, "unprepared")
    /\ UNCHANGED <<child, accepts, due, sock, down, cuts, losses>>

\* startDistributedRuntime up to its await of launchAgent.start.  A start that
\* was not prepared, or that a reset has de-authorised, is answered at once.
OnStart(w) ==
    /\ Receive(w, "start")
    /\ IF accepts[w] /\ job[w] = "prepared"
       THEN job' = [job EXCEPT ![w] = "starting"] /\ Silent
       ELSE Report(w, "exited") /\ UNCHANGED job
    /\ UNCHANGED <<child, accepts, due, sock, cuts, losses>>

\* launchAgent.start returns a handle.  If the start was aborted meanwhile the
\* late process is stopped before anything is reported.
LaunchReturns(w) ==
    /\ \/ /\ job[w] = "starting"
          /\ job' = [job EXCEPT ![w] = "held"]
          /\ child' = [child EXCEPT ![w] = "alive"]
       \/ /\ job[w] \in {"cancelled", "dropped"}
          /\ child[w] = "none"
          /\ child' = [child EXCEPT ![w] = "killing"]
          /\ UNCHANGED job
    /\ UNCHANGED <<accepts, due, sock, down, up, cuts, losses>>

\* launchAgent.start throws.  The catch stays silent when a reset has removed
\* the request's controller.
LaunchFails(w) ==
    /\ job[w] \in {"starting", "cancelled", "dropped"}
    /\ child[w] = "none"
    /\ job' = [job EXCEPT ![w] = "over"]
    /\ IF job[w] = "dropped" THEN Silent ELSE Report(w, "exited")
    /\ UNCHANGED <<child, accepts, due, sock, down, cuts, losses>>

\* LocalProcessHandle.onOutput sees the readiness marker.
ChildReady(w) ==
    /\ child[w] = "alive"
    /\ child' = [child EXCEPT ![w] = "ready"]
    /\ Report(w, "ready")
    /\ UNCHANGED <<job, accepts, due, sock, down, cuts, losses>>

\* LocalProcessHandle.finish and sendRuntimeExit: the exit is reported for a
\* handle still in runtimeProcesses and for a cancelled late start, not for a
\* process a reset disowned.
Exits(w) ==
    /\ child' = [child EXCEPT ![w] = "dead"]
    /\ job' = [job EXCEPT ![w] = "over"]
    /\ IF job[w] \in {"held", "cancelled"} THEN Report(w, "exited") ELSE Silent
    /\ UNCHANGED <<accepts, due, sock, down>>

\* stopInternal: SIGTERM, the grace, SIGKILL.
ChildKilled(w) ==
    /\ child[w] = "killing"
    /\ Exits(w)
    /\ UNCHANGED <<cuts, losses>>

\* The stage exits by itself.
ChildCrashes(w) ==
    /\ Lose
    /\ child[w] \in {"alive", "ready"}
    /\ Exits(w)

Kill(w) ==
    child' = IF child[w] \in {"alive", "ready"}
             THEN [child EXCEPT ![w] = "killing"] ELSE child

\* Variant: a stop that looks only at the handles.
OnStopHeldOnly(w) ==
    /\ Receive(w, "stop")
    /\ IF job[w] = "held" THEN Kill(w) ELSE UNCHANGED child
    /\ UNCHANGED <<job, accepts, due, sock, up, cuts, losses>>

\* stopDistributedRuntime: abort a start in flight, stop a handle, and ignore
\* a request the worker does not know.
OnStop(w) ==
    /\ Receive(w, "stop")
    /\ job' = IF job[w] = "starting" THEN [job EXCEPT ![w] = "cancelled"] ELSE job
    /\ IF job[w] = "held" THEN Kill(w) ELSE UNCHANGED child
    /\ UNCHANGED <<accepts, due, sock, up, cuts, losses>>

\* resetDistributedRuntime: supersede the preparation, abort the start, forget
\* every request and stop every handle.
Reset(w) ==
    /\ due[w] # {}
    /\ due' = [due EXCEPT ![w] = {}]
    /\ job' = [job EXCEPT ![w] =
                  CASE @ = "preparing" -> "stale"
                    [] @ \in {"starting", "cancelled"} -> "dropped"
                    [] @ \in {"prepared", "held"} -> "over"
                    [] OTHER -> @]
    /\ IF job[w] = "held" THEN Kill(w) ELSE UNCHANGED child
    /\ UNCHANGED <<accepts, sock, down, up, cuts, losses>>

\* setContributionEnabled(FALSE): the reset follows once the jobs are aborted.
Pause(w) ==
    /\ Lose
    /\ accepts[w] /\ sock[w] # "left"
    /\ accepts' = [accepts EXCEPT ![w] = FALSE]
    /\ due' = [due EXCEPT ![w] = @ \cup {"pause"}]
    /\ UNCHANGED <<job, child, sock, down, up>>

\* The connection breaks: what is in flight is lost, and each end goes on
\* writing into its dead socket until it notices.
Break(w) ==
    /\ Cut
    /\ sock[w] = "open"
    /\ sock' = [sock EXCEPT ![w] = "dead"]
    /\ down' = [down EXCEPT ![w] = <<>>]
    /\ up' = [up EXCEPT ![w] = <<>>]
    /\ UNCHANGED <<job, child, accepts, due>>

\* The worker's close handler: reconnect, and reset the runtime unless that
\* succeeds within RUNTIME_RECONNECT_GRACE_MS.
WorkerNotices(w) ==
    /\ sock[w] = "dead"
    /\ sock' = [sock EXCEPT ![w] = "closed"]
    /\ due' = [due EXCEPT ![w] = @ \cup {"grace"}]
    /\ UNCHANGED <<job, child, accepts, down, up, cuts, losses>>

\* server.ready on a new connection cancels the grace timer and nothing else.
Rejoin(w) ==
    /\ sock[w] = "closed"
    /\ sock' = [sock EXCEPT ![w] = "open"]
    /\ due' = [due EXCEPT ![w] = @ \ {"grace"}]
    /\ UNCHANGED <<job, child, accepts, down, up, cuts, losses>>

\* stopOnce: say goodbye, close the socket, reset the runtime.
Leave(w) ==
    /\ Cut
    /\ sock[w] # "left"
    /\ sock' = [sock EXCEPT ![w] = "left"]
    /\ accepts' = [accepts EXCEPT ![w] = FALSE]
    /\ due' = [due EXCEPT ![w] = {"leave"}]
    /\ down' = [down EXCEPT ![w] = <<>>]
    /\ up' = [up EXCEPT ![w] = <<>>]
    /\ UNCHANGED <<job, child>>

\* The worker's own progress, which its event loop and the kernel guarantee.
WorkerProgress(w) ==
    \/ OnPrepare(w) \/ PrepareReturns(w) \/ OnStart(w)
    \/ LaunchReturns(w) \/ LaunchFails(w)
    \/ ChildKilled(w) \/ OnStop(w) \/ Reset(w) \/ WorkerNotices(w)

\* What may happen and need not: a stage becomes ready, and the faults.
WorkerChance(w) == ChildReady(w) \/ ChildCrashes(w) \/ Pause(w) \/ Break(w) \/ Leave(w)
=============================================================================
