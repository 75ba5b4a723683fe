# A formal model of the Mycellios control plane

TLA+ modules that model the coordinator and the worker side of Mycellios, TLC
configurations that check them on small instances, and TLAPS proofs of the
properties that matter most for every instance.  Everything is translated from
the TypeScript under `src/`; `PROJECT.json` maps each definition to its lines.

Paths below are relative to the repository's `src/` directory.

## The system

A *coordinator* (one Node process over one SQLite database) accepts inference
jobs from clients, leases each to a *worker* that is connected by a WebSocket,
relays tokens back, relays byte streams between the processes of a pipeline that
spans several workers, launches the processes of such a pipeline, and keeps the
books: what buyers pay for and use, what sellers earn and how they are paid.  A
*node* is the installed service around a worker; it polls the coordinator for its
owner's commands and updates its own components.  Every process is one event
loop: a handler runs to its next `await` without interruption, so the interleavings that matter are between handlers,
timers, socket events and the two halves of an `await`.

### Inventory

| Part | State | Operations that change it | What is hard about it |
| --- | --- | --- | --- |
| job service `coordinator/mesh-service.ts` | job rows, runtimes, sessions in use, timers, client queues | submit, cancel, lease accept/reject, token, complete, fail, three timers, worker disconnect, restart | failover in the middle of a stream; late and repeated envelopes; several jobs lost at once |
| scheduler `scheduler/scheduler.ts` | none of its own | route plan, eligibility | reads slots that are stale |
| store `storage/store.ts`, `storage/database.ts` | tables and triggers | transactions | what survives a restart |
| worker hub `coordinator/worker-hub.ts` | connections, runtime streams | hello, heartbeat, goodbye, close, stream relay | a new connection before the old one closes; recovery of a stream through several losses |
| tunnel `worker/runtime-stream-tunnel.ts` | sessions, offsets, replay buffers | open, data, ack, suspend, resume, end, error | exactly-once bytes over lossy sockets; a bounded buffer |
| worker agent `worker/agent.ts` | socket, timers, jobs | connect, heartbeat, goodbye, reset, run a job | stops and reconnects |
| earnings and payouts `coordinator/seller-earnings.ts`, `payouts.ts`, `payout-dispatch.ts`, `stripe-connect-payout.ts` | earnings, reversals, debts, batches, operations, evidence | receipt, reversal, prepare, dispatch, reconcile, settle, cancel | money moves outside the database, and answers may be lost or late |
| launch supervisor `distribution/launch-supervisor.ts`, `worker-tunnel-launch-agent.ts` | states of a set of processes, pending starts | start, stop, exit, rollback | a process that becomes ready after its launch was aborted; a worker that comes back |
| model activation, deployments `coordinator/model-activation-manager.ts`, `deployment-control-plane.ts` | activation attempts, reservations | activate, repair, release | several awaits per attempt |
| direct transport `transport/*`, `worker/runtime-direct-transport.ts` | offers, provisional and committed records | offer, dial, commit, cancel, fall back | two commits against a timeout; one socket, two routes |
| node commands `coordinator/node-command-store.ts`, `node-reconciliation-store.ts`, `node/command-*.ts`, `node/uninstall-*.ts` | rows, results, events, desired state, journal | enqueue, pull, apply, result, snapshot, expire | at-least-once delivery, late results, crashes in the middle of an effect |
| component updates `update/component-update-manager.ts`, `node/component-lifecycle.ts` | pointer, last-good copy, marker, roots, cache | stage, mark, commit, collect, roll back, boot, recover | a crash between two files; a component that does not start |
| billing and API access `coordinator/billing*.ts`, `stablecoin-checkout.ts`, `api-access.ts` | balance, debt, reservations, quotes, grants, subscriptions | reserve, settle, check out, pay, refund, restart | repeated, late and reordered provider events |
| enrollment, evidence, checkpoints, artifacts, mobile compute, cloud sync | see `PROJECT.json` | | |
| HTTP server, planners, simulators, installers, Python runtime | little or no protocol state | | |

`PROJECT.json` lists every part with its status, and the hazards at the lines
where they bite.

## Modules

| Module | Models | Depends on |
| --- | --- | --- |
| `MeshService` | the job service, with what it uses of scheduler, store and hub | |
| `MeshServiceProofs` | its theorems | `MeshService`, TLAPS |
| `Payouts` | earnings, batches, dispatch, gateway, triggers | |
| `PayoutsProofs` | its theorems | `Payouts`, TLAPS |
| `BytePipe` | what a runtime stream promises: the abstract specification | |
| `RuntimeStream` | two tunnels, the hub's relay and the sockets between them | instantiates `BytePipe` |
| `RuntimeStreamProofs` | its theorems, the refinement included | `RuntimeStream`, TLAPS |
| `DirectRoute` | the negotiation of a direct route and its hand-over to the relay | |
| `DirectRouteProofs` | its theorems | `DirectRoute`, TLAPS |
| `WorkerRuntime` | the worker's half of a launch: messages, stage process, resets | |
| `LaunchSupervisor` | the supervisor and its tunnel agents, composed with the workers | extends `WorkerRuntime` |
| `LaunchProofs` | its theorems | `LaunchSupervisor`, TLAPS |
| `CommandLedger` | what the owner of a node is promised of a command: the abstract specification | |
| `NodeCommands` | command queue, desired state, the node's poll loop, journal and process | instantiates `CommandLedger` |
| `NodeCommandsProofs` | its theorems, the refinement included | `NodeCommands`, TLAPS |
| `ComponentUpdate` | update manager, boot-health lifecycle and the node's start | |
| `ComponentProofs` | its theorems | `ComponentUpdate`, TLAPS |
| `ApiAccess` | a prepaid account and the reservations of chat requests | |
| `Billing` | checkouts, provider events, grants, refunds, subscriptions, composed with the account | extends `ApiAccess` |
| `BillingProofs` | its theorems | `Billing`, TLAPS |
| `MC...` | instances for TLC | |

### MeshService

A job is leased to one worker at a time.  The plan of a job is its primary route
and up to `MaxStandby` standbys, fixed at submit.  When the worker rejects,
fails, falls silent or disconnects, `retryOrFail` moves the job to the next
standby that is still eligible, which must repeat the tokens the client already
has (`replay`) before it may add one.

* Variables are the job table (`status`, `worker`, `lease`, `keyJob`), the memory
  of the service (`live`, `plan`, `routeIndex`, `output`, `replay`, the timers,
  `activeSessions`), what it sees of workers (`conn`, `health`) and what it has
  told clients (`events`).  `issued` and `heard` are histories.
* One action is one handler.  The one handler that is several steps is the
  disconnect of a worker with several jobs: `Disconnect` puts the jobs into
  `lost` and `RetryLost` retries them one at a time, in any order, while nothing
  else may run except a restart.
* Workers are an arbitrary environment: any envelope may come at any time and any
  number of times for any lease ever granted.
* `conn` distinguishes a connection before its first heartbeat (`pending`), in
  use, closing but still in the hub's map, and absent.
* A failover walks over standbys that are not eligible in one step, as the
  recursion of `retryOrFail` and `dispatch` does.  A deadline that passes while
  a lease is being granted is an alternative of the dispatch.
* Left out: progress events, network traces, usage and telemetry, error codes
  except where they decide the status, route scores and all reasons for
  ineligibility except connection, health and concurrency (a plan is any
  sequence of distinct eligible workers).

### Payouts

Earnings are collected in a batch, the batch is dispatched to a provider, and the
provider's observations settle it or release the earnings.

* Each table is a variable, each transaction a step.  A transaction that would
  violate a trigger aborts as a whole: the guard of the step contains the
  triggers (`MayBecome`, `Projects`, ...).
* `dispatch` and `reconcile` suspend while the provider is asked: `call` holds
  the suspended calls, and everything else may happen meanwhile.  The answer is
  applied to the state found then, with what the call read before.
* `request` and `transfer` are the network and the provider (external): a request
  may be lost, refused, or carried out with the answer lost; a transfer may
  settle or be reversed.
* A restart drops the suspended calls and nothing else.
* Left out: the clock and the triggers about time, payout method, destinations,
  SPORE quotes, signatures of receipts and evidence.

### RuntimeStream and BytePipe

One recoverable stream between a *source* (which opens it) and a *destination*.
Tunnels keep unacknowledged chunks in a replay buffer.  When a WebSocket is lost
the hub suspends the stream, collects a report of offsets from both sides, checks
that they are consistent and lets both continue under the next generation.

* `s[x]` is the session of tunnel `x`, `h` the hub's session, `ws[x]` and
  `conn[x]` the two ends of a WebSocket, `up[x]` and `down[x]` what is on its way.
* `TunnelReceives` and `HubReceives` handle the next message by type; the actions
  for reading from and writing to the local socket, its end and its failure, the
  recovery timeout and the connection life cycle complete the model.
* A socket is FIFO.  When it breaks, a suffix of what is on its way is lost and
  each side learns of the break in its own time.  A send on a socket whose other
  end is gone succeeds and is lost; what the hub still receives of an old socket,
  it receives before the next hello.
* A byte is the number of its place in what its process wrote, so a lost,
  repeated or reordered byte is visible.
* `BytePipe` has three variables, `read`, `got` and `how`, and says what the
  processes may see.  `RuntimeStream` has the same three; `IsPipe` is the
  specification of `BytePipe`, which TLC checks as a property and
  `RuntimeStreamProofs` proves.
* Not modelled: streams without negotiated recovery, the downgrade to them, the
  coordinator's own local streams, several streams at once
  (they share only sockets).  The direct route is `DirectRoute`.  Overflow of the local write buffer is a free
  choice of the destination.

### DirectRoute

Before a stream is relayed the hub tries to connect its two workers directly.  It
offers the route to the destination, lets the source dial, commits the destination,
and commits the source only when the destination has answered; until then it may
fall back to the relay.

* `mode`, `direct`, `opened`, `gen`, `reports` are the hub's session; `ses`, `flow`,
  `susp`, `task`, `rec`, `sgen` the source (`flow` is the local socket that the tunnel
  and the direct record share); `dst`, `rel`, `dgen` the destination; `chan`, `marker`, `pipe` the channel between
  the peers; `ws`, `conn`, `up`, `down` the WebSockets as in `RuntimeStream`.
* Every handler of `handleRuntimeDirectEnvelope`, both halves of
  `RuntimeDirectTransport`, the timers (negotiation, offer, lifetime, dial) and the
  handlers of the relay that a fallen-back stream meets are actions.
* A relayed stream that loses a WebSocket is suspended, collects the reports of both
  workers and is resumed under the next generation, or ended: by its timeout, by a
  report of another generation, or by a report that meets a stream that is not
  suspended.  This matters here because a source that was still negotiating is then
  resumed without having been told that the stream is open.
* The offsets of the reports and the bytes of a resumed stream are `RuntimeStream`'s: no
  byte is written here after a resumption (`sgen = 0` in `Write`), so `BytesInOrder` is
  about the routes up to the first recovery.
* Left out: the order of candidates and port mapping (dialling is one attempt that
  may fail), the handshake, windows and credits of the multiplexer, bytes from target
  to source, telemetry, superseded connections.

### WorkerRuntime and LaunchSupervisor

`PythonLaunchSupervisor` starts the stages of a pipeline one after the other through
one `WorkerTunnelLaunchAgent` per worker, and takes them down in a rollback.

* `WorkerRuntime` has the worker's entry (`job`), its process (`child`), what resets
  it owes (`due`), its socket and the frames on their way; `LaunchSupervisor` adds
  `state`, the process records, the agents' pending starts (`tun`), the rollback's
  place (`rb`, `called`) and the hub's view of the connection.
* A step is one turn of an event loop.  Promises that settle in it run their
  continuations in it: a frame, a close or an abort reaches the supervisor at once.
* `Aborted` and `AbortStops` are the abort listeners: every pending start is told to
  stop at once, and the rollback then stops the records from the last to the first.
* A worker may be paused, its stage may crash, its connection may break and come back
  inside or after the reconnect grace, or supersede the old one.
* Left out: launches over HTTP agents and local agents, several stages on one worker,
  repeated starts, an external abort signal, a coordinator crash, a child that cannot
  be killed.

### NodeCommands and CommandLedger

The owner enqueues commands at the coordinator; the node polls, executes each through
a write-ahead journal, posts the result and then a snapshot, and follows the desired
state the coordinator answers with.

* A coordinator route is one transaction and one step.  The node's loop is one step
  per `await` that touches durable or shared state (`todo` lists those left), so a
  crash can fall between any two.
* A request may be lost, or handled after the node gave up on it (`latePull`,
  `lateResults`).  A command may be found expired at every pull and before every
  execution.
* An update that names another channel saves the configuration before it asks for the
  components, and restores `backup`, the file the save replaced, when that fails; the
  restore may fail too.  `update-dev` names another channel than a fresh node has, and
  repeated after a restart the same one.
* Scheduling an uninstall is two steps, the request on disk and the helper, and either
  may fail.  The helper ends without effect when it is not armed in time or the executor
  refuses it (`HelperEnds`).  `RemoveNode` is the point at which the service is disabled:
  what is deleted afterwards, or left behind by a deletion that fails, nothing runs.
* A start under an activation marker is three steps: the agent, the removal of the marker
  (`MarkHealthy`), and the lifting of the stored drain (`Undrain`).  A crash between the
  last two leaves the drain.
* `KeepAlive` says whether the service manager restarts a clean exit.
* `CommandLedger` has two variables, the state of each command and the commands
  performed.  `IsLedger` maps them to `row` and `ran`.  TLC checks it as a property
  and `CommandsImplementLedger` proves it.
* Left out: rotation of the ownership generation, the journal's bound of 4096 records,
  snapshots that arrive late, the resource governor, the check against clocks that go
  back, and the inside of update and rollback, which is `ComponentUpdate`.

### ComponentUpdate

A node stages a release beside the running one, writes a marker, moves the pointer
(`state.json`, then `state.last-good.json`), and is restarted.  The first start under
a marker either succeeds and removes it, or reverts the pointer.

* `state`, `lastGood`, `pending`, `roots`, `partial`, `cache` and `command` are on
  disk; everything from `pc` to `verdict` is memory and lost in a `Crash`.
* Every write is a step of its own and may fail before or after its rename; garbage
  collection may fail half way, which rejects an update that is already active; files may
  be damaged (`Tamper`).  Whether an artifact boots is decided at its first start
  (`quality`) and then fixed.
* `hasty`, `restored` and `hurt` are histories that name the exceptions of the
  properties: two activations without a boot between them, a document recovered from
  its copy, a damaged root.  Each is a case in which the code really does not keep the
  property.
* A process that failed is `down`, one that exited cleanly after an acknowledged command
  `exited`.  Both may be started; only the first has to be (see Fairness).
* Left out: several components and channels, key rotation and equivocation, waiting
  for idle (the node always reports idle), the old layout, path checks, the number of
  retries in the backoff.

### ApiAccess and Billing

An account holds tokens.  A chat request reserves its worst case and is settled when
its stream ends.  Tokens come from purchases through Stripe or stablecoin transfers,
whose events arrive at least once and in any order.

* Each route is a transaction and a step.  `handlers` and `calls` are the requests
  suspended in an `await`; a `Restart` forgets them, fails the jobs that were live
  (`recoverOrphanedJobs`) and runs `reconcileRestartedZeroTokenUsage`.
* `job` is the status of the job a request's row names.  Reserving, attaching the job and
  settling are separate transactions, so a restart may find a row without a job, or one
  whose job was over before its handler could settle it.  The startup settlement passes
  over both: it takes rows that reserved nothing and whose job a restart failed.
* `events` is what happened at the providers (external), in order; `Deliver` hands any
  of them to the webhook at any time, any number of times.
* A Stripe subscription that recovers sends an update back to active (`resumed`), which
  the webhook answers and ignores; only the payment makes it active again.
* A purchase is the operation of one idempotency key; its quote, session or recipient
  is a function of the key.
* `forgiven` is a history: what a request used beyond its reservation and the balance,
  which `MAX(0, ...)` forgives.
* An account first made by a checkout starts with no tokens; `Starter = 0` is that case.
* Left out: several accounts, API keys, the requests-per-minute window, signatures,
  plan registration and price checks, the customer portal, limits on inbound requests,
  and the length of a period paid by stablecoin.

## What is checked

Run one with `tlc -workers 2 -config <cfg> <module>`.

| Run | Configuration | States | Properties |
| --- | --- | --- | --- |
| `failover` | `MCMeshFailover.cfg` of `MCMeshService` | 231,296 | `SplicedStream`, `ClientSeesOneStream`, `NoSecondOffer`, `SilenceIsWatched` |
| `capacity` | `MCMeshCapacity.cfg` of `MCMeshService` | 450,052 | `WithinConcurrency`, `LeasesAreAttached` |
| `clients` | `MCMeshClients.cfg` of `MCMeshService` | 31,040 | `RuntimesMatchRows`, `EndingsAreFinal`, `JobsEnd` |
| `payouts` | `MCPayouts.cfg` of `MCPayouts` | 176,174 | `PaidOnce`, `ProjectionsAgree`, `DebtBalances`, `ReversalsWaitForSubmitted`, `FinalityIsKept` |
| `stream_recovery` | `MCStreamRecovery.cfg` of `MCRuntimeStream` | 954,478 | `IsPipe` |
| `stream_teardown` | `MCStreamTeardown.cfg` of `MCRuntimeStream` | 111,271 | `TypeOK`, `ReplayIsExact`, `EndsTogether`, `BytesArrive` |
| `node_commands` | `MCNodeCommands.cfg` of `MCNodeCommands` | 666,098 | `TypeOK`, `ReportsAreTrue`, `IsLedger`, `CommandsClose`, `Settles` |
| `launch` | `MCLaunch.cfg` of `MCLaunchSupervisor` | 324,626 | `NoStartAfterAbort`, `LaunchSettles`, `DeadStageEndsLaunch`, `StagesAreReaped` |
| `component_update` | `MCComponents.cfg` of `MCComponentUpdate` | 540,252 | `ReferencedRootsSurvive`, `UnprovenIsGuarded`, `NoBootLoop`, `NodeComesUp` |
| `billing` | `MCBilling.cfg` of `MCBilling` | 771,184 | `TokensAreConserved`, `QuotesAreGrantedOnce`, `StatusIsNewest`, `EventsTakeEffect` |
| `direct_route` | `MCDirectRoute.cfg` of `MCDirectRoute` | 255,765 | `SourceFollowsDestination`, `BytesInOrder`, `NegotiationIsDecided`, `RouteIsReleased` |
| `component_rollback` | `MCComponentRollback.cfg` of `MCComponentUpdate` | violation expected | `RollbackIsAppliedOnce` |

What the bounds make possible:

* `failover`: a primary and two standbys, two tokens of two texts: a failover in
  the middle of the replay of another, a standby that says something else, and a
  plan that is used up.  One job is enough: jobs meet only in capacity, sessions
  and keys, which the next two runs cover.  Workers and texts are symmetric.
* `capacity`: two jobs, two workers of one slot, so that a failover competes with
  a submit for the last slot and one worker's loss hits both a job it leads and a
  job it runs a stage of.
* `clients`: two jobs of one session, with and without one idempotency key, one
  worker.  Liveness is checked here, without symmetry.
* `payouts`: two earnings of different amounts, two batches, two calls: a released
  earning can be batched again while a call about its first payout is suspended.
  It may stop when ids run out, so deadlock is not checked.
* `stream_recovery`: two losses, also during a recovery, with the second
  resumption at the limit of generations (`MaxGeneration`, 1,000,000 in the code).
* `stream_teardown`: three bytes in pieces of one or two against a buffer of two,
  so that it overflows, and one loss.
* `node_commands`: two commands of five types (those that differ in their effects, an
  update to another channel among them) and one fault, which may be a crash between any two effects, a lost or late answer or a
  failed call; the second command can expire, or arrive, at any point of the first.
* `launch`: two stages, so that one is ready while the other starts; one broken or left
  connection and one crash or pause, in any order with the two stops.
* `component_update`: three releases of two artifacts, the third bringing the first
  back, four commands and two faults: a failed start, a crash in its rollback, and an
  update after it all fit.
* `billing`: one purchase of any kind, three events about it, one request that needs
  nothing, one or two tokens, one gift and one restart: a payment, its refund and a
  repeated delivery of each cross the request.  Accounts are independent; two purchases
  of one account meet in the balance, which the proofs cover for any number.
* `direct_route`: two bytes, one break of a WebSocket at any moment and every timer: the
  loss can meet each step of the negotiation, of the fallback and of the recovery after
  it.  With two breaks, so that both workers are lost, the same four properties hold
  over 2,079,886 states, in more time than the run is given.
* In the stream runs one process writes and the other reads; the other direction
  carries acknowledgements.  Each direction has its own offsets and buffer, and
  the two share only suspension and generation.  A stream ends, so deadlock is
  not checked.

Named bounds: `MaxTokens` (the request's own limit), `MaxStandby`,
`MaxConcurrency`, `MaxReplay`, `MaxGeneration` are limits of the code;
`MaxBytes` bounds what a process writes and `Faults` how often a WebSocket starts
to fail, both only for TLC; so are `MaxBreaks`, `MaxCuts`, `MaxLosses`, `MaxFaults`,
`MaxCommands`, `MaxInstalls`, `MaxEvents` and `MaxCrashes`.  Deadlock is not checked
where the bounds or the end of the modelled life cycle let a behaviour stop.

### Fairness

* `MeshService`: strong fairness of each deadline timer and weak fairness of
  `RetryLost`.  A timer that is due runs after the handler that is running;
  handlers interrupt its being enabled but cannot prevent it.  A loop that has
  begun goes on.  Nothing is assumed of workers or clients.
* `RuntimeStream`: weak fairness of delivering the next message, of the recovery
  timeout, of the reset a worker does when it stays disconnected, and of seeing
  the close of a socket whose other end has closed it.  Nothing is assumed of the
  processes, of reconnecting, or of losses.
* `DirectRoute`: weak fairness of handling the next message or close at the hub and at
  each worker, of every timer, and of a worker rejoining.  No peer has to answer.
* `LaunchSupervisor`: weak fairness of the supervisor's own steps and timers, of each
  tunnel's events, and of each worker's event loop and signals to its child.  A stage
  need not become ready, a connection need not come back.
* `NodeCommands`: weak fairness of the poll loop (it retries for ever), of the service
  manager's start, and of the uninstall helper's last step.  A clean exit is started again
  under `KeepAlive` only.
* `ComponentUpdate`: weak fairness of the process, its start after a failure included, but
  not its start after a clean exit.  `node/service-definition.ts:34` has systemd restart on
  failure only; launchd keeps the process alive whatever its status; on Windows the
  recovery actions of `node/service-registration.ts:47` restart the first two failures of
  a day, so there `NodeComesUp` holds as long as they last.  Nobody has to issue a
  command, and there is no fairness of faults.
* `Billing`: weak fairness of the delivery of each event (providers repeat until they
  are answered with success) and of settling each request (its job has a deadline).
* `Payouts`: none.  Its operations are started by operators, so nothing has to
  happen.

### Where the code disagrees with what is said of it

The run `component_rollback` is expected to end in a counterexample; so do the other
configurations of this table, which are kept to be run by hand and are not among the
runs of `PROJECT.json`.  Each checks one property, on the module of its run.

| Configuration | Property | What happens | What is said |
| --- | --- | --- | --- |
| `MCComponentRollback` | `RollbackIsAppliedOnce` | a rollback executed again after a crash swaps the pointers back, and is reported as applied | `node/command-executor.ts:34` "Implementations must use it as their idempotency key" |
| `MCMeshGoodbye` | `StagesAreAttached` | `worker.goodbye` removes the worker row before `disconnect` is emitted, so the service cannot find which pipelines had a stage there, and their jobs wait for the deadline | `tests/mesh-failover.test.ts:548` |
| `MCPayoutReplay` | `RejectionReplays` | after the earnings of a rejected payout are used again, reconciling that payout fails its integrity test instead of replaying the stored result | `tests/payout-dispatch.test.ts:512` |
| `MCPayoutLookup` | `PaidOnce` | a lookup answered with a 4xx is taken for a rejection of the transfer: an uncertain payout is released although its transfer may stand | `coordinator/payout-dispatch.ts:76` |
| `MCStreamOpening` | `IsPipe` | after a loss while the stream opens, the source's socket is resumed before the stream is opened and what it reads is dropped | `worker/runtime-stream-tunnel.ts:197` |
| `MCStreamStale` | `EndsTogether` | a report made before a second loss stays in force: the stream is resumed with a side that may be gone | `coordinator/worker-hub.ts:690` |
| `MCStreamSupersede` | `EndsTogether` | a hello that replaces a connection suppresses the disconnect of the old one, and its streams are not suspended | `coordinator/worker-hub.ts:690` |
| `MCDirectHang` | `NegotiationSettles` | the hub ends a negotiating stream and sends only `runtime.direct.cancel`, which closes no session: the source waits for ever | `worker/runtime-direct-transport.ts:118` "a failed candidate can still fall back" |
| `MCDirectLate` | `RelayIsUndisturbed` | `cancel` misses an attempt that is still dialling; its late record takes over and pauses the socket the relay serves | the same comment |
| `MCLaunchPause` | `StageDeathIsDetected` | pausing a worker disowns the stage's handle before stopping it, so the coordinator is not told and the launch stays running | `tests/launch-supervisor.test.ts:321` "detects a process dying after ready and automatically tears down the route" |
| `MCLaunchOrphan` | `NoStageOutlivesLaunch` | the coordinator forgets a start at a disconnect, and a rejoin inside the grace cancels the worker's own reset: the stage runs on | `distribution/launch-agent-rpc.ts:455` says of the other agent that a lost channel "must not silently leave an unsupervised remote process running" |
| `MCLaunchOrder` | `StopsInReverse` | the abort listeners send all stops at once, before the rollback's first | `tests/launch-supervisor.test.ts:230` "stops in reverse order" |
| `MCNodeRestart` | `ComesBack` | with `Restart=on-failure` (systemd) a node that exits because a command asked for a restart stays down | `tests/node-command-applicator.test.ts:55` |
| `MCNodeDrain` | `DrainIsRecorded` | after an update the stored drain is lifted while the agent stays draining | the stored control state and the agent disagree |
| `MCNodeExpired` | `ExpiredIsUnapplied` | a command whose effect ran before a crash and that expired meanwhile is reported as not applied | `node/command-executor.ts:108` "The command expired before the node could apply it." |
| `MCBillingDebt` | `DebtBlocksSpending` | a reservation handed back, or an administrator's grant, can be spent while the account owes tokens | `tests/billing.test.ts:252` "repay reversal debt before exposing spendable balance" |
| `MCBillingTwice` | `OneSubscription` | two `createSubscription` calls look for a session before either has one, and both are paid | `tests/billing-checkout.test.ts:55` "resumes one recent subscription Checkout across different browser attempts" |

The switches `LookupErrors`, `LossWhileOpening`, `Supersede` and `Goodbyes`
exist so that the passing runs show what holds apart from these cases: each is
on in a configuration that shows a disagreement, and `Supersede` and `Goodbyes` are
also on in `stream_recovery`, where they do no harm to safety.  `worker.goodbye`
has the effect of `MCStreamSupersede` too: it clears the worker id, so the close
that follows suspends nothing, and the stopping worker (`stopOnce`) resets its
streams only after its socket is closed.  `MCStreamSupersede` with
`Supersede = FALSE` and `Goodbyes = TRUE` shows it.

## What is proved

`tlapm <module>` checks one module; the longest, `RuntimeStreamProofs`, takes a
quarter of an hour, `DirectRouteProofs` about as long, most others a few minutes.  Where a type invariant or an
invariant is not among the properties of a run, it is because the proof covers every
instance.

### MeshService, for any jobs, workers, sessions, keys, tokens and limits

The assumption is `ConstantsOK`: the limits are natural numbers, `Stages` is a
function, and the three null values are not members.  The invariants the runs
check are not inductive by themselves.  `IInv` is their conjunction with

* `Rows`: no handler returns while its job is `queued`.  Without it a restart
  could leave a runtime for a row that is neither active nor ended.
* `Fresh`: a job that was not submitted has no output, events or leases, so a
  submit starts a stream from nothing.
* `Leased`: an unfinished job is on the route its index names, the plan has no
  worker twice, and leases were only issued to routes up to the index.  It is why
  the next standby is always new (`NoSecondOffer`) and an envelope that passes
  `validJobEnvelope` belongs to the current lease.
* `Attached`: `LeasesAreAttached` weakened by the jobs the running disconnect
  handler has still to retry; this form holds in the middle of that handler.
* `Streamed`: the client of an unfinished job was told it was accepted.

The proof has one lemma per conjunct (`RowsStep`, ..., `AttachedStep`).  Each
splits `Next` into the few kinds of steps that `StepEffects` lists (a job is
refused, begins, moves to a standby, listens to its worker, ends; a timer that finds
nothing to do; the world moves;
a restart) so that no lemma goes through every action.  `WithinConcurrency`
needs `Counted`, finiteness of the sets that are counted, on top of `IInv`.
The theorems are `TypeCorrect`, `MemoryMatchesTable`, `SplicingIsSound`,
`StreamIsWellFormed`, `OffersAreDistinct`, `SilenceIsNoticed`,
`LeasesStayAttached`, `ConcurrencyIsKept`, and the action properties
`FinalEndings` and `UnseededStays`.

### Payouts, for any earnings, batches, references and number of calls

The assumption is `PayoutConstants`.  There are three inductive invariants.

* `TInv` is about the tables alone and holds whatever the provider answers:
  types, `Exclusive` (an earning is in at most one batch that was not cancelled),
  `Fresh`, and the three properties `ProjectionsAgree`, `EvidenceMatches` and
  `ReversalsWaitForSubmitted`.  `Exclusive` is what makes a settlement or a
  cancellation of one batch harmless to the others.  It gives `TablesAgree`,
  `EvidenceIsBound`, `ReversalsAreMet` and, with the triggers, `FinalForever`.
* `MInv` relates tables and provider: a transfer or a request exists only for a
  dispatched batch, and a payout that is or may be recorded as rejected is not
  moving, whether the rejection is in the table or in a suspended call's hands.  It
  needs lookups that are not answered with client errors, which is
  the hypothesis `~LookupErrors` of `PaidOnceForAll`; `MCPayoutLookup` shows that
  the hypothesis is needed.
* `DInv` is about the money: `debt` and the offsets are natural numbers, an id without a
  batch offsets nothing, and `DebtBalances`.  It is inductive relative to `TInv` and gives
  `DebtIsConserved`.  The sums are the library's fold over a finite set.  The lemmas about
  it (`SumsExist` to `SumIsNumber`: the recursive function of the fold exists, what it is
  after one element, that it is a number) go by
  induction over the cardinality, written as a set of naturals without a least
  counterexample (`Naturally`), a form that needs no operator as a parameter.

### RuntimeStream, for any bytes, pieces, buffers and number of losses

The assumption is `StreamConstants`.  `IInv` is, over both tunnels, the hub and every
message on its way:

* `Types`, and `OpenedOnce`: the source sends one open and the hub passes on one, so a
  session is made once and starts from nothing.
* `Sessions`: the replay buffer is a gapless row of chunks from what is acknowledged to
  what was sent; offsets agree with what the process wrote and was given; a session that is
  gone is blank.
* `Underway`: no message says more than the other side has: a chunk ends where its
  process has written, an acknowledgement or a resumption where the peer has received, an
  end where the writer ended.
* `Relay`: the same of what the hub has forwarded and of the reports it holds, which may
  be older than the recovery they are used in.
* `Quiet`: before the source knows that the stream is open nothing has failed.

A message that was sent before a loss, a report or a recovery stays true after it, which is
why the invariant is about bytes written and given and not about generations.  The
theorems are `StreamTypes`, `StreamReplay` and `StreamIsPipe`.  The last, that every step
is a step of `BytePipe` or a stutter, is proved from `~LossWhileOpening`, under which the
conjuncts marked `Pipes` say that an offset tells which byte it is; `MCStreamOpening` shows
that the hypothesis is needed.  The other two need no hypothesis.

### NodeCommands, for any number of commands, kinds and faults

The assumption is `NodeCommandsAssumption`.  `ReportsAreTrue` alone is not inductive: a
crash, a repeated pull and a late POST each bring back an older part of a command.
`IInv` says how far its parts may be apart: a command is on the node only when its row
was delivered (`Handed`); the place of the loop agrees with the journal (`AtCurrent`);
a sealed result, a recorded one and one under way are the same (`Sealed`, `UnderWay`);
requests are uninstalls (`Uninstalls`); cursors grow (`Cursors`).  What an await does to
the agent or to the settings takes no part, and `Awaits` abstracts it.  The theorems are
`RecordedReportsAreTrue`, `ArmedUninstallsAreAcknowledged`, `CursorsNeverRegress`, and
`CommandsImplementLedger`: every step is a step of `CommandLedger` or a stutter.

`CommandTypes` rests on `TInv`, inductive relative to `IInv`.  Three of its facts are not
read off one assignment.  `Ids`: the id of a result is at most the number of commands,
because the command being sealed is not among the complete ones.  `Wishes`: the desired
state that the first snapshot seeds is one, by induction over how many commands the fold
of `ReadOrSeedDesired` has replayed (`FoldExists`, `FoldIs`, `ReplayIsWish`).  `Requested`:
what is armed, or has a helper, has its request on disk, because the stop that an
acknowledgement takes up was stored by the scheduler.

### LaunchSupervisor, for any number of stages, cuts and losses

`IInv` is the type invariant with `Front` (while the launch is built, the records before
the one being started are ready behind an open handle and those after it untouched) and
`Route` (while it is taken down, what lies beyond the rollback's place is closed).  It
gives `RunningLaunchesAreReady`, `SettledLaunchesAreFinal` and, since nothing is
preparing outside a launch being built, `NothingStartsAfterAbort`.

### ComponentUpdate, for any releases, commands and faults

Three facts are stated of the document on disk and of the one about to be written: its
roots are intact (`Kept`), its fallback has booted (`Proven`), and its active root has
booted or the marker names it (`Marked`).  `IInv` adds where the process runs from and
how the documents in memory stand to the one on disk.  The theorems are
`ReferencedRootsAreKept`, `UnprovenComponentsAreGuarded`, `FailedCandidatesAreDropped`
and `FailedBootsAreReverted`.

### Billing, for any amounts, purchases and history of events

The assumptions are `AccountAssumption` and `BillingAssumption`.  `IInv` adds to the
properties what the rows of the ledger are (`Rows`: a granted event is a payment, a
noted one a status, an operation not begun has no quote).  The theorems are
`BalancesAreNeverNegative`, `QuotesGrantOnce`, `SubscriptionsFollowTheNewestEvent`,
`RestartsSettleFreeRequests` and `PaymentsRepayDebtFirst`.  `RestartsSettleFreeRequests`
is no property of a run; it says exactly which rows a restart leaves pending: those
without a job, those whose job was over before the restart, and those with tokens at stake.

`ConservationOfTokens` rests on `CInv`, inductive relative to `IInv`: `TokensAreConserved`
with two facts it needs, that what is refunded was granted and that a request that is not
settled has used nothing.  The sums are those of `Payouts`, over the requests and over the
events of the providers.

### DirectRoute, for any number of bytes and breaks

`Order` carries the release of the destination through the messages that follow from it:
its answer, the hub's commit to the source, the source's record.  `Exclusion` ties the
sessions of the workers and the messages under way to the hub's mode.  The theorems are
`SourceIsReleasedLast` and `RoutesExclude`.

`BytesStayInOrder` rests on `BInv`, inductive relative to those two.  It numbers the bytes:

* `Reading`: until the first recovery the source's socket flows only onto a route.
* `DirectWay`: a stream that went direct has no relay session and none on its way, and its
  pipe goes on from what the target has.
* `RelayWay`: the relay session is opened once, and no byte is under way before the target
  has answered.
* `Linked`: a stream that was not yet recovered has its target until it is suspended.
* `Relayed`: there are a `c` and a `d` such that the queue to the target holds exactly the
  bytes from what the target has to `c`, and the queue to the hub those from `c` to `d`.
  While source and hub serve the stream `d` is what the source has sent, so every byte read
  and not yet written is in exactly one place; after a break the bytes that remain are the
  first ones (`RunPrefix`, by a least lost place, `LeastNumber`).

Most handlers, those of a recovery among them, move no byte and choose no route:
`SteadyStep` covers them, and the few others (the commits, the opening of the relay, data, a break) have a lemma each.

### Only model-checked

* Liveness (`JobsEnd`, `EndsTogether`, `BytesArrive`, `CommandsClose`, `Settles`,
  `LaunchSettles`, `DeadStageEndsLaunch`, `StagesAreReaped`, `NodeComesUp`,
  `EventsTakeEffect`, `NegotiationIsDecided`, `RouteIsReleased`): the prover does not
  reason about fairness.
* The rows of the disagreements above: each is refuted on one instance.

The safety invariants, action properties and refinements of the passing runs are all
proved, `PaidOnce` from `~LookupErrors` and `IsPipe` from `~LossWhileOpening`.

## Other things met on the way

None of these has a run; each can be followed in the module named.

* `NodeCommands`: a command interrupted by a crash whose row then expires stays in the
  journal as applying, and every later snapshot is refused (`Wedged`).  An uninstall armed
  whose helper has timed out or failed stops the node at every reconciliation (`Stranded`).
  `Settles` names both as exceptions.  Limits and policy set by two commands overwrite each other until the
  next reconciliation.
* `ComponentUpdate`: a second activation before the first has booted replaces the marker
  (`hasty`); a damaged fallback leaves a component that does not boot in place; a release
  that failed to boot is not recorded as rejected and is offered again.
* `LaunchSupervisor`: a superseded connection emits no disconnect, so a stage lost with
  it is not noticed (`DeadStageEndsLaunch` names it).
* `DirectRoute`: a source that is resumed while it negotiates is not told that the stream
  is open, and stays as it is (`NegotiationIsDecided` names it).
* `Billing`: requests that reserved tokens stay pending after a restart, as
  `api-access.ts:370` says; so do free ones that a crash caught before `attachJob` or
  after the end of their job, and each keeps its place among `maxConcurrent`; a top-up paid after its quote expired is refused for ever.
* `Payouts`: a payout rejected after its reference was known stays submitted, and no
  operation releases it (`storage/database.ts:1671`); the triggers about time
  (`storage/database.ts:1522`) refuse legal transitions when the clock goes back, and
  clocks are not modelled.

## Not modelled

* Model activation and deployments, activation checkpoints, node enrollment and
  ownership transfer, release upload, artifact swarm, mobile compute and cloud sync have
  protocol state of their own that the modules here do not reach; `PROJECT.json` gives
  a reason for each.  Model activation is the next candidate: it decides which launches
  of `LaunchSupervisor` to start.
* Cryptography and signatures, HTTP parsing and authorization, planners and simulators
  (numeric optimisation), the landing page and panels, operating system integration, the
  Python tensor runtime: no state that these methods say anything about.  They are most of
  the repository's lines, which is why the modules cover a small share of them.
* `MeshService` is not composed with worker agents over channels: its workers may send
  anything at any time, which is the stronger assumption for safety.
