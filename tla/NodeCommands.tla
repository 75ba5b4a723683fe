---------------------------- MODULE NodeCommands ----------------------------
(***************************************************************************)
(* The owner's control plane of one enrolled node: the coordinator's       *)
(* durable command queue and desired state, and the node's poll loop with  *)
(* its write-ahead journal, its command applicator, its reconciliation and *)
(* the restarts and crashes of the node process.                           *)
(*                                                                         *)
(*   coordinator/node-command-store.ts         row, result, events         *)
(*   coordinator/node-reconciliation-store.ts  desired, seen               *)
(*   coordinator/server.ts                     the four routes             *)
(*   node/command-client.ts                    pc, batch                   *)
(*   node/command-executor.ts                  journal, verdict            *)
(*   node/command-applicator.ts                todo, release, after        *)
(*   node/control-state.ts, config-store.ts    control, config             *)
(*   node/reconciliation-state.ts              cursor                      *)
(*   node/uninstall-helper.ts                  requests, armed             *)
(*   node/main.ts                              Boot, BootFails, Crash      *)
(*                                                                         *)
(* A coordinator route is one synchronous transaction, hence one step.     *)
(* The node's loop is one step per await that touches durable or shared    *)
(* state, so that a crash can fall between any two of them.  Commands are  *)
(* numbered in the order of created_at; one ownership generation is        *)
(* modelled (a rotation starts every store afresh).                        *)
(***************************************************************************)
EXTENDS Integers, Sequences, FiniteSets, FiniteSetsExt

CONSTANTS
    MaxCommands,  \* bound: commands the owner issues
    Kinds,        \* the command types the owner uses
    MaxFaults,    \* bound: crashes, lost replies and failed agent calls
    KeepAlive     \* does the service manager restart a clean exit?
                  \* launchd's KeepAlive does, systemd's Restart=on-failure does not

ASSUME NodeCommandsAssumption ==
    /\ MaxCommands \in Nat \ {0}
    /\ MaxFaults \in Nat
    /\ KeepAlive \in BOOLEAN
    /\ Kinds \subseteq {"pause", "resume", "drain", "set-limits", "set-policy",
                        "update", "update-dev", "revoke", "uninstall"}

Commands == 1 .. MaxCommands
Open     == {"queued", "delivered"}
Verdicts == {"applied", "rejected", "expired"}

VARIABLES
    \* the coordinator's database
    row,       \* node_commands.state, "none" before the insert
    kind,      \* the command's type
    result,    \* node_command_results
    desired,   \* node_desired_states, "seeded" FALSE while there is no row
    seen,      \* node_snapshots.cursor_sequence, -1 while there is no row
    events,    \* length of the node's event chain: its latest sequence
    \* requests the node gave up on that the coordinator has not handled yet
    latePull,
    lateResults,
    \* the node's disk
    journal,   \* commands-generation-N.json
    control,   \* control.json
    config,    \* the node configuration (limits, policy and update channel)
    backup,    \* its .previous file, which every save copies first
    cursor,    \* reconciliation.json
    requests,  \* uninstall-requests/*.json, by command
    armed,     \* uninstall-requests/*.armed, by command
    helpers,   \* detached uninstall helpers waiting for their .armed file
    pending,   \* pending-activation.json names the active component
    \* the node's process
    pc,
    batch,     \* the pulled commands still to be executed, lowest first
    todo,      \* the awaits left of the command or of the reconciliation
    verdict,   \* how the command being applied will be sealed
    agent,     \* WorkerAgent: contributionEnabled and updateDraining
    release,   \* drainRelease: none, held, or spent (called, still stored)
    loaded,    \* the configuration the process booted with
    after,     \* restartAfterAck and stopAfterAck (0: null)
    quit,      \* agent.stop() or a restart is due once the cursor is saved
    reply,     \* the reconciliation result being applied
    expired,   \* commands the node's clock has found past their expiresAt
    \* bookkeeping of the model
    ran,       \* history: commands whose effect ran to its end
    faults

netVars == <<latePull, lateResults>>
coordinatorVars == <<row, kind, result, desired, seen, events, netVars>>
diskVars == <<journal, control, config, backup, cursor, requests, armed, helpers, pending>>
processVars == <<pc, batch, todo, verdict, agent, release, loaded, after, quit, reply>>
vars == <<coordinatorVars, diskVars, processVars, expired, ran, faults>>

NoResult == [verdict |-> "none", id |-> 0]
Idle     == [restart |-> 0, stop |-> 0]
NoReply  == [limits |-> 0, policy |-> 0, channel |-> "stable", acked |-> {}, latest |-> 0]
Issued   == {c \in Commands : row[c] # "none"}
\* The channel that an update names: "update" names the one of a fresh node.
Channel(k) == IF k = "update-dev" THEN "dev" ELSE "stable"
Current  == CHOOSE c \in batch : \A d \in batch : c <= d
Running  == pc \notin {"crashed", "exited", "removed"}

-----------------------------------------------------------------------------
(* The coordinator                                                          *)

\* updateDesiredState: how a command of kind k changes the desired state.  The
\* limits and the policy are named by the command that set them.
Project(d, k, c) ==
    CASE k = "pause"      -> [d EXCEPT !.contribution = FALSE]
      [] k = "resume"     -> [d EXCEPT !.contribution = TRUE, !.drain = FALSE]
      [] k = "drain"      -> [d EXCEPT !.drain = TRUE]
      [] k = "set-limits" -> [d EXCEPT !.limits = c]
      [] k = "set-policy" -> [d EXCEPT !.policy = c]
      [] k \in {"update", "update-dev"} -> [d EXCEPT !.channel = Channel(k)]
      [] k \in {"revoke", "uninstall"} ->
            [d EXCEPT !.contribution = FALSE, !.drain = TRUE]
      [] OTHER -> d

\* readOrSeedDesired: the first snapshot seeds the row from what the node
\* reports, then replayDesiredCommands replays, lowest first, the commands that
\* have not expired.
Seed == [seeded |-> TRUE, contribution |-> control.contribution, drain |-> control.draining,
         limits |-> config.limits, policy |-> config.policy, channel |-> config.channel]
Replay(c, d) == IF row[c] \in {"none", "expired"} THEN d ELSE Project(d, kind[c], c)
Replayed == MapThenFoldSet(Replay, Seed, LAMBDA c : c, Max, Commands)
ReadOrSeedDesired == IF desired.seeded THEN desired ELSE Replayed

\* enqueue: the row, the desired state and the event in one transaction.
Enqueue(c, k) ==
    /\ row[c] = "none"
    /\ Issued = 1 .. c - 1
    /\ row' = [row EXCEPT ![c] = "queued"]
    /\ kind' = [kind EXCEPT ![c] = k]
    /\ desired' = IF desired.seeded THEN Project(desired, k, c) ELSE desired
    /\ events' = events + 1
    /\ UNCHANGED <<result, seen, netVars, diskVars, processVars, expired, ran, faults>>

-----------------------------------------------------------------------------
(* The node: one pass of runNodeCommandClient                               *)

\* An exchange whose reply is lost, and an agent call that throws, spend a
\* fault; the loop's catch drops the batch and polls again.
Fault == faults < MaxFaults /\ faults' = faults + 1
NoFault == UNCHANGED faults
Retry == pc' = "poll" /\ batch' = {} /\ todo' = <<>> /\ verdict' = "applied"

\* Variant: a poll that does not repeat what an earlier poll delivered.
PulledOnce(expiring) == {c \in Commands : row[c] = "queued"} \ expiring

\* pull: expirePending retires the open rows that the coordinator's clock finds
\* past their expiresAt, then the queued rows become delivered.
Pulled(expiring) == {c \in Commands : row[c] \in Open} \ expiring
Pull(expiring) ==
    /\ \A c \in expiring : row[c] \in Open
    /\ row' = [c \in Commands |-> IF c \in expiring THEN "expired"
                                  ELSE IF c \in Pulled(expiring) THEN "delivered" ELSE row[c]]
    /\ events' = events + Cardinality(expiring)
                 + Cardinality({c \in Pulled(expiring) : row[c] = "queued"})
    /\ UNCHANGED <<kind, result, desired, seen>>

\* GET commands: answered, or handled with its answer lost, or still under way
\* when the client's ten seconds are over.
PullCommands(expiring) ==
    /\ pc = "poll"
    /\ \/ /\ Pull(expiring)
          /\ batch' = Pulled(expiring)
          /\ pc' = IF Pulled(expiring) = {} THEN "snapshot" ELSE "execute"
          /\ NoFault /\ UNCHANGED netVars
       \/ Pull(expiring) /\ Fault /\ UNCHANGED <<pc, batch, netVars>>
       \/ /\ latePull' = TRUE /\ Fault
          /\ UNCHANGED <<row, kind, result, desired, seen, events, lateResults, pc, batch>>
    /\ UNCHANGED <<diskVars, todo, verdict, agent, release, loaded, after, quit, reply,
                   expired, ran>>

LatePull(expiring) ==
    /\ latePull /\ latePull' = FALSE
    /\ Pull(expiring)
    /\ UNCHANGED <<lateResults, diskVars, processVars, expired, ran, faults>>

\* What apply does for each command type, one step per await.
Steps(k) ==
    CASE k = "pause"      -> <<"store pause", "agent off">>
      [] k = "resume"     -> <<"release", "store undrain", "store resume", "agent on">>
      [] k = "drain"      -> <<"store drain", "begin drain", "wait idle">>
      [] k = "set-limits" -> <<"save limits">>
      [] k = "set-policy" -> <<"save policy">>
      [] k \in {"update", "update-dev"} ->
            <<"store drain", "begin drain", "wait idle", "save channel", "components">>
      [] k = "uninstall"  -> <<"store drain", "begin drain", "wait idle",
                               "store pause", "agent off", "schedule">>
      [] OTHER            -> <<"refuse">>

\* Variant: an expired command skips its effect and keeps the verdict.
ExecuteOnceUnaware ==
    LET c == Current
    IN  /\ pc = "execute"
        /\ \/ /\ journal[c].phase = "complete"
              /\ pc' = "post"
              /\ UNCHANGED <<journal, todo, verdict, expired>>
           \/ /\ journal[c].phase # "complete"
              /\ expired' \in {expired, expired \cup {c}}
              /\ journal' = [journal EXCEPT ![c].phase = "applying"]
              /\ pc' = "apply"
              /\ todo' = IF c \in expired' THEN <<>> ELSE Steps(kind[c])
              /\ verdict' = "applied"
        /\ UNCHANGED <<coordinatorVars, control, config, backup, cursor, requests, armed, helpers, pending,
                       batch, agent, release, loaded, after, quit, reply, ran, faults>>

\* executeOnce: a sealed command returns its result, one that the node's clock
\* finds expired is sealed without applying it, any other is journalled as
\* applying before it is applied.
ExecuteOnce ==
    LET c == Current
    IN  /\ pc = "execute"
        /\ \/ /\ journal[c].phase = "complete"
              /\ pc' = "post"
              /\ UNCHANGED <<journal, todo, verdict, expired>>
           \/ /\ journal[c].phase # "complete"
              /\ expired' \in {expired, expired \cup {c}}
              /\ journal' = [journal EXCEPT ![c].phase = "applying"]
              /\ pc' = "apply"
              /\ todo' = IF c \in expired' THEN <<>> ELSE Steps(kind[c])
              /\ verdict' = IF c \in expired' THEN "expired" ELSE "applied"
        /\ UNCHANGED <<coordinatorVars, control, config, backup, cursor, requests, armed, helpers, pending,
                       batch, agent, release, loaded, after, quit, reply, ran, faults>>

\* A failed step ends the command as rejected, or the reconciliation in onError.
Fail == IF pc = "apply"
        THEN todo' = <<>> /\ verdict' = "rejected" /\ UNCHANGED <<pc, batch, ran>>
        ELSE Retry /\ UNCHANGED ran
Proceed ==
    /\ todo' = Tail(todo)
    /\ ran' = IF pc = "apply" /\ Len(todo) = 1 THEN ran \cup {Current} ELSE ran
    /\ UNCHANGED <<pc, batch, verdict>>
At(step) == pc \in {"apply", "reconcile"} /\ todo # <<>> /\ Head(todo) = step

\* NodeControlStateStore.setContributionEnabled and setDraining.
StoreControl ==
    /\ \/ At("store pause")   /\ control' = [control EXCEPT !.contribution = FALSE]
       \/ At("store resume")  /\ control' = [control EXCEPT !.contribution = TRUE]
       \/ At("store drain")   /\ control' = [control EXCEPT !.draining = TRUE]
       \/ At("store undrain") /\ control' = [control EXCEPT !.draining = FALSE]
    /\ Proceed
    /\ UNCHANGED <<coordinatorVars, journal, config, backup, cursor, requests, armed, helpers, pending, agent,
                   release, loaded, after, quit, reply, expired, faults>>

\* WorkerAgent.setContributionEnabled: the flag is set, then the heartbeat may throw.
SetContribution ==
    /\ \/ At("agent off") /\ agent' = [agent EXCEPT !.enabled = FALSE]
       \/ At("agent on")  /\ agent' = [agent EXCEPT !.enabled = TRUE]
    /\ \/ Proceed /\ NoFault
       \/ Fail /\ Fault
    /\ UNCHANGED <<coordinatorVars, diskVars, release, loaded, after, quit, reply, expired>>

\* drainRelease ??= await agent.beginRuntimeUpdateDrain(): nothing while a
\* release function is stored; a heartbeat that throws undoes the drain.
BeginDrain ==
    /\ At("begin drain")
    /\ \/ release # "none" /\ Proceed /\ NoFault /\ UNCHANGED <<agent, release>>
       \/ /\ release = "none"
          /\ agent' = [agent EXCEPT !.draining = TRUE] /\ release' = "held"
          /\ Proceed /\ NoFault
       \/ release = "none" /\ Fail /\ Fault /\ UNCHANGED <<agent, release>>
    /\ UNCHANGED <<coordinatorVars, diskVars, loaded, after, quit, reply, expired>>

\* if (drainRelease) { await drainRelease(); drainRelease = null }: the release
\* clears the agent's flag, then its heartbeat may throw and leave it stored.
Release ==
    /\ At("release")
    /\ agent' = IF release = "held" THEN [agent EXCEPT !.draining = FALSE] ELSE agent
    /\ \/ release' = "none" /\ Proceed /\ NoFault
       \/ release = "held" /\ release' = "spent" /\ Fail /\ Fault
    /\ UNCHANGED <<coordinatorVars, diskVars, loaded, after, quit, reply, expired>>

\* waitForIdle: the work drains, or the deadline passes first.
WaitForIdle ==
    /\ At("wait idle")
    /\ Proceed \/ Fail
    /\ UNCHANGED <<coordinatorVars, diskVars, agent, release, loaded, after, quit, reply,
                   expired, faults>>

\* NodeConfigurationStore.save: the file on disk becomes the backup.
Save(next) == config' = next /\ backup' = config

\* set-limits, set-policy and an update to another channel save the configuration
\* the process booted with and the one changed section; the reconciliation saves
\* every desired section.
ChannelChanged == Channel(kind[Current]) # loaded.channel
SaveConfiguration ==
    /\ \/ /\ At("save limits")
          /\ Save([loaded EXCEPT !.limits = Current])
          /\ after' = [after EXCEPT !.restart = Current]
          /\ UNCHANGED quit
       \/ /\ At("save policy")
          /\ Save([loaded EXCEPT !.policy = Current])
          /\ after' = [after EXCEPT !.restart = Current]
          /\ UNCHANGED quit
       \/ /\ At("save channel")
          /\ IF ChannelChanged THEN Save([loaded EXCEPT !.channel = Channel(kind[Current])])
             ELSE UNCHANGED <<config, backup>>
          /\ UNCHANGED <<after, quit>>
       \/ /\ At("save desired")
          /\ Save([limits |-> reply.limits, policy |-> reply.policy, channel |-> reply.channel])
          /\ quit' = TRUE
          /\ UNCHANGED after
    /\ Proceed
    /\ UNCHANGED <<coordinatorVars, journal, control, cursor, requests, armed, helpers, pending, agent,
                   release, loaded, reply, expired, faults>>

\* components.update: a component was activated and its boot-health marker
\* written, or nothing changed, and either a new component or a new channel asks
\* for a restart; or the operation threw, and a changed channel is rolled back to
\* the backup, where the rollback's own failure is swallowed.
ApplyComponents ==
    /\ At("components")
    /\ \/ /\ pending' = TRUE /\ after' = [after EXCEPT !.restart = Current]
          /\ Proceed /\ UNCHANGED config
       \/ /\ after' = IF ChannelChanged THEN [after EXCEPT !.restart = Current] ELSE after
          /\ Proceed /\ UNCHANGED <<pending, config>>
       \/ /\ Fail
          /\ config' \in IF ChannelChanged THEN {backup, config} ELSE {config}
          /\ UNCHANGED <<pending, after>>
    /\ UNCHANGED <<coordinatorVars, journal, control, backup, cursor, requests, armed, helpers, agent,
                   release, loaded, quit, reply, expired, faults>>

\* NodeUninstallScheduler.schedule: the request file is written and renamed.
WriteRequest ==
    /\ Current \notin requests
    /\ requests' = requests \cup {Current}
    /\ UNCHANGED <<helpers, after, pc, batch, todo, verdict, ran, faults>>

\* Variant: the helper is started before its request is written.
StartHelperFirst ==
    /\ helpers' = helpers \cup {Current}
    /\ after' = [after EXCEPT !.stop = Current]
    /\ Proceed
    /\ UNCHANGED <<requests, faults>>

\* ... then the helper is spawned on it and the receipt returned.
StartHelper ==
    /\ Current \in requests
    /\ helpers' = helpers \cup {Current}
    /\ after' = [after EXCEPT !.stop = Current]
    /\ Proceed
    /\ UNCHANGED <<requests, faults>>

\* Reading the manifest, writing the request and the spawn may throw: the
\* command is rejected, with a request on disk or without.
ScheduleUninstall ==
    /\ At("schedule")
    /\ \/ WriteRequest
       \/ StartHelper
       \/ Fail /\ Fault /\ UNCHANGED <<requests, helpers, after>>
    /\ UNCHANGED <<coordinatorVars, journal, control, config, backup, cursor, armed, pending, agent,
                   release, loaded, quit, reply, expired>>

\* revoke is refused by the applicator.
Refuse ==
    /\ At("refuse") /\ Fail
    /\ UNCHANGED <<coordinatorVars, diskVars, agent, release, loaded, after, quit, reply,
                   expired, faults>>

\* finish: the result gets a fresh id and is sealed in the journal.
Finish ==
    LET c == Current
    IN  /\ pc = "apply" /\ todo = <<>>
        /\ journal' = [journal EXCEPT ![c] =
                         [phase |-> "complete",
                          result |-> [verdict |-> verdict,
                                      id |-> 1 + Cardinality({d \in Commands :
                                                   journal[d].phase = "complete"})]]]
        /\ pc' = "post" /\ verdict' = "applied"
        /\ UNCHANGED <<coordinatorVars, control, config, backup, cursor, requests, armed, helpers, pending,
                       batch, todo, agent, release, loaded, after, quit, reply,
                       expired, ran, faults>>

\* Variant: a result reopens and closes a row that has expired.
RecordResultLate(c, r) ==
    /\ result' = [result EXCEPT ![c] = r]
    /\ row' = IF result[c] = NoResult THEN [row EXCEPT ![c] = r.verdict]
              ELSE row
    /\ events' = IF result[c] = NoResult THEN events + 1 ELSE events
    /\ UNCHANGED <<kind, desired, seen>>

\* recordResult: a replay of the recorded result is accepted, another result for
\* the command is a conflict; a row that is no longer open keeps its state.
Acceptable(c, r) == result[c] \in {NoResult, r}
RecordResult(c, r) ==
    /\ result' = [result EXCEPT ![c] = r]
    /\ row' = IF result[c] = NoResult /\ row[c] \in Open THEN [row EXCEPT ![c] = r.verdict]
              ELSE row
    /\ events' = IF result[c] = NoResult THEN events + 1 ELSE events
    /\ UNCHANGED <<kind, desired, seen>>

\* POST commands/results: acknowledged, or recorded with the answer lost, or
\* still under way when the client gives up.
PostResult ==
    LET c == Current
        r == journal[c].result
    IN  /\ pc = "post"
        /\ \/ /\ Acceptable(c, r) /\ RecordResult(c, r)
              /\ pc' = "acknowledged"
              /\ NoFault /\ UNCHANGED <<netVars, batch, todo, verdict>>
           \/ Acceptable(c, r) /\ RecordResult(c, r) /\ Retry /\ Fault /\ UNCHANGED netVars
           \/ /\ lateResults' = lateResults \cup {[command |-> c, result |-> r]}
              /\ Retry /\ Fault
              /\ UNCHANGED <<row, kind, result, desired, seen, events, latePull>>
           \/ ~Acceptable(c, r) /\ Retry /\ NoFault /\ UNCHANGED coordinatorVars
        /\ UNCHANGED <<diskVars, agent, release, loaded, after, quit, reply, expired, ran>>

LateResult(m) ==
    /\ lateResults' = lateResults \ {m}
    /\ IF Acceptable(m.command, m.result) THEN RecordResult(m.command, m.result)
       ELSE UNCHANGED <<row, kind, result, desired, seen, events>>
    /\ UNCHANGED <<latePull, diskVars, processVars, expired, ran, faults>>

\* onAcknowledged: takeRestartAfterAck or armStopAfterAck stops the agent, which
\* ends the process; otherwise the loop goes on.
OnAcknowledged ==
    LET c       == Current
        applied == journal[c].result.verdict = "applied"
        restart == applied /\ after.restart = c
        stop    == applied /\ ~restart /\ after.stop = c
    IN  /\ pc = "acknowledged"
        /\ armed' = IF stop THEN armed \cup {c} ELSE armed
        /\ after' = [restart |-> IF restart THEN 0 ELSE after.restart,
                     stop |-> IF stop THEN 0 ELSE after.stop]
        /\ batch' = batch \ {c}
        /\ pc' = IF restart \/ stop THEN "exited"
                 ELSE IF batch = {c} THEN "snapshot" ELSE "execute"
        /\ UNCHANGED <<coordinatorVars, journal, control, config, backup, cursor, requests, helpers, pending,
                       todo, verdict, agent, release, loaded, quit, reply, expired, ran, faults>>

\* Variant: a reconciliation that leaves the drain alone.
ReconcileContribution(d, acked) ==
    IF requests \cap acked # {} THEN <<"arm">>
    ELSE (CASE d.contribution = control.contribution -> <<>>
               [] d.contribution /\ ~control.contribution -> <<"store resume">>
               [] OTHER -> <<"store pause">>)
         \o (IF d.contribution /\ ~d.drain THEN <<"agent on">> ELSE <<"agent off">>)
         \o (IF config = [limits |-> d.limits, policy |-> d.policy, channel |-> d.channel] THEN <<>>
             ELSE <<"save desired">>)

\* What onReconciled does with a reply, one step per await.
ReconcileSteps(d, acked) ==
    IF requests \cap acked # {} THEN <<"arm">>
    ELSE (CASE d.drain = control.draining -> <<>>
            [] d.drain /\ ~control.draining -> <<"store drain", "begin drain">>
            [] OTHER -> <<"release", "store undrain">>)
         \o (CASE d.contribution = control.contribution -> <<>>
               [] d.contribution /\ ~control.contribution -> <<"store resume">>
               [] OTHER -> <<"store pause">>)
         \o (IF d.contribution /\ ~d.drain THEN <<"agent on">> ELSE <<"agent off">>)
         \o (IF config = [limits |-> d.limits, policy |-> d.policy, channel |-> d.channel] THEN <<>>
             ELSE <<"save desired">>)

\* The snapshot's cursor does not regress and every command it calls active is
\* still open: what reconcile demands before it stores a snapshot.
Active == {c \in Commands : journal[c].phase = "applying"}
SnapshotAccepted == cursor >= seen /\ \A c \in Active : row[c] \in Open

\* POST snapshot: reconcile, and the reply's way back to the node.
PostSnapshot ==
    LET d     == ReadOrSeedDesired
        acked == {c \in Commands : row[c] = "applied"}
    IN  /\ pc = "snapshot" /\ SnapshotAccepted
        /\ desired' = d
        /\ seen' = cursor
        /\ \/ /\ reply' = [limits |-> d.limits, policy |-> d.policy, channel |-> d.channel,
                           acked |-> acked, latest |-> events]
              /\ todo' = ReconcileSteps(d, acked)
              /\ pc' = "reconcile"
              /\ NoFault
              /\ UNCHANGED <<batch, verdict>>
           \/ Retry /\ Fault /\ UNCHANGED reply
        /\ UNCHANGED <<row, kind, result, events, netVars, diskVars, agent, release, loaded,
                       after, quit, expired, ran>>

SnapshotRefused ==
    /\ pc = "snapshot" /\ ~SnapshotAccepted
    /\ Retry
    /\ UNCHANGED <<coordinatorVars, diskVars, agent, release, loaded, after, quit, reply,
                   expired, ran, faults>>

\* armAcknowledged arms every stored request the coordinator has acknowledged.
ArmAcknowledged ==
    /\ At("arm")
    /\ armed' = armed \cup (requests \cap reply.acked)
    /\ quit' = TRUE
    /\ Proceed
    /\ UNCHANGED <<coordinatorVars, journal, control, config, backup, cursor, requests, helpers, pending, agent,
                   release, loaded, after, reply, expired, faults>>

\* state.save after onReconciled, then onSnapshotAcknowledged.
SaveCursor ==
    /\ pc = "reconcile" /\ todo = <<>>
    /\ cursor' = reply.latest
    /\ pc' = IF quit THEN "exited" ELSE "poll"
    /\ reply' = NoReply
    /\ UNCHANGED <<coordinatorVars, journal, control, config, backup, requests, armed, helpers, pending, batch,
                   todo, verdict, agent, release, loaded, after, quit, expired, ran, faults>>

-----------------------------------------------------------------------------
(* The node's process, and the uninstall helper                             *)

\* What a dead process leaves of its memory.
Forget ==
    /\ batch' = {} /\ todo' = <<>> /\ verdict' = "applied"
    /\ agent' = [enabled |-> FALSE, draining |-> FALSE] /\ release' = "none"
    /\ loaded' = config /\ after' = Idle /\ quit' = FALSE /\ reply' = NoReply

Crash ==
    /\ Running /\ Fault
    /\ Forget /\ pc' = "crashed"
    /\ UNCHANGED <<coordinatorVars, diskVars, expired, ran>>

\* main: the service manager starts the process, a drain on disk is restored and
\* the agent starts.
Starts == pc = "crashed" \/ (pc = "exited" /\ KeepAlive)
Boot ==
    /\ Starts
    /\ pc' = IF pending THEN "mark" ELSE "poll"
    /\ batch' = {} /\ todo' = <<>> /\ verdict' = "applied"
    /\ agent' = [enabled  |-> control.contribution /\ ~control.draining,
                 draining |-> control.draining]
    /\ release' = IF control.draining THEN "held" ELSE "none"
    /\ loaded' = config
    /\ after' = Idle /\ quit' = FALSE /\ reply' = NoReply
    /\ UNCHANGED <<coordinatorVars, diskVars, expired, ran, faults>>

\* A pending activation is marked healthy once the agent is ready ...
MarkHealthy ==
    /\ pc = "mark" /\ pc' = "undrain"
    /\ pending' = FALSE
    /\ UNCHANGED <<coordinatorVars, journal, control, config, backup, cursor, requests, armed, helpers,
                   batch, todo, verdict, agent, release, loaded, after, quit, reply, expired,
                   ran, faults>>

\* ... then the stored drain is cleared and the agent enabled again; the release
\* of a restored drain stays stored.
Undrain ==
    /\ pc = "undrain" /\ pc' = "poll"
    /\ control' = [control EXCEPT !.draining = FALSE]
    /\ agent' = IF control.contribution THEN [agent EXCEPT !.enabled = TRUE] ELSE agent
    /\ UNCHANGED <<coordinatorVars, journal, config, backup, cursor, requests, armed, helpers, pending,
                   batch, todo, verdict, release, loaded, after, quit, reply, expired, ran,
                   faults>>

\* A boot that fails on a pending activation rolls it back and exits in error.
BootFails ==
    /\ Starts \/ pc = "mark"
    /\ pending /\ pending' = FALSE
    /\ Forget /\ pc' = "crashed"
    /\ UNCHANGED <<coordinatorVars, journal, control, config, backup, cursor, requests, armed, helpers,
                   expired, ran, faults>>

\* The helper ends without removing anything: waitForUninstallArm gives up
\* before the request is armed, or the executor refuses, for instance because
\* the receipt of another request is already there.
HelperEnds(c) ==
    /\ c \in helpers /\ Fault
    /\ helpers' = helpers \ {c}
    /\ UNCHANGED <<coordinatorVars, journal, control, config, backup, cursor, requests, armed, pending,
                   processVars, expired, ran>>

\* A waiting helper finds its request armed and disables the service, then
\* deletes the files.  The node is removed once its service is disabled: a
\* deletion that fails afterwards leaves files behind that nothing runs.
RemoveNode ==
    /\ helpers \cap armed # {} /\ pc # "removed"
    /\ Forget /\ pc' = "removed"
    /\ UNCHANGED <<coordinatorVars, diskVars, expired, ran, faults>>

-----------------------------------------------------------------------------
Init ==
    /\ row = [c \in Commands |-> "none"]
    /\ kind = [c \in Commands |-> "none"]
    /\ result = [c \in Commands |-> NoResult]
    /\ desired = [seeded |-> FALSE, contribution |-> TRUE, drain |-> FALSE,
                  limits |-> 0, policy |-> 0, channel |-> "stable"]
    /\ seen = -1 /\ events = 0
    /\ latePull = FALSE /\ lateResults = {}
    /\ expired = {}
    /\ journal = [c \in Commands |-> [phase |-> "none", result |-> NoResult]]
    /\ control = [contribution |-> TRUE, draining |-> FALSE]
    /\ config = [limits |-> 0, policy |-> 0, channel |-> "stable"] /\ backup = config
    /\ cursor = 0
    /\ requests = {} /\ armed = {} /\ helpers = {} /\ pending = FALSE
    /\ pc = "poll" /\ batch = {} /\ todo = <<>> /\ verdict = "applied"
    /\ agent = [enabled |-> TRUE, draining |-> FALSE]
    /\ release = "none"
    /\ loaded = config
    /\ after = Idle /\ quit = FALSE /\ reply = NoReply
    /\ ran = {} /\ faults = 0

Step == StoreControl \/ SetContribution \/ BeginDrain \/ Release \/ WaitForIdle
        \/ SaveConfiguration \/ ApplyComponents \/ ScheduleUninstall \/ Refuse
        \/ ArmAcknowledged
Loop == (\E expiring \in SUBSET Commands : PullCommands(expiring))
        \/ ExecuteOnce \/ Step \/ Finish \/ PostResult
        \/ OnAcknowledged \/ PostSnapshot \/ SnapshotRefused \/ SaveCursor
Start == Boot \/ MarkHealthy \/ Undrain \/ BootFails

Next ==
    \/ \E c \in Commands, k \in Kinds : Enqueue(c, k)
    \/ Loop
    \/ \E expiring \in SUBSET Commands : LatePull(expiring)
    \/ \E m \in lateResults : LateResult(m)
    \/ Crash \/ Start \/ RemoveNode \/ (\E c \in Commands : HelperEnds(c))

Spec == Init /\ [][Next]_vars
FairSpec == Spec /\ WF_vars(Loop) /\ WF_vars(Start) /\ WF_vars(RemoveNode)

-----------------------------------------------------------------------------
(* Properties                                                               *)

Sections == [limits : 0 .. MaxCommands, policy : 0 .. MaxCommands, channel : {"stable", "dev"}]
Results == [verdict : Verdicts \cup {"none"}, id : 0 .. MaxCommands]

TypeOK ==
    /\ row \in [Commands -> {"none"} \cup Open \cup Verdicts]
    /\ kind \in [Commands -> {"none"} \cup Kinds]
    /\ result \in [Commands -> Results]
    /\ desired \in [seeded : BOOLEAN, contribution : BOOLEAN, drain : BOOLEAN,
                    limits : 0 .. MaxCommands, policy : 0 .. MaxCommands,
                    channel : {"stable", "dev"}]
    /\ seen \in Nat \cup {-1} /\ events \in Nat /\ cursor \in Nat
    /\ latePull \in BOOLEAN /\ lateResults \subseteq [command : Commands, result : Results]
    /\ journal \in [Commands -> [phase : {"none", "applying", "complete"}, result : Results]]
    /\ control \in [contribution : BOOLEAN, draining : BOOLEAN]
    /\ config \in Sections /\ backup \in Sections /\ loaded \in Sections
    /\ requests \subseteq Commands /\ armed \subseteq requests /\ helpers \subseteq requests
    /\ pending \in BOOLEAN
    /\ pc \in {"poll", "execute", "apply", "post", "acknowledged", "snapshot",
               "reconcile", "mark", "undrain", "crashed", "exited", "removed"}
    /\ batch \subseteq Commands
    /\ verdict \in Verdicts
    /\ agent \in [enabled : BOOLEAN, draining : BOOLEAN]
    /\ release \in {"none", "held", "spent"}
    /\ after \in [restart : 0 .. MaxCommands, stop : 0 .. MaxCommands]
    /\ quit \in BOOLEAN
    /\ reply \in [limits : 0 .. MaxCommands, policy : 0 .. MaxCommands,
                  channel : {"stable", "dev"},
                  acked : SUBSET Commands, latest : Nat]
    /\ expired \subseteq Commands /\ ran \subseteq Commands
    /\ faults \in 0 .. MaxFaults

\* What the owner reads about a command is what happened on the node, whatever
\* was lost, repeated or interrupted: a recorded result is the one the node's
\* journal sealed (so a repeated POST is never answered with
\* node_command_result_conflict), and a result "applied" means that the
\* command's effect ran to its end at least once.
ReportsAreTrue ==
    \A c \in Commands : result[c] # NoResult =>
        /\ journal[c].phase = "complete" /\ journal[c].result = result[c]
        /\ result[c].verdict = "applied" => c \in ran

\* The helper that deletes the installation is armed only for an uninstall that
\* the coordinator has recorded as applied, also when the node crashes between
\* the acknowledgement and the arming and armAcknowledged completes it later.
ArmedIsAcknowledged ==
    \A c \in armed : kind[c] = "uninstall" /\ result[c].verdict = "applied"

\* A snapshot is never refused for a cursor that went backwards: the cursor the
\* node sends is at least the one the coordinator stored, through lost replies
\* and crashes before the cursor is saved.
CursorNeverRegresses == seen <= cursor /\ cursor <= events

\* The commands behave as the owner is promised (module CommandLedger): closed
\* once and for all, performed only after they were handed over, applied only
\* after they were performed.
Ledger == INSTANCE CommandLedger WITH status <- row, performed <- ran
IsLedger == Ledger!LedgerSpec

\* Every command the owner issues is decided: applied, rejected or expired,
\* unless the installation is removed first.
CommandsClose ==
    \A c \in Commands : row[c] \in Open ~> (row[c] \in Verdicts \/ pc = "removed")

\* The node follows the desired state.
Converged ==
    /\ Running /\ desired.seeded
    /\ control = [contribution |-> desired.contribution, draining |-> desired.drain]
    /\ config = [limits |-> desired.limits, policy |-> desired.policy, channel |-> desired.channel]
\* A command interrupted while applying whose row the coordinator has retired:
\* it is never pulled again, so its journal entry stays, and every later
\* snapshot names it and is refused.
Wedged == \E c \in Active : row[c] \notin Open

\* An armed uninstall whose helper is gone: the node stops at every reconciliation.
Stranded == armed # {} /\ armed \cap helpers = {}

\* Once the owner and the faults pause, the node's stored settings reach the
\* desired state for good, through any crash, lost reply or failed agent call
\* before.  The exceptions are an interrupted command that expired, and an
\* uninstall: completed, or armed when its helper has given up or failed.
Settles == <>[](Converged \/ Wedged \/ Stranded \/ pc = "removed")

\* A restart the node asks for (restartRequired) brings the node back.
ComesBack == pc = "exited" ~> (Running \/ pc = "removed")

\* The agent refuses new work as "Runtime update in progress" only while the
\* stored control state says that the node is draining.
DrainIsRecorded == pc = "poll" /\ agent.draining => control.draining

\* "The command expired before the node could apply it": a command whose result
\* is expired has not been applied.
ExpiredIsUnapplied == \A c \in Commands : result[c].verdict = "expired" => c \notin ran
=============================================================================
