-------------------------- MODULE ComponentUpdate --------------------------
(***************************************************************************)
(* The signed component (python-product) of one node: ComponentUpdate-     *)
(* Manager, which stages an artifact side by side and moves the active     *)
(* pointer, NodeComponentLifecycle, which guards each activation with a    *)
(* boot-health marker, and the part of node/main.ts and the command        *)
(* executor that boots, reverts, restarts and replays.  The process may    *)
(* die between any two awaits, a write may fail before or after its        *)
(* rename, and files may be damaged.                                       *)
(*                                                                         *)
(* One channel and one pinned key.  The node always reports idle and       *)
(* always grants the activation lease (node/main.ts), so "waiting-idle" is *)
(* not reached.  A lease file of a dead process counts for nothing, so     *)
(* `leased` is memory.                                                     *)
(***************************************************************************)
EXTENDS Naturals, FiniteSets, FiniteSetsExt

CONSTANTS
    Manifests,    \* 1 .. n, numbered by their sequence
    Artifacts,    \* digests
    Artifact,     \* the component's digest in each manifest
    MaxInstalls,  \* bound: the install ids of one digest
    MaxCommands,  \* bound: commands the owner issues
    MaxFaults     \* bound: crashes, failed writes, lost answers, damaged files

ASSUME ComponentAssumption ==
    /\ Manifests \subseteq Nat \ {0}
    /\ Artifacts \subseteq Nat \ {0}
    /\ Artifact \in [Manifests -> Artifacts]
    /\ MaxInstalls \in Nat /\ MaxCommands \in Nat /\ MaxFaults \in Nat

VARIABLES
    \* the storage root
    state,      \* state.json
    lastGood,   \* state.last-good.json
    pending,    \* pending-activation.json: the manifest it waits for, or 0
    roots,      \* the component roots that are complete
    partial,    \* the component roots with missing or altered files
    cache,      \* the artifacts in the cache
    command,    \* the command the journal holds as applying
    \* the process
    pc, leased, guarded, before, target, candidate, doc, purpose, verdict,
    \* history and bounds
    quality,    \* what booting an artifact has shown: unknown, good, bad
    goal,       \* the root the rollback in progress is to restore
    hurt,       \* the roots damaged by a fault
    hasty,      \* an activation was followed by another without a boot between
    restored,   \* state.json was recovered from the last-good copy
    issued, faults

diskVars == <<state, lastGood, pending, roots, partial, cache>>
jobVars == <<before, target, candidate, doc, purpose, verdict>>
historyVars == <<quality, goal, hurt, hasty, restored>>
vars == <<diskVars, command, pc, leased, guarded, jobVars, historyVars, issued, faults>>

NoRoot      == [artifact |-> 0, install |-> 0]
NoEntry     == [root |-> NoRoot, manifest |-> 0]
NoRejection == [manifest |-> 0, retry |-> "later"]
Empty       == [accepted |-> 0, active |-> NoEntry, previous |-> NoEntry,
                rejected |-> NoRejection]
Missing     == [Empty EXCEPT !.rejected.retry = "missing"]

Roots     == [artifact : Artifacts, install : 1 .. MaxInstalls]
Entries   == [root : Roots, manifest : Manifests] \cup {NoEntry}
Documents == [accepted : Manifests \cup {0}, active : Entries, previous : Entries,
              rejected : [manifest : Manifests \cup {0}, retry : {"later", "never"}]]

Fault   == faults < MaxFaults /\ faults' = faults + 1
NoFault == UNCHANGED faults
ClearJob ==
    /\ before' = Empty /\ target' = 0 /\ candidate' = NoRoot
    /\ doc' = Empty /\ purpose' = "none"

\* verifyInstalledComponentRoot: the artifact is cached and the root's files are
\* exactly the ones it lists.
Usable(e) == e # NoEntry /\ e.root \in roots /\ e.root.artifact \in cache
PendingCurrent == pending # 0 /\ state.active.manifest = pending

\* The roots named by a document, and the one that this process runs from.
Referenced(d) == ({d.active.root, d.previous.root, leased}) \ {NoRoot}

\* readComponentInUseRoots throws when the root of a live lease does not verify.
LeaseIntact == leased = NoRoot \/ (leased \in roots /\ leased.artifact \in cache)

-----------------------------------------------------------------------------
(* Booting: node/main.ts                                                    *)

\* pendingActivationIsCurrent; a marker that names another manifest than the
\* active one is left from a crash before the commit and is removed.  A process
\* that failed is "down", one that ended by itself is "exited".
Boot ==
    /\ pc \in {"down", "exited"}
    /\ guarded' = PendingCurrent
    /\ pending' = IF PendingCurrent THEN pending ELSE 0
    /\ pc' = "resolve"
    /\ UNCHANGED <<state, lastGood, roots, partial, cache, command, leased, jobVars,
                   historyVars, issued, faults>>

\* resolveNodePythonProduct and acquireComponentInUseLease: an active root that
\* does not verify is moved aside, and the bundled runtime is used.
Resolve ==
    /\ pc = "resolve"
    /\ IF Usable(state.active)
       THEN leased' = state.active.root /\ UNCHANGED <<roots, partial>>
       ELSE /\ leased' = NoRoot
            /\ roots' = roots \ {state.active.root}
            /\ partial' = partial \ {state.active.root}
    /\ pc' = "start"
    /\ UNCHANGED <<state, lastGood, pending, cache, command, guarded, jobVars,
                   historyVars, issued, faults>>

\* The runtime reaches the coordinator within its minute, or the boot fails.
\* What an artifact does is settled when it is first booted; a good one, and the
\* bundled runtime, fail only by a fault.
Starts ==
    /\ pc = "start"
    /\ IF leased = NoRoot THEN UNCHANGED quality
       ELSE /\ quality[leased.artifact] # "bad"
            /\ quality' = [quality EXCEPT ![leased.artifact] = "good"]
    /\ pc' = IF guarded THEN "healthy" ELSE "ready"
    /\ UNCHANGED <<diskVars, command, leased, guarded, jobVars, goal, hurt, hasty,
                   restored, issued, faults>>

\* Variant: a failed boot leaves the activation as it is.
FailsForGood ==
    /\ pc = "start"
    /\ \/ /\ leased # NoRoot /\ quality[leased.artifact] # "good"
          /\ quality' = [quality EXCEPT ![leased.artifact] = "bad"]
          /\ NoFault
       \/ Fault /\ UNCHANGED quality
    /\ pc' = "down" /\ leased' = NoRoot
    /\ UNCHANGED <<diskVars, command, guarded, jobVars, goal, hurt, hasty, restored,
                   issued>>

FailsToStart ==
    /\ pc = "start"
    /\ \/ /\ leased # NoRoot /\ quality[leased.artifact] # "good"
          /\ quality' = [quality EXCEPT ![leased.artifact] = "bad"]
          /\ NoFault
       \/ Fault /\ UNCHANGED quality
    /\ IF guarded THEN pc' = "revert" /\ UNCHANGED leased
       ELSE pc' = "down" /\ leased' = NoRoot
    /\ UNCHANGED <<diskVars, command, guarded, jobVars, goal, hurt, hasty, restored,
                   issued>>

\* markActivationHealthy, once the agent is ready.
MarkActivationHealthy ==
    /\ pc = "healthy"
    /\ pending' = 0 /\ guarded' = FALSE
    /\ pc' = "ready"
    /\ UNCHANGED <<state, lastGood, roots, partial, cache, command, leased, jobVars,
                   historyVars, issued, faults>>

\* Variant: the marker goes first.
RollbackFailedForgets ==
    /\ pc = "revert"
    /\ \/ /\ PendingCurrent
          /\ state.previous = NoEntry \/ Usable(state.previous)
          /\ doc' = [state EXCEPT !.active = state.previous, !.previous = NoEntry]
          /\ purpose' = "revert" /\ pending' = 0 /\ pc' = "write"
          /\ NoFault /\ UNCHANGED leased
       \/ /\ ~(PendingCurrent /\ (state.previous = NoEntry \/ Usable(state.previous)))
          /\ pc' = "down" /\ leased' = NoRoot /\ NoFault /\ UNCHANGED <<doc, purpose, pending>>
       \/ Fault /\ pc' = "down" /\ leased' = NoRoot /\ UNCHANGED <<doc, purpose, pending>>
    /\ UNCHANGED <<state, lastGood, roots, partial, cache, command, guarded, before, target, candidate, verdict,
                   historyVars, issued>>

\* rollbackFailedComponentActivation: the candidate gives way to the previous
\* root, which must verify and pass the canary, or to the bundled runtime; it
\* does not become previous.
RollbackFailedActivation ==
    /\ pc = "revert"
    /\ \/ /\ PendingCurrent
          /\ state.previous = NoEntry \/ Usable(state.previous)
          /\ doc' = [state EXCEPT !.active = state.previous, !.previous = NoEntry]
          /\ purpose' = "revert" /\ pc' = "write"
          /\ NoFault /\ UNCHANGED leased
       \/ /\ ~(PendingCurrent /\ (state.previous = NoEntry \/ Usable(state.previous)))
          /\ pc' = "down" /\ leased' = NoRoot /\ NoFault /\ UNCHANGED <<doc, purpose>>
       \/ Fault /\ pc' = "down" /\ leased' = NoRoot /\ UNCHANGED <<doc, purpose>>
    /\ UNCHANGED <<diskVars, command, guarded, before, target, candidate, verdict,
                   historyVars, issued>>

\* markActivationHealthy after the revert; the process then exits in error.
ForgetActivation ==
    /\ pc = "forget"
    /\ pending' = 0 /\ guarded' = FALSE /\ leased' = NoRoot
    /\ pc' = "down"
    /\ UNCHANGED <<state, lastGood, roots, partial, cache, command, jobVars,
                   historyVars, issued, faults>>

-----------------------------------------------------------------------------
(* Writing state.json, then its last-good copy                              *)

Write(d, why) == doc' = d /\ purpose' = why /\ pc' = "write"
Seal(v) == verdict' = v /\ pc' = "seal" /\ ClearJob

\* recordManifestFailure, for a manifest that the state has not accepted; the
\* failure is retried later or, when it is deterministic, never.
RecordManifestFailure(retry) ==
    IF state.accepted >= target THEN Seal("rejected")
    ELSE /\ Write([state EXCEPT !.rejected = [manifest |-> target, retry |-> retry]], "record")
         /\ UNCHANGED <<before, target, candidate, verdict>>

\* What follows a write that succeeded.
Written ==
    \/ /\ purpose \in {"commit", "accept"}
       /\ pc' = "collect" /\ verdict' = IF purpose = "commit" THEN "applied" ELSE "unchanged"
       /\ UNCHANGED <<before, target, candidate, doc, purpose, leased>>
    \/ purpose = "undo" /\ RecordManifestFailure("later") /\ UNCHANGED leased
    \/ purpose = "record" /\ Seal("rejected") /\ UNCHANGED leased
    \/ purpose = "rollback" /\ Seal("applied") /\ UNCHANGED leased
    \/ purpose = "revert" /\ pc' = "forget" /\ ClearJob /\ UNCHANGED <<verdict, leased>>

\* What follows a write that failed.  A failed commit writes the old document
\* again, which covers a rename that was done before the error.
WriteFailed ==
    \/ /\ purpose = "commit" /\ Write(before, "undo")
       /\ UNCHANGED <<before, target, candidate, verdict, leased>>
    \/ purpose \in {"accept", "undo"} /\ RecordManifestFailure("later") /\ UNCHANGED leased
    \/ purpose \in {"record", "rollback"} /\ Seal("rejected") /\ UNCHANGED leased
    \/ purpose = "revert" /\ pc' = "down" /\ ClearJob /\ leased' = NoRoot /\ UNCHANGED verdict

\* writeComponentInstallState: two atomic writes, each of which may fail; the
\* failure of the first may come after its rename, and is then the same as a
\* failure of the second.
WriteState ==
    /\ pc = "write"
    /\ \/ /\ state' = doc /\ pc' = "copy" /\ NoFault
          /\ UNCHANGED <<jobVars, leased>>
       \/ WriteFailed /\ Fault /\ UNCHANGED state
    /\ UNCHANGED <<lastGood, pending, roots, partial, cache, command, guarded,
                   historyVars, issued>>

WriteLastGood ==
    /\ pc = "copy"
    /\ \/ lastGood' = doc /\ Written /\ NoFault
       \/ WriteFailed /\ Fault /\ UNCHANGED lastGood
    /\ UNCHANGED <<state, pending, roots, partial, cache, command, guarded,
                   historyVars, issued>>

-----------------------------------------------------------------------------
(* An update: checkAndApplyOnce                                             *)

\* A command of the owner is journalled as applying; one that a crash
\* interrupted is pulled and applied again.
Execute ==
    /\ pc = "ready"
    /\ \/ /\ command = "none" /\ issued < MaxCommands /\ issued' = issued + 1
          /\ command' \in {"update", "rollback"}
          /\ goal' = state.previous.root
       \/ command # "none" /\ UNCHANGED <<command, goal, issued>>
    /\ pc' = IF command' = "update" THEN "check" ELSE "swap"
    /\ UNCHANGED <<diskVars, leased, guarded, jobVars, quality, hurt, hasty,
                   restored, faults>>

\* The active root was activated after this process started: its own marker is
\* all that guards it until it has been booted.
Unbooted == state.active.root \in roots \ {leased}

\* The document with manifest m accepted, and with entry e active.
Accept(d, m) == [d EXCEPT !.accepted = m, !.rejected = NoRejection]
Activate(d, m, e) ==
    [Accept(d, m) EXCEPT !.active = e,
                         !.previous = IF Usable(d.active) THEN d.active ELSE NoEntry]

\* The state is read, the manifest fetched, and what is installed compared with
\* it.  Thrown before anything is recorded: a failed fetch, a manifest older than
\* the accepted one, and one that was rejected for good or is still backing off.
\* A manifest found incompatible is rejected for good.
Compare(m) ==
    LET matches == Usable(state.active) /\ state.active.root.artifact = Artifact[m]
    IN  /\ m >= state.accepted /\ state.rejected # [manifest |-> m, retry |-> "never"]
        /\ before' = state /\ target' = m
        /\ \/ /\ matches /\ state.accepted = m /\ state.rejected = NoRejection
              /\ doc' = state /\ purpose' = "accept" /\ verdict' = "unchanged"
              /\ pc' = "collect" /\ UNCHANGED <<candidate, hasty>>
           \/ /\ matches /\ state.accepted = m /\ state.rejected # NoRejection
              /\ Write(Accept(state, m), "accept") /\ UNCHANGED <<candidate, verdict, hasty>>
           \/ /\ matches /\ state.accepted # m
              /\ Write([Accept(state, m) EXCEPT !.active.manifest = m], "accept")
              /\ hasty' = (hasty \/ Unbooted) /\ UNCHANGED <<candidate, verdict>>
           \/ ~matches /\ pc' = "stage" /\ UNCHANGED <<candidate, doc, purpose, verdict, hasty>>
           \/ /\ state.accepted < m
              /\ Write([state EXCEPT !.rejected = [manifest |-> m, retry |-> "never"]], "record")
              /\ UNCHANGED <<candidate, verdict, hasty>>
Check ==
    /\ pc = "check"
    /\ (\E m \in Manifests : Compare(m)) \/ (Seal("rejected") /\ UNCHANGED hasty)
    /\ UNCHANGED <<diskVars, command, leased, guarded, quality, goal, hurt, restored,
                   issued, faults>>

\* stageComponent: the artifact is loaded into the cache; a complete root of its
\* digest that nothing refers to is reused, incomplete ones on the way are
\* deleted, and otherwise the files are extracted under a new install id.
FreeInstalls(a) ==
    {n \in 1 .. MaxInstalls : [artifact |-> a, install |-> n] \notin
        roots \cup partial \cup Referenced(state) \cup Referenced(lastGood)}
Fresh(a) == [artifact |-> a, install |-> Min(FreeInstalls(a))]
Stage ==
    LET a     == Artifact[target]
        spare == {r \in roots \cup partial : r.artifact = a} \ Referenced(before)
    IN  /\ pc = "stage"
        /\ \/ /\ \E retry \in {"later", "never"} : RecordManifestFailure(retry)
              /\ UNCHANGED <<roots, partial, cache>>
           \/ /\ LeaseIntact
              /\ cache' = cache \cup {a}
              /\ \/ \E r \in spare \cap roots, swept \in SUBSET (spare \cap partial) :
                       /\ candidate' = r
                       /\ partial' = partial \ swept /\ UNCHANGED roots
                 \/ /\ spare \cap roots = {} /\ FreeInstalls(a) # {}
                    /\ candidate' = Fresh(a)
                    /\ roots' = roots \cup {Fresh(a)} /\ partial' = partial \ spare
              /\ pc' = "canary"
              /\ UNCHANGED <<before, target, doc, purpose, verdict>>
        /\ UNCHANGED <<state, lastGood, pending, command, leased, guarded, historyVars,
                       issued, faults>>

\* onPrepare runs the staged component; a canary that fails rejects the manifest
\* for good.
Canary ==
    /\ pc = "canary"
    /\ \/ pc' = "mark" /\ UNCHANGED jobVars
       \/ RecordManifestFailure("never")
    /\ UNCHANGED <<diskVars, command, leased, guarded, historyVars, issued, faults>>

\* Variant: the pointer is committed without a marker.
MarkAbsent ==
    /\ pc = "mark"
    /\ \/ /\ Write(Activate(before, target, [root |-> candidate, manifest |-> target]),
                   "commit")
          /\ NoFault
       \/ Write(before, "undo") /\ Fault
    /\ hasty' = (hasty \/ Unbooted)
    /\ UNCHANGED <<state, lastGood, pending, roots, partial, cache, command, leased, guarded,
                   before, target, candidate, verdict, quality, goal, hurt, restored, issued>>

\* onActivate writes the boot-health marker; then the pointer is committed.
\* A marker that cannot be written ends the activation as a failed commit does.
Mark ==
    /\ pc = "mark"
    /\ \/ /\ pending' = target
          /\ Write(Activate(before, target, [root |-> candidate, manifest |-> target]),
                   "commit")
          /\ NoFault
       \/ Write(before, "undo") /\ Fault /\ UNCHANGED pending
    /\ hasty' = (hasty \/ Unbooted)
    /\ UNCHANGED <<state, lastGood, roots, partial, cache, command, leased, guarded,
                   before, target, candidate, verdict, quality, goal, hurt, restored, issued>>

\* Variant: the root in use is collected.
CollectUnleased ==
    LET kept == {doc.active.root, doc.previous.root}
    IN  /\ pc = "collect"
        /\ \/ /\ LeaseIntact
              /\ cache' = {a \in cache : \E r \in kept : r.artifact = a}
              /\ \E r \in roots \ kept :
                    roots' = roots \ {r} /\ partial' = partial \cup {r}
              /\ NoFault /\ UNCHANGED <<pc, jobVars>>
           \/ /\ LeaseIntact /\ roots \subseteq kept
              /\ cache' = {a \in cache : \E r \in kept : r.artifact = a}
              /\ partial' = partial \cap kept
              /\ Seal(verdict) /\ NoFault
              /\ UNCHANGED roots
           \/ /\ LeaseIntact
              /\ \E gone \in SUBSET {a \in cache : \A r \in kept : r.artifact # a} :
                    cache' = cache \ gone
              /\ Seal(verdict) /\ Fault
              /\ UNCHANGED <<roots, partial>>
           \/ ~LeaseIntact /\ Seal(verdict) /\ NoFault /\ UNCHANGED <<roots, partial, cache>>
        /\ UNCHANGED <<state, lastGood, pending, command, leased, guarded, historyVars,
                       issued>>

\* collectGarbage: the artifacts, then the roots that neither the document nor
\* the lease refers to.  A deletion that is under way leaves a root incomplete.
\* A lease that does not verify ends the collection before it deletes anything,
\* a deletion that throws ends it where it is; the caller swallows both.
Collect ==
    LET kept == Referenced(doc)
    IN  /\ pc = "collect"
        /\ \/ /\ LeaseIntact
              /\ cache' = {a \in cache : \E r \in kept : r.artifact = a}
              /\ \E r \in roots \ kept :
                    roots' = roots \ {r} /\ partial' = partial \cup {r}
              /\ NoFault /\ UNCHANGED <<pc, jobVars>>
           \/ /\ LeaseIntact /\ roots \subseteq kept
              /\ cache' = {a \in cache : \E r \in kept : r.artifact = a}
              /\ partial' = partial \cap kept
              /\ Seal(verdict) /\ NoFault
              /\ UNCHANGED roots
           \/ /\ LeaseIntact
              /\ \E gone \in SUBSET {a \in cache : \A r \in kept : r.artifact # a} :
                    cache' = cache \ gone
              /\ Seal(verdict) /\ Fault
              /\ UNCHANGED <<roots, partial>>
           \/ ~LeaseIntact /\ Seal(verdict) /\ NoFault /\ UNCHANGED <<roots, partial, cache>>
        /\ UNCHANGED <<state, lastGood, pending, command, leased, guarded, historyVars,
                       issued>>

-----------------------------------------------------------------------------
(* A rollback: NodeComponentLifecycle.rollback                              *)

\* rollbackInstalledComponents: the previous root must verify and pass the
\* canary; the marker is written, and the two entries change places.
Swap ==
    /\ pc = "swap"
    /\ \/ /\ state.active # NoEntry /\ Usable(state.previous)
          /\ pending' = state.previous.manifest
          /\ Write([state EXCEPT !.active = state.previous, !.previous = state.active],
                   "rollback")
          /\ hasty' = (hasty \/ Unbooted)
          /\ UNCHANGED <<before, target, candidate, verdict>>
       \/ Seal("rejected") /\ UNCHANGED <<pending, hasty>>
    /\ UNCHANGED <<state, lastGood, roots, partial, cache, command, leased, guarded,
                   quality, goal, hurt, restored, issued, faults>>

-----------------------------------------------------------------------------
(* The end of a command, and the environment                                *)

\* The result is sealed in the journal.
Finish ==
    /\ pc = "seal"
    /\ command' = "none" /\ goal' = NoRoot
    /\ pc' = IF verdict = "applied" THEN "acknowledge" ELSE "ready"
    /\ UNCHANGED <<diskVars, leased, guarded, jobVars, quality, hurt, hasty, restored,
                   issued, faults>>

\* The coordinator acknowledges the result and the process stops with status 0,
\* or the answer is lost and the process goes on.
Acknowledge ==
    /\ pc = "acknowledge"
    /\ verdict' = "rejected"
    /\ \/ pc' = "exited" /\ leased' = NoRoot /\ NoFault
       \/ pc' = "ready" /\ Fault /\ UNCHANGED leased
    /\ UNCHANGED <<diskVars, command, guarded, before, target, candidate, doc, purpose,
                   historyVars, issued>>

Crash ==
    /\ pc \notin {"down", "exited"} /\ Fault
    /\ pc' = "down" /\ leased' = NoRoot /\ guarded' = FALSE
    /\ ClearJob /\ verdict' = "rejected"
    /\ UNCHANGED <<diskVars, command, historyVars, issued>>

\* A file of a root is altered, or a cached artifact is.
Tamper ==
    /\ Fault
    /\ \/ \E r \in roots :
             /\ roots' = roots \ {r} /\ partial' = partial \cup {r}
             /\ hurt' = hurt \cup {r} /\ UNCHANGED cache
       \/ \E a \in cache :
             /\ cache' = cache \ {a} /\ hurt' = hurt \cup {r \in roots : r.artifact = a}
             /\ UNCHANGED <<roots, partial>>
    /\ UNCHANGED <<state, lastGood, pending, command, pc, leased, guarded, jobVars,
                   quality, goal, hasty, restored, issued>>

\* state.json is unreadable when the node boots: recoverLastGoodComponentState
\* puts the copy in its place, or the state starts empty.
RecoverLastGood ==
    /\ pc \in {"down", "exited"} /\ Fault
    /\ state' = IF lastGood = Missing THEN Empty ELSE lastGood
    /\ restored' = TRUE
    /\ UNCHANGED <<lastGood, pending, roots, partial, cache, command, pc, leased,
                   guarded, jobVars, quality, goal, hurt, hasty, issued>>

-----------------------------------------------------------------------------
Init ==
    /\ state = Empty /\ lastGood = Missing /\ pending = 0
    /\ roots = {} /\ partial = {} /\ cache = {}
    /\ command = "none"
    /\ pc = "down" /\ leased = NoRoot /\ guarded = FALSE
    /\ before = Empty /\ target = 0 /\ candidate = NoRoot
    /\ doc = Empty /\ purpose = "none" /\ verdict = "rejected"
    /\ quality = [a \in Artifacts |-> "unknown"]
    /\ goal = NoRoot /\ hurt = {} /\ hasty = FALSE /\ restored = FALSE
    /\ issued = 0 /\ faults = 0

Process == \/ Boot \/ Resolve \/ Starts \/ FailsToStart \/ MarkActivationHealthy
           \/ RollbackFailedActivation \/ ForgetActivation
           \/ WriteState \/ WriteLastGood
           \/ Check \/ Stage \/ Canary \/ Mark \/ Collect \/ Swap
           \/ Finish \/ Acknowledge
Next == Process \/ Execute \/ Crash \/ Tamper \/ RecoverLastGood

Spec == Init /\ [][Next]_vars

\* A process that failed is started again: systemd's Restart=on-failure and
\* launchd's KeepAlive do so every time (on Windows the recovery actions of
\* service-registration.ts do so twice a day).  One that exited with status 0
\* may be started again, by launchd or by the next start of the machine, and
\* systemd leaves it as it is: nothing is promised.
FairSpec == Spec /\ WF_vars(Process /\ pc # "exited")

-----------------------------------------------------------------------------
(* Properties                                                               *)

TypeOK ==
    /\ state \in Documents /\ lastGood \in Documents \cup {Missing}
    /\ pending \in Manifests \cup {0}
    /\ roots \subseteq Roots /\ partial \subseteq Roots \ roots /\ cache \subseteq Artifacts
    /\ command \in {"none", "update", "rollback"}
    /\ pc \in {"down", "exited", "resolve", "start", "healthy", "revert", "forget", "ready", "write",
               "copy", "check", "stage", "canary", "mark", "collect", "swap", "seal",
               "acknowledge"}
    /\ leased \in Roots \cup {NoRoot} /\ guarded \in BOOLEAN
    /\ before \in Documents /\ target \in Manifests \cup {0}
    /\ candidate \in Roots \cup {NoRoot}
    /\ doc \in Documents
    /\ purpose \in {"none", "commit", "accept", "undo", "record", "rollback", "revert"}
    /\ verdict \in {"applied", "unchanged", "rejected"}
    /\ quality \in [Artifacts -> {"unknown", "good", "bad"}]
    /\ goal \in Roots \cup {NoRoot} /\ hurt \subseteq Roots
    /\ hasty \in BOOLEAN /\ restored \in BOOLEAN
    /\ issued \in 0 .. MaxCommands /\ faults \in 0 .. MaxFaults

\* Whatever is collected, staged, undone or interrupted, the root that the
\* pointer names, the one it may fall back to and the one that the process runs
\* from stay complete and their artifacts cached, unless a file was damaged or
\* an older document was restored.
ReferencedRootsSurvive ==
    \A r \in Referenced(state) \ hurt :
        restored \/ (r \in roots /\ r.artifact \in cache)

\* A component that was never seen to boot is booted only under the boot-health
\* marker, also when the process died anywhere between staging and the commit:
\* its failure is then undone.  The exceptions are two activations without a
\* boot between them, and a restored document.
UnprovenIsGuarded ==
    pc = "start" /\ leased # NoRoot /\ quality[leased.artifact] # "good"
        => guarded \/ hasty \/ restored

\* "A failed candidate must never become `previous`": no pointer falls back to
\* an artifact that failed to boot.
FailedIsNeverPrevious ==
    Usable(state.previous) /\ quality[state.previous.root.artifact] = "bad"
        => hasty \/ restored

\* The active component does not boot, and nothing will replace it.
BootLoop ==
    /\ Usable(state.active) /\ quality[state.active.root.artifact] = "bad"
    /\ ~PendingCurrent \/ (state.previous # NoEntry /\ ~Usable(state.previous))

\* A component that does not boot is never left without a way out, short of a
\* damaged fallback, a restored document, or two activations without a boot.
NoBootLoop == BootLoop => hasty \/ restored \/ hurt # {}

\* A node whose process failed, in its boot or in an update, at whatever await,
\* comes up again: on the component, on the one before it or on the bundled
\* runtime.  (After the clean exit that an applied update asks for, the service
\* manager may leave it stopped.)
NodeComesUp == pc = "down" ~> (pc = "ready" \/ BootLoop)

\* "Implementations must use it as their idempotency key": a rollback reported as
\* applied has put the previous component in place, also when it was replayed.
RollbackIsAppliedOnce ==
    pc = "seal" /\ command = "rollback" /\ verdict = "applied" => state.active.root = goal
=============================================================================
