-------------------------- MODULE MeshServiceProofs --------------------------
(***************************************************************************)
(* Proofs that the safety properties of MeshService hold for every number  *)
(* of jobs, workers, sessions and tokens.                                  *)
(*                                                                         *)
(* The handlers of the service have few effects on a job: it starts, it is *)
(* accepted, it takes a token, it moves to another lease, or it ends.      *)
(* StepEffects reduces Next to these effects once; each conjunct of the    *)
(* inductive invariant is then shown to survive each effect.               *)
(***************************************************************************)
EXTENDS MeshService, FiniteSetTheorems, TLAPS

-----------------------------------------------------------------------------
(* The effects of steps *)

Ends(j) ==
    /\ j \in live
    /\ \E st \in Terminal :
          /\ st = "completed" => replay[j] = NoReplay
          /\ End(j, st, IF st = "completed" THEN "completed" ELSE "failed")
    /\ lost' \in {lost, lost \ {j}}
    /\ UNCHANGED <<keyJob, request, world>>

Moves(j) ==
    /\ j \in live /\ MayMove(j)
    /\ \E i \in (routeIndex[j] + 1)..Len(plan[j]) :
          /\ CanSend(plan[j][i]) /\ HasRoom(plan[j][i])
          /\ GrantLease(j, plan[j][i])
          /\ routeIndex' = [routeIndex EXCEPT ![j] = i]
    /\ replay' = [replay EXCEPT ![j] = ReplayPrefix(j)]
    /\ lost' \in {lost, lost \ {j}}
    /\ UNCHANGED <<keyJob, request, world, live, plan, output, activeSessions, events>>

KeysKept == \A k \in Keys : keyJob[k] # NoJob => keyJob'[k] = keyJob[k]

\* submit ends the job before it was offered to anyone.
Refused(j) ==
    /\ status[j] = "none"
    /\ \E st \in {"failed", "expired"} : status' = [status EXCEPT ![j] = st]
    /\ \/ UNCHANGED events
       \/ events' = [events EXCEPT ![j] = <<PlainEvent("accepted"), PlainEvent("failed")>>]
    /\ keyJob' \in [Keys -> Jobs \union {NoJob}] /\ KeysKept
    /\ UNCHANGED <<worker, lease, request, live, plan, routeIndex, output, replay, leaseTimer,
                   firstTokenTimer, activeSessions, lost, world, issued, heard>>

Begins(j) ==
    /\ status[j] = "none" /\ SessionFree(session[j])
    /\ \E p \in Plans : \E i \in 1..Len(p) :
          /\ CanSend(p[i]) /\ HasRoom(p[i])
          /\ GrantLease(j, p[i])
          /\ routeIndex' = [routeIndex EXCEPT ![j] = i]
          /\ plan' = [plan EXCEPT ![j] = p]
    /\ live' = live \union {j}
    /\ activeSessions' = [activeSessions EXCEPT ![session[j]] = j]
    /\ events' = [events EXCEPT ![j] = <<PlainEvent("accepted")>>]
    /\ keyJob' \in [Keys -> Jobs \union {NoJob}] /\ KeysKept
    /\ UNCHANGED <<request, output, replay, lost, world>>

Listens(j) ==
    /\ j \in live
    /\ \E n \in Leases(j) :
          \/ OnLeaseAccepted(j, n)
          \/ \E i \in 0..MaxTokens, t \in Tokens :
                OnReplayedToken(j, n, i, t) \/ OnNewToken(j, n, i, t)

TimerIdles(j) ==
    /\ j \in live /\ output[j] # <<>> /\ replay[j] = NoReplay
    /\ firstTokenTimer' = firstTokenTimer \ {j}
    /\ UNCHANGED <<status, worker, lease, keyJob, request, live, plan, routeIndex, output,
                   replay, leaseTimer, activeSessions, lost, world, events, issued, heard>>

WorldMoves ==
    /\ lost = {}
    /\ \E w \in Workers : WorkerStep(w)

\* Appending makes a sequence longer by one.
LEMMA AppendIsLonger ==
    ASSUME NEW S, NEW s \in Seq(S), NEW x \in S
    PROVE  Append(s, x) # <<>> /\ Len(Append(s, x)) = Len(s) + 1
<1>1. Len(Append(s, x)) = Len(s) + 1 /\ Len(s) \in Nat
  OBVIOUS
<1> QED BY <1>1

\* retryOrFail either ends a job or moves it.
LEMMA RetryEffects ==
    ASSUME NEW j \in Jobs, j \in live, RetryOrFail(j),
           UNCHANGED <<keyJob, request, world>>, lost' \in {lost, lost \ {j}}
    PROVE  Ends(j) \/ Moves(j)
<1>1. CASE FailRuntime(j, "failed") \/ FailRuntime(j, "expired")
  BY Zenon, <1>1 DEF FailRuntime, Ends, Terminal
<1>2. CASE /\ MayMove(j)
           /\ \E i \in Offerable(plan[j], routeIndex[j] + 1) :
                /\ GrantLease(j, plan[j][i])
                /\ routeIndex' = [routeIndex EXCEPT ![j] = i]
                /\ replay' = [replay EXCEPT ![j] = ReplayPrefix(j)]
                /\ UNCHANGED <<live, plan, output, activeSessions, events>>
  BY Zenon, <1>2 DEF Moves, Offerable, Eligible
<1> QED
  BY Zenon, <1>1, <1>2 DEF RetryOrFail, IsFirst

\* submit refuses a job or grants its first lease.
LEMMA SubmitEffects ==
    ASSUME TypeOK, NEW j \in Jobs, NEW k \in Keys \union {NoKey},
           SubmitWithoutRoute(j, k) \/ \E p \in Plans : Submit(j, k, p)
    PROVE  Refused(j) \/ Begins(j)
<1>1. BindKey(k, j) /\ KeyFree(k) => keyJob' \in [Keys -> Jobs \union {NoJob}] /\ KeysKept
  BY ZenonT(60), ConstantsOK DEF BindKey, KeyFree, KeysKept, TypeOK
<1>2. CASE SubmitWithoutRoute(j, k)
  BY Zenon, <1>1, <1>2 DEF SubmitWithoutRoute, Refused
<1>3. ASSUME NEW p \in Plans, Submit(j, k, p)
      PROVE  Refused(j) \/ Begins(j)
  <2>1. CASE \E st \in {"failed", "expired"} :
                /\ status' = [status EXCEPT ![j] = st]
                /\ events' = [events EXCEPT ![j] = <<PlainEvent("accepted"), PlainEvent("failed")>>]
                /\ UNCHANGED <<worker, lease, issued, heard, leaseTimer, firstTokenTimer,
                               routeIndex, plan, live, activeSessions>>
    BY Zenon, <1>1, <1>3, <2>1 DEF Submit, Refused
  <2>2. CASE \E i \in Offerable(p, 1) :
                /\ GrantLease(j, p[i])
                /\ routeIndex' = [routeIndex EXCEPT ![j] = i]
                /\ plan' = [plan EXCEPT ![j] = p]
                /\ live' = live \union {j}
                /\ activeSessions' = [activeSessions EXCEPT ![session[j]] = j]
                /\ events' = [events EXCEPT ![j] = <<PlainEvent("accepted")>>]
    BY Zenon, <1>1, <1>3, <2>2 DEF Submit, Begins, Offerable, Eligible
  <2> QED
    BY Zenon, <1>3, <2>1, <2>2 DEF Submit
<1> QED
  BY Zenon, <1>2, <1>3

\* Every step of the service is one of the effects, a change of the workers
\* or a restart.
LEMMA StepEffects ==
    ASSUME TypeOK, Next
    PROVE  \/ \E j \in Jobs : \/ Refused(j) \/ Begins(j) \/ Listens(j)
                            \/ TimerIdles(j) \/ Ends(j) \/ Moves(j)
           \/ WorldMoves
           \/ Restart
<1>1. ASSUME NEW j \in Jobs, JobStep(j)
      PROVE  \/ Refused(j) \/ Begins(j) \/ Listens(j)
             \/ TimerIdles(j) \/ Ends(j) \/ Moves(j)
  <2>1. CASE \E k \in Keys \union {NoKey} :
                SubmitWithoutRoute(j, k) \/ \E p \in Plans : Submit(j, k, p)
    BY Zenon, <2>1, SubmitEffects
  <2>2. CASE Cancel(j)
    BY Zenon, <2>2 DEF Cancel, Ends, Terminal
  <2>3. CASE LeaseTimeout(j)
    BY Zenon, <2>3, RetryEffects DEF LeaseTimeout
  <2>4. CASE FirstTokenTimeout(j)
    <3>1. CASE output[j] # <<>> /\ replay[j] = NoReplay
      BY Zenon, <2>4, <3>1 DEF FirstTokenTimeout, TimerIdles
    <3>2. CASE ~(output[j] # <<>> /\ replay[j] = NoReplay)
      BY Zenon, <2>4, <3>2, RetryEffects DEF FirstTokenTimeout
    <3> QED BY Zenon, <3>1, <3>2
  <2>5. CASE Deadline(j)
    BY Zenon, <2>5 DEF Deadline, FailRuntime, Ends, Terminal
  <2>6. CASE RetryLost(j)
    BY Zenon, <2>6, RetryEffects DEF RetryLost
  <2>7. CASE \E n \in Leases(j) : OnRejectOrFailure(j, n)
    BY Zenon, <2>7, RetryEffects DEF OnRejectOrFailure, Receives
  <2>8. CASE \E n \in Leases(j), i \in 0..MaxTokens, t \in Tokens : OnInvalidToken(j, n, i, t)
    BY Zenon, <2>8 DEF OnInvalidToken, Receives, FailRuntime, Ends, Terminal
  <2>9. CASE \E n \in Leases(j), ok \in BOOLEAN : OnComplete(j, n, ok)
    BY Zenon, <2>9 DEF OnComplete, Receives, ReplayIsDone, FailRuntime, Ends, Terminal
  <2>10. CASE \E n \in Leases(j) :
                \/ OnLeaseAccepted(j, n)
                \/ \E i \in 0..MaxTokens, t \in Tokens :
                      OnReplayedToken(j, n, i, t) \/ OnNewToken(j, n, i, t)
    BY Zenon, <2>10 DEF Listens, OnLeaseAccepted, OnReplayedToken, OnNewToken, TakesToken, Receives
  <2> QED
    BY Zenon, <1>1, <2>1, <2>2, <2>3, <2>4, <2>5, <2>6, <2>7, <2>8, <2>9, <2>10 DEF JobStep, OnToken
<1>2. ASSUME NEW w \in Workers, WorkerStep(w)
      PROVE  WorldMoves
  BY Zenon, <1>2 DEF WorkerStep, WorldMoves, Hello, Heartbeat, HealthDrops, SocketCloses,
              Disconnect, Goodbye, Detach
<1> QED
  BY Zenon, <1>1, <1>2 DEF Next

-----------------------------------------------------------------------------
(* Type correctness *)

\* A plan is a sequence of workers.
LEMMA PlansAreSequences ==
    ASSUME NEW p \in Plans
    PROVE  /\ p \in Seq(Workers) /\ IsInjectivePlan(p)
           /\ \A i \in 1..Len(p) : Eligible(p[i])
<1>1. PICK n \in 1..(1 + MaxStandby) : p \in [1..n -> Workers]
  BY Zenon DEF Plans
<1>2. n \in Nat
  BY <1>1, ConstantsOK
<1>3. p \in Seq(Workers) /\ Len(p) = n
  BY <1>1, <1>2
<1> QED
  BY Zenon, <1>1, <1>3 DEF Plans, IsDisjointPlan

\* A job that replays nothing has a replay record of its type.
LEMMA NoReplayType == NoReplay \in Replay
BY DEF NoReplay, Replay

\* The events that carry no more than a type are events.
LEMMA PlainEventType ==
    ASSUME NEW type \in {"accepted", "token", "completed", "failed"}
    PROVE  PlainEvent(type) \in Event
BY Zenon DEF PlainEvent, Event

\* What ending a job leaves well typed.
LEMMA EndsType ==
    ASSUME TypeOK, NEW j \in Jobs, Ends(j)
    PROVE  TypeOK'
<1> USE DEF TypeOK
<1>1. PICK st \in Terminal : End(j, st, IF st = "completed" THEN "completed" ELSE "failed")
  BY Zenon DEF Ends
<1> DEFINE e == PlainEvent(IF st = "completed" THEN "completed" ELSE "failed")
<1>2. e \in Event
  BY Zenon, PlainEventType
<1>3. events' = [events EXCEPT ![j] = Append(@, e)]
  BY Zenon, <1>1 DEF End
<1>4. events' \in [Jobs -> Seq(Event)]
  <2> HIDE DEF e
  <2> QED BY <1>2, <1>3
<1>5. replay' \in [Jobs -> Replay]
  BY Zenon, <1>1, NoReplayType DEF End, FinishRuntime
<1>6. /\ status' \in [Jobs -> {"none"} \union NonTerminal \union Terminal]
      /\ live' \subseteq Jobs /\ leaseTimer' \subseteq Jobs /\ firstTokenTimer' \subseteq Jobs
      /\ activeSessions' \in [Sessions -> Jobs \union {NoJob}]
      /\ plan' \in [Jobs -> Seq(Workers)] /\ routeIndex' \in [Jobs -> Nat]
  BY SMTT(30), <1>1 DEF End, FinishRuntime
<1> QED
  BY Zenon, <1>1, <1>4, <1>5, <1>6 DEF End, Ends, request, world

\* Granting a lease (grantLease) keeps the types of the job row.
LEMMA GrantType ==
    ASSUME TypeOK, NEW j \in Jobs, NEW w \in Workers, GrantLease(j, w)
    PROVE  /\ status' \in [Jobs -> {"none"} \union NonTerminal \union Terminal]
           /\ worker' \in [Jobs -> Workers \union {NoWorker}]
           /\ lease' \in [Jobs -> Nat]
           /\ issued' \in [Jobs -> Seq(Workers)] /\ heard' \in [Jobs -> Seq(Tokens)]
           /\ leaseTimer' \subseteq Jobs /\ firstTokenTimer' \subseteq Jobs
BY SMTT(30) DEF TypeOK, GrantLease, NonTerminal, Active

\* A failover that finds a standby (retryOrFail) keeps the types.
LEMMA MovesType ==
    ASSUME TypeOK, NEW j \in Jobs, Moves(j)
    PROVE  TypeOK'
<1>1. PICK i \in (routeIndex[j] + 1)..Len(plan[j]) :
          /\ GrantLease(j, plan[j][i])
          /\ routeIndex' = [routeIndex EXCEPT ![j] = i]
  BY Zenon DEF Moves
<1>2. plan[j][i] \in Workers /\ i \in Nat
  BY SMTT(30) DEF TypeOK
<1>3. replay' \in [Jobs -> Replay]
  BY Zenon DEF TypeOK, Moves, ReplayPrefix, Replay
<1>4. routeIndex' \in [Jobs -> Nat]
  BY Zenon, <1>1, <1>2 DEF TypeOK
<1> QED
  BY Zenon, <1>1, <1>2, <1>3, <1>4, GrantType DEF Moves, TypeOK, request, world

\* A submit that is answered with a failed job keeps the types.
LEMMA RefusedType ==
    ASSUME TypeOK, NEW j \in Jobs, Refused(j)
    PROVE  TypeOK'
<1>1. <<PlainEvent("accepted"), PlainEvent("failed")>> \in Seq(Event)
  BY PlainEventType
<1>2. events' \in [Jobs -> Seq(Event)]
  BY ZenonT(30), <1>1 DEF Refused, TypeOK
<1> QED
  BY Zenon, <1>2 DEF Refused, TypeOK, request, world, Terminal

\* A submit that leases its job keeps the types.
LEMMA BeginsType ==
    ASSUME TypeOK, NEW j \in Jobs, Begins(j)
    PROVE  TypeOK'
<1>0. PICK p \in Plans : \E i \in 1..Len(p) :
          /\ GrantLease(j, p[i])
          /\ routeIndex' = [routeIndex EXCEPT ![j] = i]
          /\ plan' = [plan EXCEPT ![j] = p]
  BY Zenon DEF Begins
<1>1. PICK i \in 1..Len(p) :
          /\ GrantLease(j, p[i])
          /\ routeIndex' = [routeIndex EXCEPT ![j] = i]
          /\ plan' = [plan EXCEPT ![j] = p]
  BY Zenon, <1>0
<1>2. p \in Seq(Workers) /\ p[i] \in Workers /\ i \in Nat
  BY PlansAreSequences
<1>3. events' \in [Jobs -> Seq(Event)]
  <2>1. <<PlainEvent("accepted")>> \in Seq(Event)
    BY SMTT(60), PlainEventType
  <2> QED BY Zenon, <2>1 DEF Begins, TypeOK
<1>4. plan' \in [Jobs -> Seq(Workers)] /\ routeIndex' \in [Jobs -> Nat]
  BY Zenon, <1>1, <1>2 DEF TypeOK
<1>5. live' \subseteq Jobs /\ activeSessions' \in [Sessions -> Jobs \union {NoJob}]
  BY Zenon DEF Begins, TypeOK
<1> QED
  BY Zenon, <1>1, <1>2, <1>3, <1>4, <1>5, GrantType DEF Begins, TypeOK, request, world

\* Every accepted envelope of a worker keeps the types.
LEMMA ListensType ==
    ASSUME TypeOK, NEW j \in Jobs, Listens(j)
    PROVE  TypeOK'
<1>1. CASE \E n \in Leases(j) : OnLeaseAccepted(j, n)
  BY Zenon, <1>1 DEF OnLeaseAccepted, Receives, ArmsFirstTokenTimer, TypeOK, request, world,
              NonTerminal, Active
<1>2. ASSUME NEW n \in Leases(j), NEW i \in 0..MaxTokens, NEW t \in Tokens,
             OnReplayedToken(j, n, i, t)
      PROVE  TypeOK'
  <2>1. replay[j] \in Replay
    BY Zenon DEF TypeOK
  <2>2. Advance(replay[j]) \in Replay
    BY SMTT(30), <2>1, NoReplayType DEF Advance, Replay
  <2> QED
    BY SMTT(30), <1>2, <2>2 DEF OnReplayedToken, TakesToken, Receives, TypeOK, request, world
<1>3. ASSUME NEW n \in Leases(j), NEW i \in 0..MaxTokens, NEW t \in Tokens,
             OnNewToken(j, n, i, t)
      PROVE  TypeOK'
  <2>1. TokenEvent(i, t) \in Event
    BY SMTT(30), ConstantsOK DEF TokenEvent, Event
  <2>2. output' \in [Jobs -> Seq(Tokens)] /\ heard' \in [Jobs -> Seq(Tokens)]
    BY SMTT(60), <1>3 DEF OnNewToken, TakesToken, TypeOK
  <2>3. events' \in [Jobs -> Seq(Event)]
    BY SMTT(30), <1>3, <2>1 DEF OnNewToken, TypeOK
  <2>4. status' \in [Jobs -> {"none"} \union NonTerminal \union Terminal]
    BY Zenon, <1>3 DEF OnNewToken, TypeOK, NonTerminal, Active
  <2> QED
    BY Zenon, <1>3, <2>2, <2>3, <2>4 DEF OnNewToken, TakesToken, Receives, TypeOK, request, world
<1> QED
  BY Zenon, <1>1, <1>2, <1>3 DEF Listens

\* What workers and their connections do keeps the types.
LEMMA WorldType ==
    ASSUME TypeOK, WorldMoves
    PROVE  TypeOK'
<1>1. PICK w \in Workers : WorkerStep(w)
  BY Zenon DEF WorldMoves
<1>2. UNCHANGED service
  BY Zenon, <1>1 DEF WorkerStep, Hello, Heartbeat, HealthDrops, SocketCloses, Disconnect, Goodbye, Detach
<1>3. /\ conn' \in [Workers -> {"down", "pending", "ready", "closing"}]
      /\ health' \in [Workers -> Healths]
  BY ZenonT(30), <1>1 DEF WorkerStep, Hello, Heartbeat, HealthDrops, SocketCloses, Disconnect, Goodbye, Detach,
              TypeOK, Healths
<1>4. lost' \subseteq Jobs
  BY Zenon, <1>1 DEF WorkerStep, Hello, Heartbeat, HealthDrops, SocketCloses, Disconnect, Goodbye, Detach,
              TypeOK, Lose, ActiveOn, StagesAffected
<1> QED
  BY Zenon, <1>2, <1>3, <1>4 DEF service, TypeOK, request

\* A restart of the coordinator keeps the types.
LEMMA RestartType ==
    ASSUME TypeOK, Restart
    PROVE  TypeOK'
<1>1. status' \in [Jobs -> {"none"} \union NonTerminal \union Terminal]
  BY Zenon DEF Restart, TypeOK, Terminal
<1>2. replay' \in [Jobs -> Replay]
  BY Zenon, NoReplayType DEF Restart
<1>3. plan' \in [Jobs -> Seq(Workers)] /\ routeIndex' \in [Jobs -> Nat]
  BY DEF Restart
<1>4. /\ conn' \in [Workers -> {"down", "pending", "ready", "closing"}]
      /\ health' \in [Workers -> Healths]
      /\ activeSessions' \in [Sessions -> Jobs \union {NoJob}]
  BY Zenon DEF Restart, Healths
<1> QED
  BY Zenon, <1>1, <1>2, <1>3, <1>4 DEF Restart, TypeOK, request

\* Every step keeps the types.
LEMMA NextType ==
    ASSUME TypeOK, [Next]_vars
    PROVE  TypeOK'
<1>1. CASE Next
  BY ZenonT(30), <1>1, StepEffects, RefusedType, BeginsType, ListensType, EndsType, MovesType, WorldType, RestartType
     DEF TimerIdles, TypeOK, request, world
<1>2. CASE UNCHANGED vars
  BY Zenon, <1>2 DEF vars, TypeOK, request, world
<1> QED
  BY Zenon, <1>1, <1>2

-----------------------------------------------------------------------------
(* The inductive invariant *)

\* RuntimesMatchRows, with what makes it inductive: no handler returns while
\* its job is still "queued".
Rows ==
    /\ \A j \in Jobs : status[j] # "queued"
    /\ RuntimesMatchRows

\* A job that was not submitted has no past.
Fresh ==
    \A j \in Jobs : status[j] = "none" =>
        /\ output[j] = <<>> /\ events[j] = <<>> /\ issued[j] = <<>>
        /\ replay[j] = NoReplay /\ lease[j] = 0

\* An unfinished job is leased to the current route of its plan, and was only
\* ever offered to routes up to that one.
OfferedUpTo(s, p, m) == \A n \in 1..Len(s) : \E i \in 1..m : s[n] = p[i]

LeasedJob(j) ==
    /\ routeIndex[j] \in 1..Len(plan[j]) /\ IsInjectivePlan(plan[j])
    /\ issued[j] # <<>> /\ lease[j] = Len(issued[j])
    /\ worker[j] = plan[j][routeIndex[j]]
    /\ OfferedUpTo(issued[j], plan[j], routeIndex[j])

Leased == \A j \in live : LeasedJob(j)

\* LeasesAreAttached while a disconnect handler is running.
Attached == \A j \in live \ lost : conn[worker[j]] # "down"

\* The client of an unfinished job was told that it is accepted.
Streamed == \A j \in live : events[j] # <<>>

\* What every step of the service preserves.
IInv ==
    /\ TypeOK /\ Rows /\ Fresh /\ Leased /\ NoSecondOffer
    /\ SplicedStream /\ Streamed /\ ClientSeesOneStream
    /\ SilenceIsWatched /\ Attached

\* The steps of the workers leave the service alone; all but one kind leave
\* every connection in place.
LEMMA WorldEffects ==
    ASSUME TypeOK, WorldMoves
    PROVE  /\ UNCHANGED service /\ lost = {}
           /\ \/ lost' = {} /\ \A w \in Workers : conn[w] # "down" => conn'[w] # "down"
              \/ \E w \in Workers : /\ ActiveOn(w) \subseteq lost'
                                    /\ conn' = [conn EXCEPT ![w] = "down"]
<1>1. PICK w \in Workers : WorkerStep(w)
  BY Zenon DEF WorldMoves
<1>2. CASE Disconnect(w) \/ Goodbye(w)
  BY Zenon, <1>2 DEF Disconnect, Goodbye, Detach, Lose
<1>3. CASE Hello(w) \/ SocketCloses(w) \/ \E h \in Healths : Heartbeat(w, h) \/ HealthDrops(w, h)
  BY ZenonT(30), <1>3 DEF TypeOK, Hello, SocketCloses, Heartbeat, HealthDrops
<1> QED
  BY Zenon, <1>1, <1>2, <1>3 DEF WorkerStep

\* No step makes the runtimes or the sessions in use differ from the rows.
LEMMA RowsStep ==
    ASSUME IInv, Next
    PROVE  Rows'
<1> USE DEF Rows, RuntimesMatchRows, NonTerminal, Active, Terminal, TypeOK
<1> TypeOK /\ Rows
  BY Zenon DEF IInv
<1>1. ASSUME NEW j \in Jobs, Refused(j)
      PROVE  Rows'
  <2>1. /\ status[j] = "none" /\ status'[j] \in {"failed", "expired"}
        /\ \A k \in Jobs \ {j} : status'[k] = status[k]
        /\ UNCHANGED <<live, activeSessions, session>>
    BY SMTT(30), <1>1 DEF Refused, request
  <2> QED BY Zenon, <2>1
<1>2. ASSUME NEW j \in Jobs, Begins(j)
      PROVE  Rows'
  <2>1. /\ status[j] = "none" /\ status'[j] = "leasing"
        /\ \A k \in Jobs \ {j} : status'[k] = status[k]
    BY <1>2 DEF Begins, GrantLease
  <2>2. /\ activeSessions[session[j]] = NoJob
        /\ live' = live \union {j} /\ session' = session
        /\ activeSessions' = [activeSessions EXCEPT ![session[j]] = j]
    BY Zenon, <1>2 DEF Begins, SessionFree, request
  <2>3. \A k \in live : k \in Jobs /\ session[k] # session[j] /\ k # j
    BY SMTT(30), <2>1, <2>2, ConstantsOK
  <2> QED BY SMTT(30), <2>1, <2>2, <2>3
<1>3. ASSUME NEW j \in Jobs, Listens(j)
      PROVE  Rows'
  <2>1. /\ j \in live /\ UNCHANGED <<live, activeSessions, session>>
        /\ \A k \in Jobs \ {j} : status'[k] = status[k]
    BY SMTT(30), <1>3 DEF Listens, OnLeaseAccepted, OnReplayedToken, OnNewToken, TakesToken, Receives, request
  <2>2. status'[j] \in Active
    BY SMTT(30), <1>3 DEF Listens, OnLeaseAccepted, OnReplayedToken, OnNewToken, TakesToken, Receives
  <2> QED BY Zenon, <2>1, <2>2
<1>4. ASSUME NEW j \in Jobs, TimerIdles(j)
      PROVE  Rows'
  BY Zenon, <1>4 DEF TimerIdles, request
<1>5. ASSUME NEW j \in Jobs, Ends(j)
      PROVE  Rows'
  <2>1. /\ j \in live /\ live' = live \ {j} /\ session' = session /\ status'[j] \in Terminal
        /\ \A k \in Jobs \ {j} : status'[k] = status[k]
    BY SMTT(30), <1>5 DEF Ends, End, FinishRuntime, request
  <2>2. /\ activeSessions'[session[j]] = NoJob
        /\ \A s \in Sessions \ {session[j]} : activeSessions'[s] = activeSessions[s]
    BY SMTT(30), <1>5, <2>1 DEF Ends, End, FinishRuntime
  <2>3. \A k \in live \ {j} : session[k] # session[j] /\ session[k] \in Sessions
    BY SMTT(30), <2>1
  <2>4. \A k \in Jobs : k \in live' <=> status'[k] \in NonTerminal
    BY Zenon, <2>1 DEF Terminal
  <2>5. \A k \in live' : activeSessions'[session'[k]] = k
    BY Zenon, <2>1, <2>2, <2>3
  <2>6. ASSUME NEW s \in Sessions, activeSessions'[s] # NoJob
        PROVE  activeSessions'[s] \in live' /\ session'[activeSessions'[s]] = s
    <3>1. s # session[j] /\ activeSessions'[s] = activeSessions[s]
      BY Zenon, <2>2, <2>6
    <3>2. activeSessions[s] \in live /\ session[activeSessions[s]] = s
      BY Zenon, <2>6, <3>1
    <3> QED BY ZenonT(30), <2>1, <3>1, <3>2
  <2>7. \A k \in Jobs : status'[k] # "queued"
    BY Zenon, <2>1
  <2>8. RuntimesMatchRows'
    <3> HIDE DEF NonTerminal, Active, Terminal, TypeOK
    <3> QED BY Zenon, <2>4, <2>5, <2>6
  <2> QED
    BY ZenonT(30), <2>7, <2>8
<1>6. ASSUME NEW j \in Jobs, Moves(j)
      PROVE  Rows'
  BY SMTT(30), <1>6 DEF Moves, GrantLease, request
<1>7. CASE WorldMoves
  BY Zenon, <1>7, WorldEffects DEF service, request
<1>8. CASE Restart
  BY Zenon, <1>8 DEF Restart, request
<1> QED
  BY ZenonT(30), <1>1, <1>2, <1>3, <1>4, <1>5, <1>6, <1>7, <1>8, StepEffects

\* No step gives a job that was not submitted a past.
LEMMA FreshStep ==
    ASSUME IInv, Next
    PROVE  Fresh'
<1> USE DEF Fresh, TypeOK
<1> TypeOK /\ Rows /\ Fresh
  BY Zenon DEF IInv
<1>1. ASSUME NEW j \in Jobs, Refused(j)
      PROVE  Fresh'
  BY ZenonT(60), <1>1 DEF Refused
<1>2. ASSUME NEW j \in Jobs, Begins(j)
      PROVE  Fresh'
  BY SMTT(60), <1>2 DEF Begins, GrantLease
<1>3. ASSUME NEW j \in Jobs, Listens(j)
      PROVE  Fresh'
  <2>1. status[j] # "none" /\ status'[j] # "none"
    BY ZenonT(60), <1>3 DEF Listens, OnLeaseAccepted, OnReplayedToken, OnNewToken, TakesToken, Receives,
                Rows, RuntimesMatchRows, NonTerminal, Active
  <2>2. ASSUME NEW k \in Jobs, k # j
        PROVE  /\ status'[k] = status[k] /\ output'[k] = output[k] /\ events'[k] = events[k]
               /\ issued'[k] = issued[k] /\ replay'[k] = replay[k] /\ lease'[k] = lease[k]
    BY SMTT(60), <1>3, <2>2 DEF Listens, OnLeaseAccepted, OnReplayedToken, OnNewToken, TakesToken
  <2> QED BY Zenon, <2>1, <2>2
<1>4. ASSUME NEW j \in Jobs, TimerIdles(j)
      PROVE  Fresh'
  BY Zenon, <1>4 DEF TimerIdles
<1>5. ASSUME NEW j \in Jobs, Ends(j)
      PROVE  Fresh'
  BY SMTT(30), <1>5 DEF Ends, End, FinishRuntime, Terminal
<1>6. ASSUME NEW j \in Jobs, Moves(j)
      PROVE  Fresh'
  BY <1>6 DEF Moves, GrantLease
<1>7. CASE WorldMoves
  BY Zenon, <1>7, WorldEffects DEF service
<1>8. CASE Restart
  BY Zenon, <1>8 DEF Restart, NonTerminal
<1> QED
  BY ZenonT(30), <1>1, <1>2, <1>3, <1>4, <1>5, <1>6, <1>7, <1>8, StepEffects

\* A lease granted to a route after the current one goes to a new worker.
LEMMA GrantIsNew ==
    ASSUME NEW p \in Seq(Workers), IsInjectivePlan(p),
           NEW s \in Seq(Workers), IsInjectivePlan(s),
           NEW m \in Nat, NEW i \in (m + 1)..Len(p),
           OfferedUpTo(s, p, m)
    PROVE  /\ IsInjectivePlan(Append(s, p[i]))
           /\ OfferedUpTo(Append(s, p[i]), p, i)
<1>1. \A n \in 1..Len(s) : s[n] # p[i]
  BY DEF IsInjectivePlan, OfferedUpTo
<1>2. /\ Len(Append(s, p[i])) = Len(s) + 1
      /\ \A n \in 1..Len(s) : Append(s, p[i])[n] = s[n]
      /\ Append(s, p[i])[Len(s) + 1] = p[i]
  BY SMTT(30)
<1>3. IsInjectivePlan(Append(s, p[i]))
  BY SMTT(30), <1>1, <1>2 DEF IsInjectivePlan
<1>4. ASSUME NEW n \in 1..Len(Append(s, p[i]))
      PROVE  \E k \in 1..i : Append(s, p[i])[n] = p[k]
  <2>1. CASE n \in 1..Len(s)
    <3>1. PICK k \in 1..m : s[n] = p[k]
      BY Zenon, <2>1 DEF OfferedUpTo
    <3> QED BY <1>2, <2>1, <3>1
  <2>2. CASE n = Len(s) + 1
    BY SMTT(60), <1>2, <2>2
  <2> QED BY SMTT(30), <1>2, <2>1, <2>2
<1> QED
  BY Zenon, <1>3, <1>4 DEF OfferedUpTo

\* A step keeps LeasedJob of every job whose plan and leases it leaves alone.
LEMMA LeasedFrame ==
    ASSUME NEW k, LeasedJob(k), plan'[k] = plan[k], routeIndex'[k] = routeIndex[k],
           issued'[k] = issued[k], lease'[k] = lease[k], worker'[k] = worker[k]
    PROVE  LeasedJob(k)'
BY Zenon DEF LeasedJob

\* No step breaks the tie between plan, route index, lease and worker, nor
\* offers a job to a worker twice.
LEMMA LeasedStep ==
    ASSUME IInv, Next
    PROVE  Leased' /\ NoSecondOffer'
<1> TypeOK /\ Rows /\ Fresh /\ Leased /\ NoSecondOffer
  BY Zenon DEF IInv
<1>1. ASSUME UNCHANGED <<issued, plan, routeIndex, lease, worker>>, live' \subseteq live
      PROVE  Leased' /\ NoSecondOffer'
  BY Zenon, <1>1, LeasedFrame DEF Leased, NoSecondOffer
<1>2. ASSUME NEW j \in Jobs, Refused(j) \/ TimerIdles(j)
      PROVE  Leased' /\ NoSecondOffer'
  BY Zenon, <1>1, <1>2 DEF Refused, TimerIdles
<1>3. ASSUME NEW j \in Jobs, Listens(j)
      PROVE  Leased' /\ NoSecondOffer'
  BY Zenon, <1>1, <1>3 DEF Listens, OnLeaseAccepted, OnReplayedToken, OnNewToken, TakesToken
<1>4. CASE WorldMoves
  BY Zenon, <1>1, <1>4, WorldEffects DEF service
<1>5. CASE Restart
  BY Zenon, <1>5 DEF Restart, Leased, NoSecondOffer
<1>6. ASSUME NEW j \in Jobs, Ends(j)
      PROVE  Leased' /\ NoSecondOffer'
  <2>1. live' = live \ {j} /\ UNCHANGED <<issued, lease, worker>>
    BY ZenonT(60), <1>6 DEF Ends, End, FinishRuntime
  <2>2. \A k \in live' : plan'[k] = plan[k] /\ routeIndex'[k] = routeIndex[k]
    BY ZenonT(60), <1>6, <2>1 DEF Ends, End, FinishRuntime, TypeOK
  <2> QED
    BY Zenon, <2>1, <2>2, LeasedFrame DEF Leased, NoSecondOffer
<1>7. ASSUME NEW j \in Jobs, Begins(j)
      PROVE  Leased' /\ NoSecondOffer'
  <2>1. PICK p \in Plans : \E i \in 1..Len(p) :
            /\ GrantLease(j, p[i])
            /\ routeIndex' = [routeIndex EXCEPT ![j] = i]
            /\ plan' = [plan EXCEPT ![j] = p]
    BY Zenon, <1>7 DEF Begins
  <2>2. PICK i \in 1..Len(p) :
            /\ GrantLease(j, p[i])
            /\ routeIndex' = [routeIndex EXCEPT ![j] = i]
            /\ plan' = [plan EXCEPT ![j] = p]
    BY Zenon, <2>1
  <2>3. p \in Seq(Workers) /\ IsInjectivePlan(p)
    BY Zenon, PlansAreSequences
  <2>4. issued[j] = <<>> /\ lease[j] = 0 /\ j \notin live
    BY ZenonT(60), <1>7 DEF Begins, Fresh, Rows, RuntimesMatchRows, NonTerminal, Active
  <2>5. issued'[j] = <<p[i]>> /\ lease'[j] = 1 /\ worker'[j] = p[i]
    BY SMTT(30), <2>2, <2>4 DEF GrantLease, TypeOK
  <2>6. plan'[j] = p /\ routeIndex'[j] = i
    BY Zenon, <2>2 DEF TypeOK
  <2>7. IsInjectivePlan(<<p[i]>>) /\ OfferedUpTo(<<p[i]>>, p, i)
    BY SMTT(30), <2>3 DEF IsInjectivePlan, OfferedUpTo
  <2>8. LeasedJob(j)'
    BY SMTT(30), <2>3, <2>5, <2>6, <2>7 DEF LeasedJob
  <2>9. \A k \in Jobs \ {j} : /\ plan'[k] = plan[k] /\ routeIndex'[k] = routeIndex[k]
                              /\ issued'[k] = issued[k] /\ lease'[k] = lease[k]
                              /\ worker'[k] = worker[k]
    BY Zenon, <2>2 DEF GrantLease, TypeOK
  <2>10. live' = live \union {j} /\ live \subseteq Jobs
    BY Zenon, <1>7 DEF Begins, TypeOK
  <2>11. Leased'
    BY Zenon, <2>4, <2>8, <2>9, <2>10, LeasedFrame DEF Leased
  <2>12. NoSecondOffer'
    BY Zenon, <2>5, <2>7, <2>9 DEF NoSecondOffer
  <2> QED
    BY Zenon, <2>11, <2>12
<1>8. ASSUME NEW j \in Jobs, Moves(j)
      PROVE  Leased' /\ NoSecondOffer'
  <2>1. PICK i \in (routeIndex[j] + 1)..Len(plan[j]) :
            /\ GrantLease(j, plan[j][i])
            /\ routeIndex' = [routeIndex EXCEPT ![j] = i]
    BY ZenonT(60), <1>8 DEF Moves
  <2>2. j \in live /\ plan' = plan /\ live' = live /\ live \subseteq Jobs
    BY Zenon, <1>8 DEF Moves, TypeOK
  <2>3. /\ plan[j] \in Seq(Workers) /\ issued[j] \in Seq(Workers) /\ routeIndex[j] \in Nat
        /\ IsInjectivePlan(plan[j]) /\ IsInjectivePlan(issued[j])
        /\ OfferedUpTo(issued[j], plan[j], routeIndex[j]) /\ lease[j] = Len(issued[j])
    BY Zenon, <2>2 DEF Leased, LeasedJob, NoSecondOffer, TypeOK
  <2>4. /\ IsInjectivePlan(Append(issued[j], plan[j][i]))
        /\ OfferedUpTo(Append(issued[j], plan[j][i]), plan[j], i)
    BY ZenonT(60), <2>3, GrantIsNew
  <2>5. /\ issued'[j] = Append(issued[j], plan[j][i]) /\ lease'[j] = lease[j] + 1
        /\ worker'[j] = plan[j][i] /\ routeIndex'[j] = i
    BY Zenon, <2>1 DEF GrantLease, TypeOK
  <2>6. issued'[j] # <<>> /\ lease'[j] = Len(issued'[j]) /\ i \in 1..Len(plan[j])
    <3>1. i \in 1..Len(plan[j]) /\ plan[j][i] \in Workers
      BY <2>3
    <3>2. /\ Append(issued[j], plan[j][i]) # <<>>
          /\ Len(Append(issued[j], plan[j][i])) = Len(issued[j]) + 1
      BY ZenonT(30), <2>3, <3>1, AppendIsLonger
    <3> QED BY Zenon, <2>3, <2>5, <3>1, <3>2
  <2>7. LeasedJob(j)'
    BY ZenonT(60), <2>2, <2>3, <2>4, <2>5, <2>6 DEF LeasedJob
  <2>8. \A k \in Jobs \ {j} : /\ routeIndex'[k] = routeIndex[k] /\ issued'[k] = issued[k]
                              /\ lease'[k] = lease[k] /\ worker'[k] = worker[k]
    BY Zenon, <2>1 DEF GrantLease, TypeOK
  <2>9. Leased'
    BY Zenon, <2>2, <2>7, <2>8, LeasedFrame DEF Leased
  <2>10. NoSecondOffer'
    BY Zenon, <2>4, <2>5, <2>8 DEF NoSecondOffer
  <2> QED
    BY Zenon, <2>9, <2>10
<1> QED
  BY Zenon, <1>2, <1>3, <1>4, <1>5, <1>6, <1>7, <1>8, StepEffects

\* No step makes the current lease say something the client does not hold.
LEMMA SplicedStep ==
    ASSUME IInv, Next
    PROVE  SplicedStream'
<1> TypeOK /\ Rows /\ Fresh /\ SplicedStream
  BY Zenon DEF IInv
<1>1. ASSUME NEW k \in Jobs, k \in live' => k \in live, status'[k] = "completed" => status[k] = "completed",
             replay'[k] = replay[k], heard'[k] = heard[k], output'[k] = output[k]
      PROVE  SplicedJob(k)'
  BY Zenon, <1>1 DEF SplicedStream, SplicedJob
<1>2. ASSUME NEW j \in Jobs, Refused(j) \/ TimerIdles(j)
      PROVE  SplicedStream'
  BY Zenon, <1>1, <1>2 DEF Refused, TimerIdles, SplicedStream, TypeOK
<1>3. ASSUME NEW j \in Jobs, Begins(j)
      PROVE  SplicedStream'
  <2>1. /\ live' = live \union {j} /\ UNCHANGED <<replay, output>>
        /\ status'[j] = "leasing" /\ heard'[j] = <<>>
        /\ \A k \in Jobs \ {j} : status'[k] = status[k] /\ heard'[k] = heard[k]
    BY ZenonT(30), <1>3 DEF Begins, GrantLease, TypeOK
  <2>2. replay[j] = NoReplay /\ output[j] = <<>>
    BY Zenon, <1>3 DEF Begins, Fresh
  <2>3. SplicedJob(j)'
    BY Zenon, <2>1, <2>2 DEF SplicedJob
  <2> QED BY Zenon, <1>1, <2>1, <2>3 DEF SplicedStream
<1>4. ASSUME NEW j \in Jobs, Listens(j)
      PROVE  SplicedStream'
  <2>1. ASSUME NEW n \in Leases(j), OnLeaseAccepted(j, n)
        PROVE  SplicedStream'
    BY Zenon, <1>1, <2>1 DEF OnLeaseAccepted, SplicedStream, TypeOK
  <2>2. ASSUME NEW n \in Leases(j), NEW i \in 0..MaxTokens, NEW t \in Tokens,
               OnReplayedToken(j, n, i, t)
        PROVE  SplicedStream'
    <3>1. /\ UNCHANGED <<live, status, output>>
          /\ replay'[j] = Advance(replay[j]) /\ heard'[j] = Append(heard[j], t)
          /\ \A k \in Jobs \ {j} : replay'[k] = replay[k] /\ heard'[k] = heard[k]
      BY Zenon, <2>2 DEF OnReplayedToken, TakesToken, TypeOK
    <3>2. j \in live /\ status[j] # "completed"
      BY Zenon, <2>2 DEF OnReplayedToken, TakesToken, Receives, ValidJobEnvelope, NonTerminal, Active
    <3> DEFINE r == replay[j]
               o == output[j]
    <3>3. /\ r.tokens = o /\ r.next < Len(o) /\ heard[j] = SubSeq(o, 1, r.next)
          /\ t = o[r.next + 1] /\ o \in Seq(Tokens) /\ r.next \in Nat
      BY ZenonT(30), <2>2, <3>2 DEF OnReplayedToken, Replays, SplicedStream, SplicedJob, TypeOK, Replay
    <3>4. heard'[j] = SubSeq(o, 1, r.next + 1)
      <4> HIDE DEF r, o
      <4> QED BY SMTT(30), <3>1, <3>3
    <3>5. CASE r.next + 1 = Len(o)
      <4>1. SubSeq(o, 1, r.next + 1) = o
        <5> HIDE DEF r, o
        <5> QED BY SMTT(30), <3>3, <3>5
      <4>2. replay'[j] = NoReplay
        BY ZenonT(30), <3>1, <3>3, <3>5 DEF Advance
      <4>3. SplicedJob(j)'
        BY ZenonT(60), <3>1, <3>2, <3>4, <4>1, <4>2 DEF SplicedJob
      <4> QED BY ZenonT(60), <1>1, <3>1, <4>3 DEF SplicedStream
    <3>6. CASE r.next + 1 # Len(o)
      <4>1. replay'[j] = [tokens |-> o, next |-> r.next + 1]
        BY Zenon, <3>1, <3>3, <3>6 DEF Advance
      <4>2. r.next + 1 < Len(o)
        BY SMTT(60), <3>3, <3>6
      <4>3. replay'[j] # NoReplay
        <5>1. replay'[j].next = r.next + 1 /\ NoReplay.next = 0 /\ r.next + 1 # 0
          BY SMTT(30), <3>3, <4>1 DEF NoReplay
        <5> QED BY Zenon, <5>1
      <4>4. /\ replay'[j].tokens = output'[j] /\ replay'[j].next < Len(output'[j])
            /\ heard'[j] = SubSeq(output'[j], 1, replay'[j].next)
        <5>1. output'[j] = o
          BY Zenon, <3>1
        <5>2. replay'[j].tokens = o /\ replay'[j].next = r.next + 1
          BY SMTT(30), <4>1
        <5> HIDE DEF r, o
        <5> QED BY Zenon, <3>4, <4>2, <5>1, <5>2
      <4>5. SplicedJob(j)'
        BY Zenon, <3>1, <3>2, <4>3, <4>4 DEF SplicedJob
      <4> QED BY Zenon, <1>1, <3>1, <4>5 DEF SplicedStream
    <3> QED BY Zenon, <3>5, <3>6
  <2>3. ASSUME NEW n \in Leases(j), NEW i \in 0..MaxTokens, NEW t \in Tokens,
               OnNewToken(j, n, i, t)
        PROVE  SplicedStream'
    <3>1. /\ UNCHANGED <<live, replay>> /\ replay[j] = NoReplay
          /\ output'[j] = Append(output[j], t) /\ heard'[j] = Append(heard[j], t)
          /\ \A k \in Jobs \ {j} : /\ status'[k] = status[k] /\ output'[k] = output[k]
                                   /\ heard'[k] = heard[k]
      BY Zenon, <2>3 DEF OnNewToken, TakesToken, TypeOK
    <3>2. j \in live
      BY Zenon, <2>3 DEF OnNewToken, TakesToken, Receives
    <3>3. heard[j] = output[j]
      BY Zenon, <3>1, <3>2 DEF SplicedStream, SplicedJob
    <3>4. SplicedJob(j)'
      BY Zenon, <3>1, <3>2, <3>3 DEF SplicedJob
    <3> QED BY ZenonT(60), <1>1, <3>1, <3>4 DEF SplicedStream
  <2> QED BY Zenon, <1>4, <2>1, <2>2, <2>3 DEF Listens
<1>5. ASSUME NEW j \in Jobs, Ends(j)
      PROVE  SplicedStream'
  <2>1. PICK st \in Terminal : /\ st = "completed" => replay[j] = NoReplay
                               /\ status' = [status EXCEPT ![j] = st]
    BY ZenonT(30), <1>5 DEF Ends, End
  <2>2. /\ j \in live /\ live' = live \ {j} /\ UNCHANGED <<output, heard>>
        /\ \A k \in Jobs \ {j} : replay'[k] = replay[k] /\ status'[k] = status[k]
    BY <1>5 DEF Ends, End, FinishRuntime, TypeOK
  <2>3. status'[j] = "completed" => heard[j] = output[j]
    BY Zenon, <2>1, <2>2 DEF SplicedStream, SplicedJob, TypeOK
  <2>4. SplicedJob(j)'
    BY Zenon, <2>2, <2>3 DEF SplicedJob
  <2> QED BY Zenon, <1>1, <2>2, <2>4 DEF SplicedStream
<1>6. ASSUME NEW j \in Jobs, Moves(j)
      PROVE  SplicedStream'
  <2>1. /\ UNCHANGED <<live, output>> /\ replay'[j] = [tokens |-> output[j], next |-> 0]
        /\ heard'[j] = <<>> /\ status'[j] = "leasing"
        /\ \A k \in Jobs \ {j} : /\ status'[k] = status[k] /\ replay'[k] = replay[k]
                                 /\ heard'[k] = heard[k]
    BY SMTT(30), <1>6 DEF Moves, GrantLease, ReplayPrefix, TypeOK
  <2>2. output[j] \in Seq(Tokens)
    BY Zenon DEF TypeOK
  <2>3. CASE output[j] = <<>>
    <3>1. SplicedJob(j)'
      BY Zenon, <2>1, <2>3 DEF SplicedJob, NoReplay
    <3> QED BY Zenon, <1>1, <2>1, <3>1 DEF SplicedStream
  <2>4. CASE output[j] # <<>>
    <3>1. replay'[j] # NoReplay /\ 0 < Len(output[j]) /\ SubSeq(output[j], 1, 0) = <<>>
      BY SMTT(30), <2>1, <2>2, <2>4 DEF NoReplay
    <3>2. SplicedJob(j)'
      BY SMTT(30), <2>1, <3>1 DEF SplicedJob
    <3> QED BY Zenon, <1>1, <2>1, <3>2 DEF SplicedStream
  <2> QED BY Zenon, <2>3, <2>4
<1>7. CASE WorldMoves
  BY Zenon, <1>1, <1>7, WorldEffects DEF service, SplicedStream
<1>8. CASE Restart
  <2>1. ASSUME NEW k \in Jobs
        PROVE  SplicedJob(k)'
    BY Zenon, <1>8 DEF Restart, SplicedStream, SplicedJob
  <2> QED BY Zenon, <2>1 DEF SplicedStream
<1> QED
  BY ZenonT(60), <1>2, <1>3, <1>4, <1>5, <1>6, <1>7, <1>8, StepEffects

\* A step keeps the stream of every job it adds nothing to.
LEMMA StreamFrame ==
    ASSUME NEW k, StreamOf(k), status'[k] = status[k], output'[k] = output[k], events'[k] = events[k]
    PROVE  StreamOf(k)'
BY Zenon DEF StreamOf

\* An unfinished job has had no ending.
LEMMA OpenStream ==
    ASSUME IInv, NEW j \in live
    PROVE  /\ j \in Jobs /\ events[j] \in Seq(Event) /\ output[j] \in Seq(Tokens)
           /\ Len(events[j]) = Len(output[j]) + 1
           /\ events[j][1] = PlainEvent("accepted")
           /\ \A i \in 1..Len(output[j]) : events[j][i + 1] = TokenEvent(i - 1, output[j][i])
<1>1. j \in Jobs /\ events[j] # <<>> /\ events[j] \in Seq(Event) /\ output[j] \in Seq(Tokens)
  BY Zenon DEF IInv, Streamed, TypeOK
<1>2. status[j] \in Active
  BY Zenon, <1>1 DEF IInv, Rows, RuntimesMatchRows, NonTerminal
<1>3. StreamOf(j)
  BY Zenon, <1>1 DEF IInv, ClientSeesOneStream
<1> QED
  BY Zenon, <1>1, <1>2, <1>3 DEF StreamOf, Active, Terminal

\* No step makes the client's queue anything but one stream of the output.
LEMMA StreamStep ==
    ASSUME IInv, Next
    PROVE  Streamed' /\ ClientSeesOneStream'
<1> DEFINE Kept(k) == status'[k] = status[k] /\ output'[k] = output[k] /\ events'[k] = events[k]
<1> TypeOK /\ Rows /\ Fresh /\ Streamed /\ ClientSeesOneStream
  BY Zenon DEF IInv
<1>1. ASSUME NEW j \in Jobs, live' \subseteq live \union {j}, events'[j] # <<>>,
             \A k \in Jobs \ {j} : Kept(k), StreamOf(j)'
      PROVE  Streamed' /\ ClientSeesOneStream'
  BY Zenon, <1>1, StreamFrame DEF Streamed, ClientSeesOneStream, TypeOK
<1>2. ASSUME live' = live, \A k \in Jobs : Kept(k)
      PROVE  Streamed' /\ ClientSeesOneStream'
  BY ZenonT(60), <1>2, StreamFrame DEF Streamed, ClientSeesOneStream, TypeOK
<1>3. ASSUME NEW j \in Jobs, Refused(j)
      PROVE  Streamed' /\ ClientSeesOneStream'
  <2>1. /\ live' = live /\ output' = output /\ \A k \in Jobs \ {j} : Kept(k)
        /\ status'[j] \in {"failed", "expired"} /\ status[j] = "none"
    BY Zenon, <1>3 DEF Refused, TypeOK
  <2>2. output[j] = <<>> /\ events[j] = <<>> /\ j \notin live
    BY Zenon, <2>1 DEF Fresh, Rows, RuntimesMatchRows, NonTerminal, Active
  <2>3. CASE UNCHANGED events
    BY Zenon, <2>1, <2>2, <2>3, StreamFrame DEF Streamed, ClientSeesOneStream, TypeOK
  <2>4. CASE events' = [events EXCEPT ![j] = <<PlainEvent("accepted"), PlainEvent("failed")>>]
    <3>1. events'[j] = <<PlainEvent("accepted"), PlainEvent("failed")>>
      BY Zenon, <2>4 DEF TypeOK
    <3>2. StreamOf(j)'
      BY <2>1, <2>2, <3>1 DEF StreamOf, Ending, Terminal
    <3>3. <<PlainEvent("accepted"), PlainEvent("failed")>> # <<>>
      BY Zenon
    <3>4. live' \subseteq live \union {j} /\ events'[j] # <<>>
      BY ZenonT(30), <2>1, <3>1, <3>3
    <3> QED BY ZenonT(60), <1>1, <2>1, <3>2, <3>4
  <2> QED BY Zenon, <1>3, <2>3, <2>4 DEF Refused
<1>4. ASSUME NEW j \in Jobs, Begins(j)
      PROVE  Streamed' /\ ClientSeesOneStream'
  <2>1. /\ live' = live \union {j} /\ output' = output /\ \A k \in Jobs \ {j} : Kept(k)
        /\ status'[j] = "leasing" /\ events'[j] = <<PlainEvent("accepted")>>
    BY ZenonT(60), <1>4 DEF Begins, GrantLease, TypeOK
  <2>2. output[j] = <<>>
    BY Zenon, <1>4 DEF Begins, Fresh
  <2>3. StreamOf(j)'
    BY <2>1, <2>2 DEF StreamOf, Active
  <2> QED BY <1>1, <2>1, <2>3
<1>5. ASSUME NEW j \in Jobs, Listens(j)
      PROVE  Streamed' /\ ClientSeesOneStream'
  <2>1. /\ j \in live /\ live' = live /\ \A k \in Jobs \ {j} : Kept(k)
        /\ status'[j] \in Active
    BY SMTT(60), <1>5 DEF Listens, OnLeaseAccepted, OnReplayedToken, OnNewToken, TakesToken, Receives,
                Rows, RuntimesMatchRows, NonTerminal, Active, TypeOK
  <2>2. CASE output'[j] = output[j] /\ events'[j] = events[j]
    <3>1. events[j] # <<>>
      BY Zenon, <2>1 DEF Streamed
    <3>2. StreamOf(j)'
      BY ZenonT(60), <2>1, <2>2, OpenStream DEF StreamOf
    <3> QED BY Zenon, <1>1, <2>1, <2>2, <3>1, <3>2
  <2>3. ASSUME NEW t \in Tokens, output'[j] = Append(output[j], t),
               events'[j] = Append(events[j], TokenEvent(Len(output[j]), t))
        PROVE  Streamed' /\ ClientSeesOneStream'
    <3> DEFINE o == output[j]
               e == events[j]
               x == TokenEvent(Len(o), t)
    <3>1. /\ o \in Seq(Tokens) /\ e \in Seq(Event) /\ Len(e) = Len(o) + 1
          /\ e[1] = PlainEvent("accepted")
          /\ \A i \in 1..Len(o) : e[i + 1] = TokenEvent(i - 1, o[i])
      BY ZenonT(30), <2>1, OpenStream
    <3>2. /\ Len(Append(o, t)) = Len(o) + 1 /\ Len(Append(e, x)) = Len(o) + 2
          /\ Append(e, x)[1] = PlainEvent("accepted") /\ Append(e, x) # <<>>
      <4> HIDE DEF o, e, x
      <4> QED BY SMTT(30), <3>1
    <3>3. ASSUME NEW i \in 1..(Len(o) + 1)
          PROVE  Append(e, x)[i + 1] = TokenEvent(i - 1, Append(o, t)[i])
      <4>1. CASE i = Len(o) + 1
        <5>1. Append(e, x)[i + 1] = x /\ Append(o, t)[i] = t /\ i - 1 = Len(o)
          <6> HIDE DEF o, e, x
          <6> QED BY SMTT(30), <3>1, <4>1
        <5> QED BY Zenon, <5>1
      <4>2. CASE i \in 1..Len(o)
        <5>1. Append(e, x)[i + 1] = e[i + 1] /\ Append(o, t)[i] = o[i]
          <6> HIDE DEF o, e, x
          <6> QED BY SMTT(60), <3>1, <4>2
        <5> QED BY ZenonT(60), <3>1, <4>2, <5>1
      <4> QED BY SMTT(30), <3>1, <4>1, <4>2
    <3>4. output'[j] = Append(o, t) /\ events'[j] = Append(e, x)
      BY Zenon, <2>3
    <3>5. StreamOf(j)'
      <4> HIDE DEF o, e, x
      <4> QED BY SMTT(30), <2>1, <3>2, <3>3, <3>4 DEF StreamOf
    <3> QED BY ZenonT(60), <1>1, <2>1, <3>2, <3>4, <3>5
  <2>4. CASE \E n \in Leases(j), i \in 0..MaxTokens, t \in Tokens : OnNewToken(j, n, i, t)
    <3>1. PICK t \in Tokens : /\ output' = [output EXCEPT ![j] = Append(@, t)]
                              /\ events' = [events EXCEPT ![j] =
                                               Append(@, TokenEvent(Len(output[j]), t))]
      BY ZenonT(30), <2>4 DEF OnNewToken, Extends
    <3> QED BY Zenon, <2>3, <3>1 DEF TypeOK
  <2>5. CASE \/ \E n \in Leases(j) : OnLeaseAccepted(j, n)
             \/ \E n \in Leases(j), i \in 0..MaxTokens, t \in Tokens : OnReplayedToken(j, n, i, t)
    BY ZenonT(60), <2>2, <2>5 DEF OnLeaseAccepted, OnReplayedToken
  <2> QED BY Zenon, <1>5, <2>4, <2>5 DEF Listens
<1>6. ASSUME NEW j \in Jobs, TimerIdles(j)
      PROVE  Streamed' /\ ClientSeesOneStream'
  BY Zenon, <1>2, <1>6 DEF TimerIdles
<1>7. ASSUME NEW j \in Jobs, Ends(j)
      PROVE  Streamed' /\ ClientSeesOneStream'
  <2>1. PICK st \in Terminal : End(j, st, IF st = "completed" THEN "completed" ELSE "failed")
    BY Zenon, <1>7 DEF Ends
  <2>2. /\ j \in live /\ live' = live \ {j} /\ output' = output
        /\ \A k \in Jobs \ {j} : Kept(k)
        /\ status'[j] = st /\ events'[j] = Append(events[j], Ending(st))
    BY SMTT(60), <1>7, <2>1 DEF Ends, End, FinishRuntime, Ending, TypeOK
  <2> DEFINE o == output[j]
             e == events[j]
             x == Ending(st)
  <2>3. /\ o \in Seq(Tokens) /\ e \in Seq(Event) /\ Len(e) = Len(o) + 1
        /\ e[1] = PlainEvent("accepted")
        /\ \A i \in 1..Len(o) : e[i + 1] = TokenEvent(i - 1, o[i])
    BY ZenonT(60), <2>2, OpenStream
  <2>4. /\ Len(Append(e, x)) = Len(o) + 2 /\ Append(e, x)[Len(o) + 2] = x
        /\ \A i \in 1..(Len(o) + 1) : Append(e, x)[i] = e[i]
        /\ Append(e, x) # <<>>
    <3>1. x \in Event
      BY Zenon, ConstantsOK DEF Ending, PlainEvent, Event
    <3> HIDE DEF o, e, x
    <3>2. Append(e, x) # <<>> /\ Len(Append(e, x)) = Len(e) + 1
      BY ZenonT(60), <2>3, <3>1, AppendIsLonger
    <3>3. Append(e, x)[Len(e) + 1] = x /\ \A i \in 1..Len(e) : Append(e, x)[i] = e[i]
      BY SMTT(30), <2>3, <3>1
    <3> QED BY SMTT(30), <2>3, <3>2, <3>3
  <2>5. events'[j] = Append(e, x) /\ output'[j] = o /\ x = Ending(status'[j])
    BY Zenon, <2>2
  <2>6. \A i \in 1..Len(o) : Append(e, x)[i + 1] = TokenEvent(i - 1, o[i])
    <3> HIDE DEF o, e, x
    <3> QED BY SMTT(30), <2>3, <2>4
  <2>7. StreamOf(j)'
    <3>1. Append(e, x)[1] = PlainEvent("accepted")
      <4> HIDE DEF o, e, x
      <4> QED BY SMTT(60), <2>3, <2>4
    <3>2. status'[j] \in Terminal
      BY Zenon, <2>2
    <3> HIDE DEF o, e, x
    <3> QED BY Zenon, <2>4, <2>5, <2>6, <3>1, <3>2 DEF StreamOf
  <2> QED BY ZenonT(60), <1>1, <2>2, <2>4, <2>5, <2>7
<1>8. ASSUME NEW j \in Jobs, Moves(j)
      PROVE  Streamed' /\ ClientSeesOneStream'
  <2>1. /\ j \in live /\ UNCHANGED <<live, output, events>>
        /\ status'[j] = "leasing" /\ \A k \in Jobs \ {j} : status'[k] = status[k]
    BY ZenonT(30), <1>8 DEF Moves, GrantLease, TypeOK
  <2>2. StreamOf(j)'
    BY Zenon, <2>1, OpenStream DEF StreamOf, Active
  <2> QED BY Zenon, <1>1, <2>1, <2>2 DEF Streamed
<1>9. CASE WorldMoves
  BY Zenon, <1>2, <1>9, WorldEffects DEF service
<1>10. CASE Restart
  <2>1. /\ live' = {} /\ UNCHANGED <<output, events>>
        /\ \A k \in Jobs : status'[k] = IF k \in live THEN "failed" ELSE status[k]
    BY Zenon, <1>10 DEF Restart, Rows, RuntimesMatchRows
  <2>2. ASSUME NEW k \in Jobs, events[k] # <<>>
        PROVE  StreamOf(k)'
    <3>1. CASE k \in live
      BY ZenonT(60), <2>1, <3>1, OpenStream DEF StreamOf
    <3>2. CASE k \notin live
      BY Zenon, <2>1, <2>2, <3>2, StreamFrame DEF ClientSeesOneStream
    <3> QED BY Zenon, <3>1, <3>2
  <2> QED BY Zenon, <2>1, <2>2 DEF Streamed, ClientSeesOneStream
<1> QED
  BY ZenonT(60), <1>3, <1>4, <1>5, <1>6, <1>7, <1>8, <1>9, <1>10, StepEffects

\* No step leaves a silent lease without a timer.
LEMMA WatchStep ==
    ASSUME IInv, Next
    PROVE  SilenceIsWatched'
<1> TypeOK /\ SplicedStream /\ SilenceIsWatched
  BY Zenon DEF IInv
<1> USE DEF SilenceIsWatched
<1>1. ASSUME NEW j \in Jobs, Refused(j)
      PROVE  SilenceIsWatched'
  BY Zenon, <1>1 DEF Refused
<1>2. ASSUME NEW j \in Jobs, Begins(j)
      PROVE  SilenceIsWatched'
  BY ZenonT(30), <1>2 DEF Begins, GrantLease, TypeOK
<1>3. ASSUME NEW j \in Jobs, Listens(j)
      PROVE  SilenceIsWatched'
  <2>1. ASSUME NEW n \in Leases(j), OnLeaseAccepted(j, n)
        PROVE  SilenceIsWatched'
    BY Zenon, <2>1 DEF OnLeaseAccepted, ArmsFirstTokenTimer
  <2>2. ASSUME NEW n \in Leases(j), NEW t \in Tokens, TakesToken(j, n, t)
        PROVE  SilenceIsWatched'
    <3>1. Append(heard[j], t) # <<>>
      <4>1. heard[j] \in Seq(Tokens)
        BY ZenonT(30) DEF TypeOK
      <4> QED BY ZenonT(30), <4>1, AppendIsLonger
    <3>2. heard'[j] # <<>> /\ \A k \in Jobs \ {j} : heard'[k] = heard[k]
      BY Zenon, <2>2, <3>1 DEF TakesToken, TypeOK
    <3> QED BY Zenon, <2>2, <3>2 DEF TakesToken, TypeOK
  <2> QED BY Zenon, <1>3, <2>1, <2>2 DEF Listens, OnReplayedToken, OnNewToken
<1>4. ASSUME NEW j \in Jobs, TimerIdles(j)
      PROVE  SilenceIsWatched'
  <2>1. heard[j] # <<>>
    BY Zenon, <1>4 DEF TimerIdles, SplicedStream, SplicedJob
  <2> QED BY Zenon, <1>4, <2>1 DEF TimerIdles
<1>5. ASSUME NEW j \in Jobs, Ends(j)
      PROVE  SilenceIsWatched'
  BY Zenon, <1>5 DEF Ends, End, FinishRuntime
<1>6. ASSUME NEW j \in Jobs, Moves(j)
      PROVE  SilenceIsWatched'
  BY Zenon, <1>6 DEF Moves, GrantLease, TypeOK
<1>7. CASE WorldMoves
  BY Zenon, <1>7, WorldEffects DEF service
<1>8. CASE Restart
  BY Zenon, <1>8 DEF Restart
<1> QED
  BY ZenonT(60), <1>1, <1>2, <1>3, <1>4, <1>5, <1>6, <1>7, <1>8, StepEffects

\* No step leaves a job on a worker that has no connection, unless the
\* running disconnect handler is still to retry it.
LEMMA AttachedStep ==
    ASSUME IInv, Next
    PROVE  Attached'
<1> TypeOK /\ Rows /\ Attached
  BY Zenon DEF IInv
<1> USE DEF Attached
<1>1. ASSUME NEW j \in Jobs, Refused(j) \/ TimerIdles(j)
      PROVE  Attached'
  BY Zenon, <1>1 DEF Refused, TimerIdles, world
<1>2. ASSUME NEW j \in Jobs, Begins(j)
      PROVE  Attached'
  <2>1. PICK w : conn[w] = "ready" /\ worker' = [worker EXCEPT ![j] = w]
    BY Zenon, <1>2 DEF Begins, CanSend, GrantLease
  <2>2. live' = live \union {j} /\ UNCHANGED <<lost, conn>>
    BY Zenon, <1>2 DEF Begins, world
  <2> QED BY ZenonT(30), <2>1, <2>2 DEF TypeOK
<1>3. ASSUME NEW j \in Jobs, Listens(j)
      PROVE  Attached'
  BY Zenon, <1>3 DEF Listens, OnLeaseAccepted, OnReplayedToken, OnNewToken, TakesToken, Receives, world
<1>4. ASSUME NEW j \in Jobs, Ends(j)
      PROVE  Attached'
  BY Zenon, <1>4 DEF Ends, End, FinishRuntime, world
<1>5. ASSUME NEW j \in Jobs, Moves(j)
      PROVE  Attached'
  <2>1. PICK w : conn[w] = "ready" /\ worker' = [worker EXCEPT ![j] = w]
    BY Zenon, <1>5 DEF Moves, CanSend, GrantLease
  <2>2. live' = live /\ conn' = conn /\ lost' \in {lost, lost \ {j}}
    BY ZenonT(60), <1>5 DEF Moves, world
  <2> QED BY Zenon, <2>1, <2>2 DEF TypeOK
<1>6. CASE WorldMoves
  <2>1. UNCHANGED <<live, worker>> /\ lost = {}
    BY Zenon, <1>6, WorldEffects DEF service
  <2>2. \A j \in live : status[j] \in Active /\ j \in Jobs
    BY Zenon DEF Rows, RuntimesMatchRows, NonTerminal, TypeOK
  <2>3. ASSUME NEW w \in Workers, ActiveOn(w) \subseteq lost', conn' = [conn EXCEPT ![w] = "down"]
        PROVE  Attached'
    BY SMTT(30), <2>1, <2>2, <2>3 DEF ActiveOn, TypeOK
  <2>4. ASSUME lost' = {}, \A w \in Workers : conn[w] # "down" => conn'[w] # "down"
        PROVE  Attached'
    <3>1. \A j \in live : worker[j] \in Workers
      <4>1. ASSUME NEW j \in live
            PROVE  worker[j] \in Workers
        <5>1. plan[j] \in Seq(Workers) /\ LeasedJob(j)
          BY Zenon DEF IInv, Leased, TypeOK
        <5>2. routeIndex[j] \in 1..Len(plan[j]) /\ worker[j] = plan[j][routeIndex[j]]
          BY Zenon, <5>1 DEF LeasedJob
        <5> QED BY <5>1, <5>2
      <4> QED BY Zenon, <4>1
    <3> QED BY Zenon, <2>1, <2>4, <3>1
  <2> QED BY Zenon, <1>6, <2>3, <2>4, WorldEffects
<1>7. CASE Restart
  BY Zenon, <1>7 DEF Restart
<1> QED
  BY Zenon, <1>1, <1>2, <1>3, <1>4, <1>5, <1>6, <1>7, StepEffects

\* WithinConcurrency, with the finiteness that lets sets be counted.
Counted ==
    \A w \in Workers : IsFiniteSet(ActiveOn(w)) /\ Cardinality(ActiveOn(w)) <= MaxConcurrency

\* The set S of jobs on a worker may lose jobs, and gains at most one, while
\* there is room.
LEMMA CountedSet ==
    ASSUME NEW S, IsFiniteSet(S), Cardinality(S) <= MaxConcurrency, NEW T, NEW x,
           \/ T \subseteq S
           \/ Cardinality(S) < MaxConcurrency /\ T \subseteq S \union {x}
    PROVE  IsFiniteSet(T) /\ Cardinality(T) <= MaxConcurrency
<1>1. Cardinality(S) \in Nat /\ MaxConcurrency \in Nat
  BY Zenon, FS_CardinalityType, ConstantsOK
<1>2. CASE T \subseteq S
  <2>1. IsFiniteSet(T) /\ Cardinality(T) <= Cardinality(S) /\ Cardinality(T) \in Nat
    BY Zenon, <1>2, FS_Subset, FS_CardinalityType
  <2> QED BY SMTT(60), <1>1, <2>1
<1>3. CASE Cardinality(S) < MaxConcurrency /\ T \subseteq S \union {x}
  <2>1. /\ IsFiniteSet(S \union {x})
        /\ Cardinality(S \union {x}) \in {Cardinality(S), Cardinality(S) + 1}
    BY Zenon, FS_AddElement
  <2>2. IsFiniteSet(T) /\ Cardinality(T) <= Cardinality(S \union {x}) /\ Cardinality(T) \in Nat
    BY Zenon, <1>3, <2>1, FS_Subset, FS_CardinalityType
  <2> QED BY SMTT(60), <1>1, <1>3, <2>1, <2>2
<1> QED
  BY Zenon, <1>2, <1>3

\* No step gives a worker more active jobs than slots.
LEMMA CountedStep ==
    ASSUME IInv, Counted, [Next]_vars
    PROVE  Counted'
<1> TypeOK /\ Rows
  BY Zenon DEF IInv
<1>1. ASSUME \A w \in Workers : ActiveOn(w)' \subseteq ActiveOn(w)
      PROVE  Counted'
  BY Zenon, <1>1, CountedSet DEF Counted
<1>2. ASSUME NEW j \in Jobs, NEW v, GrantLease(j, v), HasRoom(v)
      PROVE  Counted'
  <2>1. \A k \in Jobs \ {j} : status'[k] = status[k] /\ worker'[k] = worker[k]
    BY Zenon, <1>2 DEF GrantLease, TypeOK
  <2>2. worker'[j] = v
    BY Zenon, <1>2 DEF GrantLease, TypeOK
  <2>3. ASSUME NEW w \in Workers
        PROVE  IsFiniteSet(ActiveOn(w)') /\ Cardinality(ActiveOn(w)') <= MaxConcurrency
    <3>1. CASE w = v
      <4>1. ActiveOn(w)' \subseteq ActiveOn(w) \union {j}
        BY Zenon, <2>1 DEF ActiveOn
      <4> QED BY Zenon, <1>2, <3>1, <4>1, CountedSet DEF Counted, HasRoom
    <3>2. CASE w # v
      <4>1. ActiveOn(w)' \subseteq ActiveOn(w)
        BY Zenon, <2>1, <2>2, <3>2 DEF ActiveOn
      <4> QED BY Zenon, <4>1, CountedSet DEF Counted
    <3> QED BY Zenon, <3>1, <3>2
  <2> QED BY Zenon, <2>3 DEF Counted
<1>3. ASSUME NEW j \in Jobs, Refused(j) \/ TimerIdles(j) \/ Ends(j)
      PROVE  Counted'
  BY Zenon, <1>1, <1>3 DEF Refused, TimerIdles, Ends, End, ActiveOn, Active, Terminal, TypeOK
<1>4. ASSUME NEW j \in Jobs, Listens(j)
      PROVE  Counted'
  <2>1. j \in live /\ worker' = worker
    BY ZenonT(30), <1>4 DEF Listens, OnLeaseAccepted, OnReplayedToken, OnNewToken, TakesToken
  <2>2. \A k \in Jobs \ {j} : status'[k] = status[k]
    BY Zenon, <1>4 DEF Listens, OnLeaseAccepted, OnReplayedToken, OnNewToken, TypeOK
  <2>3. status[j] \in Active
    BY Zenon, <2>1 DEF Rows, RuntimesMatchRows, NonTerminal
  <2> QED BY Zenon, <1>1, <2>1, <2>2, <2>3 DEF ActiveOn
<1>5. ASSUME NEW j \in Jobs, Begins(j) \/ Moves(j)
      PROVE  Counted'
  BY Zenon, <1>2, <1>5 DEF Begins, Moves
<1>6. CASE WorldMoves
  BY ZenonT(30), <1>1, <1>6, WorldEffects DEF service, ActiveOn
<1>7. CASE Restart
  <2>1. /\ worker' = worker
        /\ status' = [k \in Jobs |-> IF status[k] \in NonTerminal THEN "failed" ELSE status[k]]
    BY Zenon, <1>7 DEF Restart
  <2>2. \A k \in Jobs : status'[k] \notin Active
    BY Zenon, <2>1 DEF NonTerminal, Active
  <2> QED BY Zenon, <1>1, <2>2 DEF ActiveOn
<1>8. CASE UNCHANGED vars
  BY Zenon, <1>1, <1>8 DEF vars, ActiveOn
<1> QED
  BY Zenon, <1>3, <1>4, <1>5, <1>6, <1>7, <1>8, StepEffects

-----------------------------------------------------------------------------
(* The theorems *)

\* The inductive invariant holds when the service starts.
LEMMA InitIInv ==
    ASSUME Init
    PROVE  IInv
<1>1. TypeOK
  BY SMTT(30), NoReplayType DEF Init, TypeOK, Healths
<1>2. Rows /\ Fresh /\ Leased /\ NoSecondOffer
  BY SMTT(30) DEF Init, Rows, RuntimesMatchRows, NonTerminal, Active, Fresh, Leased, NoSecondOffer,
         IsInjectivePlan
<1>3. SplicedStream /\ Streamed /\ ClientSeesOneStream
  BY ZenonT(60) DEF Init, SplicedStream, SplicedJob, Streamed, ClientSeesOneStream
<1>4. SilenceIsWatched /\ Attached
  BY Zenon DEF Init, SilenceIsWatched, Attached
<1> QED
  BY Zenon, <1>1, <1>2, <1>3, <1>4 DEF IInv

\* Every step preserves the inductive invariant.
LEMMA StepIInv ==
    ASSUME IInv, [Next]_vars
    PROVE  IInv'
<1>1. CASE Next
  BY Zenon, <1>1, NextType, RowsStep, FreshStep, LeasedStep, SplicedStep, StreamStep, WatchStep,
     AttachedStep DEF IInv
<1>2. CASE UNCHANGED vars
  <2> USE <1>2 DEF vars, request, world
  <2>1. TypeOK'
    BY ZenonT(30) DEF IInv, TypeOK
  <2>2. Rows' /\ Fresh'
    BY ZenonT(60) DEF IInv, Rows, RuntimesMatchRows, Fresh
  <2>3. Leased' /\ NoSecondOffer'
    BY ZenonT(30), LeasedFrame DEF IInv, Leased, NoSecondOffer
  <2>4. SplicedStream'
    BY ZenonT(60) DEF IInv, SplicedStream, SplicedJob
  <2>5. Streamed'
    BY Zenon DEF IInv, Streamed
  <2>6. ClientSeesOneStream'
    BY Zenon, StreamFrame DEF IInv, ClientSeesOneStream
  <2>7. SilenceIsWatched' /\ Attached'
    BY Zenon DEF IInv, SilenceIsWatched, Attached
  <2> QED
    BY ZenonT(30), <2>1, <2>2, <2>3, <2>4, <2>5, <2>6, <2>7 DEF IInv
<1> QED
  BY Zenon, <1>1, <1>2

\* The strengthened invariant holds throughout every behaviour of the service.
THEOREM Invariance == Spec => []IInv
<1>1. Init => IInv
  BY Zenon, InitIInv
<1>2. IInv /\ [Next]_vars => IInv'
  BY Zenon, StepIInv
<1> QED
  BY <1>1, <1>2, PTL DEF Spec

\* Every variable of the service keeps its type.
THEOREM TypeCorrect == Spec => []TypeOK
<1>1. IInv => TypeOK
  BY Zenon DEF IInv
<1> QED
  BY <1>1, Invariance, PTL

\* The runtimes and sessions in memory always match the job table.
THEOREM MemoryMatchesTable == Spec => []RuntimesMatchRows
<1>1. IInv => RuntimesMatchRows
  BY Zenon DEF IInv, Rows
<1> QED
  BY <1>1, Invariance, PTL

\* Failover never splices the outputs of different leases: what the client
\* holds is always consistent with the one lease that is current.
THEOREM SplicingIsSound == Spec => []SplicedStream
<1>1. IInv => SplicedStream
  BY Zenon DEF IInv
<1> QED
  BY <1>1, Invariance, PTL

\* The client's queue is one well-formed stream whatever failovers happen.
THEOREM StreamIsWellFormed == Spec => []ClientSeesOneStream
<1>1. IInv => ClientSeesOneStream
  BY Zenon DEF IInv
<1> QED
  BY <1>1, Invariance, PTL

\* No worker gets two leases of one job.
THEOREM OffersAreDistinct == Spec => []NoSecondOffer
<1>1. IInv => NoSecondOffer
  BY Zenon DEF IInv
<1> QED
  BY <1>1, Invariance, PTL

\* A lease that has produced nothing is watched by a short timer.
THEOREM SilenceIsNoticed == Spec => []SilenceIsWatched
<1>1. IInv => SilenceIsWatched
  BY Zenon DEF IInv
<1> QED
  BY <1>1, Invariance, PTL

\* Between handlers, the worker of every unfinished job has a connection.
THEOREM LeasesStayAttached == Spec => []LeasesAreAttached
<1>1. IInv => LeasesAreAttached
  BY Zenon DEF IInv, Attached, LeasesAreAttached
<1> QED
  BY <1>1, Invariance, PTL

\* No worker is ever leased more jobs than it has slots for.
THEOREM ConcurrencyIsKept == Spec => []WithinConcurrency
<1>1. Init => Counted
  <2>1. ASSUME Init, NEW w \in Workers
        PROVE  ActiveOn(w) = {}
    BY Zenon, <2>1 DEF Init, ActiveOn, Active
  <2> QED BY SMTT(30), <2>1, FS_EmptySet, ConstantsOK DEF Counted
<1>2. IInv /\ Counted /\ [Next]_vars => Counted'
  BY Zenon, CountedStep
<1>3. Counted => WithinConcurrency
  BY Zenon DEF Counted, WithinConcurrency
<1> QED
  BY <1>1, <1>2, <1>3, Invariance, PTL DEF Spec

\* No step changes the outcome or the stream of a finished job, nor the job
\* an idempotency key is bound to.
THEOREM FinalEndings == Spec => EndingsAreFinal
<1> DEFINE Final == /\ \A j \in Jobs : status[j] \in Terminal =>
                          status'[j] = status[j] /\ events'[j] = events[j]
                    /\ \A k \in Keys : keyJob[k] # NoJob => keyJob'[k] = keyJob[k]
<1>1. ASSUME IInv, Next
      PROVE  Final
  <2> TypeOK /\ Rows
    BY Zenon, <1>1 DEF IInv
  <2>1. ASSUME NEW j \in Jobs, status[j] \notin Terminal, KeysKept,
               \A k \in Jobs \ {j} : status'[k] = status[k] /\ events'[k] = events[k]
        PROVE  Final
    BY Zenon, <2>1 DEF KeysKept
  <2>2. \A j \in live : status[j] \notin Terminal
    BY Zenon DEF Rows, RuntimesMatchRows, NonTerminal, Active, Terminal, TypeOK
  <2>3. ASSUME NEW j \in Jobs, Refused(j) \/ Begins(j)
        PROVE  Final
    BY Zenon, <2>1, <2>3 DEF Refused, Begins, GrantLease, Terminal, TypeOK
  <2>4. ASSUME NEW j \in Jobs, Listens(j)
        PROVE  Final
    BY ZenonT(30), <2>1, <2>2, <2>4 DEF Listens, OnLeaseAccepted, OnReplayedToken, OnNewToken, TakesToken,
                            Receives, KeysKept, TypeOK
  <2>5. ASSUME NEW j \in Jobs, TimerIdles(j) \/ Ends(j) \/ Moves(j)
        PROVE  Final
    BY Zenon, <2>1, <2>2, <2>5 DEF TimerIdles, Ends, End, Moves, GrantLease, KeysKept, TypeOK
  <2>6. CASE WorldMoves
    BY ZenonT(30), <2>6, WorldEffects DEF service
  <2>7. CASE Restart
    BY Zenon, <2>7 DEF Restart, NonTerminal, Active, Terminal
  <2> QED
    BY Zenon, <1>1, <2>3, <2>4, <2>5, <2>6, <2>7, StepEffects
<1>2. IInv /\ [Next]_vars => [Final]_vars
  BY Zenon, <1>1
<1> QED
  BY <1>2, Invariance, PTL DEF Spec, EndingsAreFinal

\* Output committed without a seed is never handed to another lease.
THEOREM UnseededStays == Spec => UnseededOutputStays
<1> DEFINE Stays == \A j \in Jobs : output[j] # <<>> /\ ~seeded[j] => lease'[j] = lease[j]
<1>1. ASSUME IInv, Next
      PROVE  Stays
  <2> TypeOK /\ Fresh
    BY Zenon, <1>1 DEF IInv
  <2>1. ASSUME NEW j \in Jobs, Refused(j) \/ TimerIdles(j) \/ Ends(j)
        PROVE  Stays
    BY ZenonT(30), <2>1 DEF Refused, TimerIdles, Ends, End
  <2>2. ASSUME NEW j \in Jobs, Begins(j)
        PROVE  Stays
    BY Zenon, <2>2 DEF Begins, GrantLease, Fresh, TypeOK
  <2>3. ASSUME NEW j \in Jobs, Moves(j)
        PROVE  Stays
    BY Zenon, <2>3 DEF Moves, MayMove, GrantLease, TypeOK
  <2>4. ASSUME NEW j \in Jobs, Listens(j)
        PROVE  Stays
    BY ZenonT(30), <2>4 DEF Listens, OnLeaseAccepted, OnReplayedToken, OnNewToken, TakesToken
  <2>5. CASE WorldMoves \/ Restart
    BY Zenon, <2>5, WorldEffects DEF service, Restart
  <2> QED
    BY Zenon, <1>1, <2>1, <2>2, <2>3, <2>4, <2>5, StepEffects
<1>2. IInv /\ [Next]_vars => [Stays]_vars
  BY Zenon, <1>1
<1> QED
  BY <1>2, Invariance, PTL DEF Spec, UnseededOutputStays

=============================================================================
