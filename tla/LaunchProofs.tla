---------------------------- MODULE LaunchProofs ----------------------------
(***************************************************************************)
(* Proofs about LaunchSupervisor for a launch of any number of stages,     *)
(* with any number of cut connections, crashed stages and pauses.          *)
(*                                                                         *)
(* While the launch is being built there is a front: the records before it *)
(* are ready behind an open handle, those after it have not been touched.  *)
(* Once it is being taken down, what lies beyond rb is closed for good and *)
(* what is left is either without a handle and final, or behind a handle   *)
(* that the rollback will come to.                                         *)
(***************************************************************************)
EXTENDS LaunchSupervisor, SequenceTheorems, TLAPS

Building == {"idle", "starting", "running"}
Final    == {"pending", "stopped", "failed"}
Tunnels  == {"none", "preparing", "rejected", "open", "closed"}
Frames   == {"prepare", "start", "stop"}
Answers  == {"prepared", "unprepared", "ready", "exited"}

Ready(p)     == rec[p] = "ready" /\ tun[p] = "open"
Untouched(p) == rec[p] = "pending" /\ tun[p] = "none"
Closed(p)    == rec[p] \in Final /\ tun[p] \notin {"preparing", "open"}

FrontAt(k) ==
    /\ rec[k] = "starting" /\ tun[k] \in {"preparing", "open"}
    /\ \A p \in Stages : (p < k => Ready(p)) /\ (p > k => Untouched(p))

Front ==
    /\ state \in Building => rb = 0 /\ called = FALSE
    /\ state = "idle" => \A p \in Stages : Untouched(p)
    /\ state = "starting" => \E k \in Stages : FrontAt(k)
    /\ state = "running" => \A p \in Stages : Ready(p)

Route ==
    state \notin Building =>
        /\ state = "stopping" => rb > 0
        /\ state = "stopped" => rb = 0
        /\ \A p \in Stages : /\ tun[p] # "preparing"
                             /\ Held(p) \/ rec[p] \in Final
                             /\ p > rb => Closed(p)

IInv == TypeOK /\ Front /\ Route

-----------------------------------------------------------------------------
(* The coordinator's steps *)

LEMMA SentType ==
    ASSUME NEW d \in [Stages -> Seq(Frames)], NEW W, NEW m \in Frames
    PROVE  Sent(d, W, m) \in [Stages -> Seq(Frames)]
BY DEF Sent

\* Unwind leaves the state, the records and the tunnels as Route wants them.
LEMMA UnwindStep ==
    ASSUME NEW s \in {"failed", "stopping"},
           NEW r \in [Stages -> Records], NEW t \in [Stages -> Tunnels],
           NEW d \in [Stages -> Seq(Frames)],
           \A p \in Stages : r[p] \in Final \cup {"starting"} \/ t[p] \in {"open", "closed"},
           Unwind(s, r, t, d)
    PROVE  /\ state' = s /\ rec' \in [Stages -> Records] /\ tun' \in [Stages -> Tunnels]
           /\ rb' \in 0 .. N /\ called' = FALSE /\ down' \in [Stages -> Seq(Frames)]
           /\ Front' /\ Route'
<1>0. N \in Nat /\ N > 0
  BY LaunchAssumption
<1>1. state' = s /\ rb' = N /\ called' = FALSE /\ tun' = Aborted(t)
      /\ rec' = [p \in Stages |->
                  IF r[p] # "starting" THEN r[p]
                  ELSE IF s = "failed" THEN "failed"
                  ELSE IF t[p] = "open" THEN r[p] ELSE "stopped"]
  BY Zenon DEF Unwind
<1>2. down' \in [Stages -> Seq(Frames)]
  BY Zenon, SentType DEF Unwind, AbortStops, Frames
<1>3. rec' \in [Stages -> Records]
  BY Zenon, <1>1 DEF Records
<1>4. tun' \in [Stages -> Tunnels] /\ \A p \in Stages :
          tun'[p] # "preparing" /\ (t[p] # "preparing" => tun'[p] = t[p])
  BY Zenon, <1>1 DEF Aborted, Tunnels
<1>5. \A p \in Stages : tun'[p] \in {"open", "closed"} \/ rec'[p] \in Final
  BY Zenon, <1>1, <1>4 DEF Final
<1>6. Route'
  BY <1>0, <1>1, <1>4, <1>5 DEF Route, Held, Stages
<1>7. Front'
  BY Zenon, <1>1 DEF Front, Building
<1>8. QED
  BY <1>0, <1>1, <1>2, <1>3, <1>4, <1>6, <1>7

\* What the coordinator's handlers leave to the worker.
Aside == UNCHANGED <<job, child, accepts, due, sock, cuts, losses>>
Typed ==
    /\ up' \in [Stages -> Seq(Answers)] /\ hub' \in [Stages -> BOOLEAN]
    /\ past' \in [Stages -> {"clean", "rejoined", "superseded"}]

LEMMA CoordinatorType ==
    ASSUME TypeOK, Aside, Typed,
           state' \in States, rec' \in [Stages -> Records], tun' \in [Stages -> Tunnels],
           rb' \in 0 .. N, called' \in BOOLEAN, down' \in [Stages -> Seq(Frames)]
    PROVE  TypeOK'
BY Zenon DEF TypeOK, Aside, Typed, Tunnels, Frames, Answers

LEMMA UnwindKeeps ==
    ASSUME TypeOK, Aside, Typed, NEW s \in {"failed", "stopping"},
           NEW r \in [Stages -> Records], NEW t \in [Stages -> Tunnels],
           \A p \in Stages : r[p] \in Final \cup {"starting"} \/ t[p] \in {"open", "closed"},
           Unwind(s, r, t, down)
    PROVE  IInv'
<1>1. down \in [Stages -> Seq(Frames)]
  BY Zenon DEF TypeOK, Frames
<1>2. /\ state' = s /\ rec' \in [Stages -> Records] /\ tun' \in [Stages -> Tunnels]
      /\ rb' \in 0 .. N /\ called' = FALSE /\ down' \in [Stages -> Seq(Frames)]
      /\ Front' /\ Route'
  BY Zenon, <1>1, UnwindStep
<1>3. TypeOK'
  BY Zenon, <1>2, CoordinatorType DEF States
<1>4. QED
  BY Zenon, <1>2, <1>3 DEF IInv

\* A launch under construction can be unwound as it stands.
LEMMA BuildingUnwinds ==
    ASSUME IInv, state \in Building
    PROVE  /\ rec \in [Stages -> Records] /\ tun \in [Stages -> Tunnels]
           /\ \A p \in Stages : rec[p] \in Final \cup {"starting"} \/ tun[p] = "open"
<1>1. rec \in [Stages -> Records] /\ tun \in [Stages -> Tunnels]
  BY Zenon DEF IInv, TypeOK, Tunnels
<1>2. CASE state = "idle"
  BY Zenon, <1>1, <1>2 DEF IInv, Front, Untouched, Final
<1>3. CASE state = "running"
  BY Zenon, <1>1, <1>3 DEF IInv, Front, Ready
<1>4. CASE state = "starting"
  <2>1. PICK k \in Stages : FrontAt(k)
    BY Zenon, <1>4 DEF IInv, Front
  <2>2. ASSUME NEW p \in Stages PROVE rec[p] \in Final \cup {"starting"} \/ tun[p] = "open"
    <3>1. p < k \/ p = k \/ p > k
      BY DEF Stages
    <3>2. QED
      BY Zenon, <2>1, <3>1 DEF FrontAt, Ready, Untouched, Final
  <2>3. QED
    BY Zenon, <1>1, <2>2
<1>5. QED
  BY Zenon, <1>2, <1>3, <1>4 DEF Building

\* agent.start for the next record extends the front, or unwinds.
LEMMA StartRecordKeeps ==
    ASSUME IInv, Aside, Typed, NEW k \in Stages, NEW r \in [Stages -> Records],
           state \in Building,
           \A p \in Stages : /\ p < k => r[p] = "ready" /\ tun[p] = "open"
                             /\ p >= k => r[p] = "pending" /\ tun[p] = "none",
           StartRecord(k, r, tun, down)
    PROVE  IInv'
<1>0. TypeOK /\ tun \in [Stages -> Tunnels] /\ rb = 0 /\ called = FALSE
      /\ down \in [Stages -> Seq(Frames)]
  BY Zenon DEF IInv, TypeOK, Tunnels, Front, Frames
<1>1. CASE hub[k]
  <2>1. /\ state' = "starting" /\ rec' = [r EXCEPT ![k] = "starting"]
        /\ tun' = [tun EXCEPT ![k] = "preparing"] /\ down' = Sent(down, {k}, "prepare")
        /\ UNCHANGED <<rb, called>>
    BY Zenon, <1>1 DEF StartRecord
  <2>2. down' \in [Stages -> Seq(Frames)]
    BY Zenon, <1>0, <2>1, SentType DEF Frames
  <2>3. rec' \in [Stages -> Records] /\ tun' \in [Stages -> Tunnels]
    BY Zenon, <1>0, <2>1 DEF Records, Tunnels
  <2>4. TypeOK'
    BY Zenon, <1>0, <2>1, <2>2, <2>3, CoordinatorType DEF States, TypeOK
  <2>5. FrontAt(k)'
    <3>1. rec'[k] = "starting" /\ tun'[k] = "preparing"
      BY Zenon, <1>0, <2>1
    <3>2. ASSUME NEW p \in Stages, p # k PROVE rec'[p] = r[p] /\ tun'[p] = tun[p]
      BY Zenon, <1>0, <2>1, <3>2
    <3>3. QED
      BY <3>1, <3>2 DEF FrontAt, Ready, Untouched, Stages
  <2>6. QED
    BY Zenon, <1>0, <2>1, <2>4, <2>5 DEF IInv, Front, Route, Building
<1>2. CASE ~hub[k]
  <2> DEFINE r2 == [r EXCEPT ![k] = "starting"]
             t2 == [tun EXCEPT ![k] = "rejected"]
  <2>1. Unwind("failed", r2, t2, down)
    BY Zenon, <1>2 DEF StartRecord
  <2>2. r2 \in [Stages -> Records] /\ t2 \in [Stages -> Tunnels]
    BY Zenon, <1>0 DEF Records, Tunnels
  <2>3. \A p \in Stages : r2[p] \in Final \cup {"starting"} \/ t2[p] \in {"open", "closed"}
    BY <1>0 DEF Final, Stages
  <2> HIDE DEF r2, t2
  <2>4. QED
    BY Zenon, <1>0, <2>1, <2>2, <2>3, UnwindKeeps
<1>3. QED
  BY Zenon, <1>1, <1>2

LEMMA StartStep ==
    ASSUME IInv, Start
    PROVE  IInv'
<1>1. Aside /\ Typed
  BY Zenon DEF Start, Aside, Typed, IInv, TypeOK, Answers
<1>2. 1 \in Stages /\ \A p \in Stages : p >= 1
  BY LaunchAssumption DEF Stages
<1>3. \A p \in Stages : rec[p] = "pending" /\ tun[p] = "none"
  BY Zenon DEF IInv, Front, Start, Untouched
<1>4. state \in Building /\ rec \in [Stages -> Records]
  BY Zenon DEF Start, Building, IInv, TypeOK
<1>5. PICK k \in Stages : k = 1
  BY Zenon, <1>2
<1>6. StartRecord(k, rec, tun, down)
  BY Zenon, <1>5 DEF Start
<1>7. \A p \in Stages : /\ p < k => rec[p] = "ready" /\ tun[p] = "open"
                        /\ p >= k => rec[p] = "pending" /\ tun[p] = "none"
  BY <1>2, <1>3, <1>5 DEF Stages
<1>8. QED
  BY Zenon, <1>1, <1>4, <1>6, <1>7, StartRecordKeeps

LEMMA StopStep ==
    ASSUME IInv, Stop \/ ReadinessTimeout
    PROVE  IInv'
<1>1. Aside /\ Typed /\ TypeOK
  BY Zenon DEF Stop, ReadinessTimeout, Aside, Typed, IInv, TypeOK, Answers
<1>2. CASE state = "idle" /\ state' = "stopped" /\ UNCHANGED <<rec, tun, down, rb, called>>
  <2>1. TypeOK'
    BY Zenon, <1>1, <1>2, CoordinatorType DEF TypeOK, States, Tunnels, Frames
  <2>2. QED
    BY Zenon, <1>2, <2>1 DEF IInv, Front, Route, Building, Untouched, Closed, Held, Final
<1>3. CASE state \in {"starting", "running"} /\ Unwind("stopping", rec, tun, down)
  BY Zenon, <1>1, <1>3, BuildingUnwinds, UnwindKeeps DEF Building
<1>4. CASE state = "starting" /\ Unwind("failed", rec, tun, down)
  BY Zenon, <1>1, <1>4, BuildingUnwinds, UnwindKeeps DEF Building
<1>5. QED
  BY Zenon, <1>2, <1>3, <1>4 DEF Stop, ReadinessTimeout

\* A preparation is awaited only under construction, and only at the front.
LEMMA PreparingIsFront ==
    ASSUME IInv, NEW w \in Stages, tun[w] = "preparing"
    PROVE  state = "starting" /\ FrontAt(w)
<1>1. state \in Building
  BY Zenon DEF IInv, Route
<1>2. state = "starting"
  BY Zenon, <1>1 DEF IInv, Front, Building, Untouched, Ready
<1>3. PICK k \in Stages : FrontAt(k)
  BY Zenon, <1>2 DEF IInv, Front
<1>4. w = k
  BY <1>3 DEF FrontAt, Ready, Untouched, Stages
<1>5. QED
  BY Zenon, <1>2, <1>3, <1>4

LEMMA RejectStep ==
    ASSUME IInv, Aside, Typed, NEW w \in Stages, tun[w] = "preparing",
           Unwind("failed", rec, [tun EXCEPT ![w] = "rejected"], down)
    PROVE  IInv'
<1> DEFINE t == [tun EXCEPT ![w] = "rejected"]
<1>1. state = "starting" /\ FrontAt(w)
  BY Zenon, PreparingIsFront
<1>2. /\ TypeOK /\ rec \in [Stages -> Records] /\ tun \in [Stages -> Tunnels]
      /\ \A p \in Stages : rec[p] \in Final \cup {"starting"} \/ tun[p] = "open"
  BY Zenon, <1>1, BuildingUnwinds DEF Building, IInv
<1>3. t \in [Stages -> Tunnels]
      /\ \A p \in Stages : rec[p] \in Final \cup {"starting"} \/ t[p] \in {"open", "closed"}
  BY Zenon, <1>1, <1>2 DEF Tunnels, FrontAt
<1> HIDE DEF t
<1>4. Unwind("failed", rec, t, down)
  BY Zenon DEF t
<1>5. QED
  BY Zenon, <1>2, <1>3, <1>4, UnwindKeeps

\* A lost handle ends a launch under construction; later it only closes.
LEMMA HandleLostStep ==
    ASSUME IInv, Aside, Typed, NEW w \in Stages, tun[w] = "open", HandleLost(w)
    PROVE  IInv'
<1> DEFINE t == [tun EXCEPT ![w] = "closed"]
           r == [rec EXCEPT ![w] = "failed"]
<1>0. TypeOK /\ tun \in [Stages -> Tunnels] /\ rec \in [Stages -> Records]
      /\ t \in [Stages -> Tunnels] /\ r \in [Stages -> Records]
  BY Zenon DEF IInv, TypeOK, Tunnels, Records
<1>1. CASE state \in {"starting", "running"}
  <2>1. Unwind("failed", r, t, down)
    BY Zenon, <1>1 DEF HandleLost
  <2>2. \A p \in Stages : rec[p] \in Final \cup {"starting"} \/ tun[p] = "open"
    BY Zenon, <1>1, BuildingUnwinds DEF Building
  <2>3. \A p \in Stages : r[p] \in Final \cup {"starting"} \/ t[p] \in {"open", "closed"}
    BY Zenon, <1>0, <2>2 DEF Final
  <2> HIDE DEF r, t
  <2>4. QED
    BY Zenon, <1>0, <2>1, <2>3, UnwindKeeps
<1>2. CASE state \notin {"starting", "running"}
  <2>1. tun' = t /\ UNCHANGED <<state, rec, rb, called, down>>
    BY Zenon, <1>2 DEF HandleLost
  <2>2. TypeOK'
    BY Zenon, <1>0, <2>1, CoordinatorType DEF TypeOK, Frames
  <2>3. state # "idle"
    BY Zenon DEF IInv, Front, Untouched
  <2>4. tun'[w] = "closed" /\ \A p \in Stages \ {w} : tun'[p] = tun[p]
    BY Zenon, <1>0, <2>1
  <2>5. Route'
    BY Zenon, <2>1, <2>3, <2>4, <1>2 DEF IInv, Route, Building, Held, Closed
  <2>6. Front'
    BY Zenon, <1>2, <2>1, <2>3 DEF Front, Building, IInv
  <2>7. QED
    BY Zenon, <2>2, <2>5, <2>6 DEF IInv
<1>3. QED
  BY Zenon, <1>1, <1>2

LEMMA IgnoreStep ==
    ASSUME IInv, Aside, Typed, Ignore
    PROVE  IInv'
<1>1. TypeOK'
  BY Zenon, CoordinatorType DEF IInv, TypeOK, Ignore, Tunnels, Frames
<1>2. QED
  BY Zenon, <1>1 DEF IInv, Ignore, Front, Route, FrontAt, Ready, Untouched, Closed, Held

LEMMA ArrivesTyped ==
    ASSUME IInv, NEW w \in Stages, NEW m, Arrives(w, m)
    PROVE  Aside /\ Typed
<1>1. up' \in [Stages -> Seq(Answers)]
  <2>1. up \in [Stages -> Seq(Answers)] /\ up[w] # <<>> /\ up' = [up EXCEPT ![w] = Tail(up[w])]
    BY Zenon DEF Arrives, IInv, TypeOK, Answers
  <2>2. Tail(up[w]) \in Seq(Answers)
    BY Zenon, <2>1, HeadTailProperties
  <2>3. QED
    BY Zenon, <2>1, <2>2
<1>2. QED
  BY Zenon, <1>1 DEF Arrives, Aside, Typed, IInv, TypeOK

LEMMA OnPreparedStep ==
    ASSUME IInv, NEW w \in Stages, OnPrepared(w)
    PROVE  IInv'
<1>1. Aside /\ Typed
  BY Zenon, ArrivesTyped DEF OnPrepared
<1>2. CASE tun[w] # "preparing"
  BY Zenon, <1>1, <1>2, IgnoreStep DEF OnPrepared
<1>3. CASE tun[w] = "preparing"
  <2>1. /\ tun' = [tun EXCEPT ![w] = "open"] /\ down' = Sent(down, {w}, "start")
        /\ UNCHANGED <<state, rec, rb, called>>
    BY Zenon, <1>3 DEF OnPrepared
  <2>2. state = "starting" /\ FrontAt(w)
    BY Zenon, <1>3, PreparingIsFront
  <2>3. down' \in [Stages -> Seq(Frames)]
    BY Zenon, <2>1, SentType DEF IInv, TypeOK, Frames
  <2>4. TypeOK'
    BY Zenon, <1>1, <2>1, <2>3, CoordinatorType DEF IInv, TypeOK, Tunnels
  <2>5. tun'[w] = "open" /\ \A p \in Stages \ {w} : tun'[p] = tun[p]
    BY Zenon, <2>1 DEF IInv, TypeOK
  <2>6. FrontAt(w)'
    BY Zenon, <2>1, <2>2, <2>5 DEF FrontAt, Ready, Untouched, Stages
  <2>7. QED
    BY Zenon, <2>1, <2>2, <2>4, <2>6 DEF IInv, Front, Route, Building
<1>4. QED
  BY Zenon, <1>2, <1>3

LEMMA OnReadyStep ==
    ASSUME IInv, NEW w \in Stages, OnReady(w)
    PROVE  IInv'
<1>1. Aside /\ Typed
  BY Zenon, ArrivesTyped DEF OnReady
<1>2. CASE ~(tun[w] = "open" /\ rec[w] = "starting" /\ state = "starting")
  BY Zenon, <1>1, <1>2, IgnoreStep DEF OnReady
<1>3. CASE tun[w] = "open" /\ rec[w] = "starting" /\ state = "starting"
  <2>0. PICK r \in [Stages -> Records] : r = [rec EXCEPT ![w] = "ready"]
    BY Zenon DEF IInv, TypeOK, Records
  <2>1. FrontAt(w)
    <3>1. PICK k \in Stages : FrontAt(k)
      BY Zenon, <1>3 DEF IInv, Front
    <3>2. w = k
      BY <1>3, <3>1 DEF FrontAt, Ready, Untouched, Stages
    <3>3. QED
      BY Zenon, <3>1, <3>2
  <2>2. r[w] = "ready" /\ \A p \in Stages \ {w} : r[p] = rec[p]
    BY Zenon, <2>0 DEF IInv, TypeOK
  <2>3. CASE w < N
    <3>1. PICK k \in Stages : k = w + 1
      BY <2>3, LaunchAssumption DEF Stages
    <3>2. state \in Building /\ StartRecord(k, r, tun, down)
      BY Zenon, <1>3, <2>0, <2>3, <3>1 DEF Building, OnReady
    <3>3. \A p \in Stages : /\ p < k => r[p] = "ready" /\ tun[p] = "open"
                            /\ p >= k => r[p] = "pending" /\ tun[p] = "none"
      BY <1>3, <2>1, <2>2, <3>1 DEF FrontAt, Ready, Untouched, Stages
    <3>4. QED
      BY Zenon, <1>1, <3>2, <3>3, StartRecordKeeps
  <2>4. CASE ~(w < N)
    <3>1. state' = "running" /\ rec' = r /\ UNCHANGED <<tun, rb, called, down>>
      BY Zenon, <1>3, <2>0, <2>4 DEF OnReady
    <3>2. TypeOK'
      BY Zenon, <1>1, <2>2, <3>1, CoordinatorType DEF IInv, TypeOK, States, Tunnels, Frames
    <3>3. \A p \in Stages : rec'[p] = "ready" /\ tun'[p] = "open"
      BY <1>3, <2>1, <2>2, <2>4, <3>1, LaunchAssumption DEF FrontAt, Ready, Stages
    <3>4. QED
      BY Zenon, <1>3, <3>1, <3>2, <3>3 DEF IInv, Front, Route, Building, Ready
  <2>5. QED
    BY Zenon, <2>3, <2>4
<1>4. QED
  BY Zenon, <1>2, <1>3

LEMMA AnswerStep ==
    ASSUME IInv, NEW w \in Stages, OnUnprepared(w) \/ OnExited(w) \/ HubNotices(w)
    PROVE  IInv'
<1>1. CASE OnUnprepared(w)
  <2>1. Aside /\ Typed
    BY Zenon, <1>1, ArrivesTyped DEF OnUnprepared
  <2>2. QED
    BY Zenon, <1>1, <2>1, IgnoreStep, RejectStep DEF OnUnprepared
<1>2. CASE OnExited(w)
  <2>1. Aside /\ Typed
    BY Zenon, <1>2, ArrivesTyped DEF OnExited
  <2>2. QED
    BY Zenon, <1>2, <2>1, IgnoreStep, HandleLostStep DEF OnExited
<1>3. CASE HubNotices(w)
  <2>1. Aside /\ Typed
    BY Zenon, <1>3 DEF HubNotices, Aside, Typed, IInv, TypeOK, Answers
  <2>2. \/ tun[w] = "open" /\ HandleLost(w)
        \/ tun[w] = "preparing" /\ Unwind("failed", rec, [tun EXCEPT ![w] = "rejected"], down)
        \/ Ignore
    <3>1. tun[w] # "open" => tun[w] = "preparing" \/ Ignore
      BY Zenon, <1>3 DEF HubNotices
    <3>2. tun[w] = "open" => HandleLost(w)
      BY Zenon, <1>3 DEF HubNotices
    <3>3. tun[w] = "preparing" => Unwind("failed", rec, [tun EXCEPT ![w] = "rejected"], down)
      BY Zenon, <1>3 DEF HubNotices
    <3>4. QED
      BY Zenon, <3>1, <3>2, <3>3
  <2>3. QED
    BY Zenon, <2>1, <2>2, IgnoreStep, RejectStep, HandleLostStep
<1>4. QED
  BY Zenon, <1>1, <1>2, <1>3

LEMMA StopTimeoutStep ==
    ASSUME IInv, NEW w \in Stages, StopTimeout(w)
    PROVE  IInv'
<1>1. Aside /\ Typed /\ tun[w] = "open"
  BY Zenon DEF StopTimeout, workerVars, Aside, Typed, IInv, TypeOK, Answers
<1>2. HandleLost(w)
  BY Zenon DEF StopTimeout, HandleLost, workerVars
<1>3. QED
  BY Zenon, <1>1, <1>2, HandleLostStep

\* The rollback only moves past a record that is closed.
LEMMA RollbackStep ==
    ASSUME IInv, RollbackSkip \/ RollbackStop \/ RollbackStopped
    PROVE  IInv'
<1>0. TypeOK /\ rb \in 1 .. N /\ rb \in Stages /\ state \notin Building /\ N \in Nat
  BY LaunchAssumption DEF IInv, TypeOK, Front, RollbackSkip, RollbackStop, RollbackStopped, Stages
<1>1. Aside /\ Typed
  BY Zenon DEF RollbackSkip, RollbackStop, RollbackStopped, workerVars, Aside, Typed, IInv, TypeOK,
         Answers
<1>r. /\ state \in {"stopping", "stopped", "failed"} /\ state # "stopped"
      /\ rec \in [Stages -> Records]
      /\ \A p \in Stages : /\ tun[p] # "preparing"
                           /\ Held(p) \/ rec[p] \in Final
                           /\ p > rb => Closed(p)
  BY <1>0 DEF IInv, Route, TypeOK, States, Building
<1>2. CASE RollbackStop
  <2>1. /\ rec' \in [Stages -> Records] /\ \A p \in Stages \ {rb} : rec'[p] = rec[p]
        /\ UNCHANGED <<state, tun, rb>> /\ called' = TRUE /\ Held(rb)
    BY Zenon, <1>0, <1>2, <1>r DEF RollbackStop, Records
  <2>2. down' \in [Stages -> Seq(Frames)]
    BY Zenon, <1>2, SentType DEF RollbackStop, IInv, TypeOK, Frames
  <2>3. TypeOK'
    BY Zenon, <1>0, <1>1, <2>1, <2>2, CoordinatorType DEF TypeOK, Tunnels
  <2>4. Route' /\ Front'
    BY <1>0, <1>r, <2>1 DEF Route, Front, Held, Closed, Building
  <2>5. QED
    BY Zenon, <2>3, <2>4 DEF IInv
<1>3. CASE RollbackSkip \/ RollbackStopped
  <2>1. /\ rb' = rb - 1 /\ called' = FALSE /\ UNCHANGED <<tun, down>>
        /\ state' = IF rb = 1 /\ state = "stopping" THEN "stopped" ELSE state
    BY Zenon, <1>3 DEF RollbackSkip, RollbackStopped, RollbackDone, workerVars
  <2>2. /\ rec' \in [Stages -> Records] /\ \A p \in Stages \ {rb} : rec'[p] = rec[p]
        /\ rec'[rb] \in Final /\ tun[rb] # "open"
    <3>1. CASE RollbackSkip
      BY Zenon, <1>0, <1>r, <3>1 DEF RollbackSkip, Held
    <3>2. CASE RollbackStopped
      BY Zenon, <1>0, <1>r, <3>2 DEF RollbackStopped, Records, Final
    <3>3. QED
      BY Zenon, <1>3, <3>1, <3>2
  <2>3. TypeOK'
    <3>1. state' \in States /\ rb' \in 0 .. N
      BY <1>0, <1>r, <2>1 DEF States
    <3>2. QED
      BY Zenon, <1>0, <1>1, <2>1, <2>2, <3>1, CoordinatorType DEF TypeOK, Tunnels, Frames
  <2>4. state' \notin Building
    BY Zenon, <1>0, <1>r, <2>1 DEF Building
  <2>5. \A p \in Stages : /\ tun'[p] # "preparing"
                          /\ Held(p)' \/ rec'[p] \in Final
                          /\ p > rb' => Closed(p)'
    <3>1. ASSUME NEW p \in Stages, p > rb' PROVE p = rb \/ p > rb
      BY <1>0, <2>1, <3>1 DEF Stages
    <3>2. QED
      BY Zenon, <1>0, <1>r, <2>1, <2>2, <3>1 DEF Closed, Held
  <2>6. Route'
    <3>1. (state' = "stopping" => rb' > 0) /\ (state' = "stopped" => rb' = 0)
      BY <1>0, <1>r, <2>1
    <3>2. QED
      BY Zenon, <2>5, <3>1 DEF Route
  <2>7. Front'
    BY Zenon, <2>4 DEF Front, Building
  <2>8. QED
    BY Zenon, <2>3, <2>6, <2>7 DEF IInv
<1>4. QED
  BY Zenon, <1>2, <1>3

-----------------------------------------------------------------------------
(* The workers' steps *)

WorkerTypes ==
    /\ job' \in [Stages -> Jobs] /\ child' \in [Stages -> Children]
    /\ accepts' \in [Stages -> BOOLEAN]
    /\ due' \in [Stages -> SUBSET {"grace", "pause", "leave"}]
    /\ sock' \in [Stages -> {"open", "dead", "closed", "left"}]
    /\ down' \in [Stages -> Seq(Frames)] /\ up' \in [Stages -> Seq(Answers)]
    /\ cuts' \in 0 .. MaxCuts /\ losses' \in 0 .. MaxLosses

LEMMA ReportType ==
    ASSUME TypeOK, NEW w \in Stages, NEW m \in Answers, Report(w, m)
    PROVE  up' \in [Stages -> Seq(Answers)]
BY DEF TypeOK, Answers, Report

LEMMA ReceiveType ==
    ASSUME TypeOK, NEW w \in Stages, NEW m, Receive(w, m)
    PROVE  down' \in [Stages -> Seq(Frames)]
<1>1. down \in [Stages -> Seq(Frames)] /\ down[w] # <<>> /\ down' = [down EXCEPT ![w] = Tail(down[w])]
  BY Zenon DEF Receive, TypeOK, Frames
<1>2. Tail(down[w]) \in Seq(Frames)
  BY Zenon, <1>1, HeadTailProperties
<1>3. QED
  BY Zenon, <1>1, <1>2

LEMMA WorkerProgressType ==
    ASSUME TypeOK, NEW w \in Stages, WorkerProgress(w)
    PROVE  WorkerTypes
<1>0. /\ job \in [Stages -> Jobs] /\ child \in [Stages -> Children]
      /\ accepts \in [Stages -> BOOLEAN]
      /\ due \in [Stages -> SUBSET {"grace", "pause", "leave"}]
      /\ sock \in [Stages -> {"open", "dead", "closed", "left"}]
      /\ down \in [Stages -> Seq(Frames)] /\ up \in [Stages -> Seq(Answers)]
      /\ cuts \in 0 .. MaxCuts /\ losses \in 0 .. MaxLosses
  BY Zenon DEF TypeOK, Frames, Answers
<1>a. "unprepared" \in Answers /\ "prepared" \in Answers /\ "exited" \in Answers
      /\ "ready" \in Answers
  BY Zenon DEF Answers
<1>b. (Silent \/ \E m \in Answers : Report(w, m)) => up' \in [Stages -> Seq(Answers)]
  BY Zenon, <1>0, ReportType DEF Silent
<1>c. (UNCHANGED down \/ \E m : Receive(w, m)) => down' \in [Stages -> Seq(Frames)]
  BY Zenon, <1>0, ReceiveType
<1>d. Kill(w) \/ UNCHANGED child => child' \in [Stages -> Children]
  BY Zenon, <1>0 DEF Kill, Children
<1>1. CASE OnPrepare(w)
  BY Zenon, <1>0, <1>a, <1>b, <1>c, <1>1 DEF WorkerTypes, OnPrepare, Jobs
<1>2. CASE PrepareReturns(w)
  BY Zenon, <1>0, <1>a, <1>b, <1>2 DEF WorkerTypes, PrepareReturns, Jobs
<1>3. CASE OnStart(w)
  BY Zenon, <1>0, <1>a, <1>b, <1>c, <1>3 DEF WorkerTypes, OnStart, Jobs
<1>4. CASE LaunchReturns(w)
  BY Zenon, <1>0, <1>4 DEF WorkerTypes, LaunchReturns, Jobs, Children
<1>5. CASE LaunchFails(w)
  BY Zenon, <1>0, <1>a, <1>b, <1>5 DEF WorkerTypes, LaunchFails, Jobs
<1>6. CASE ChildKilled(w)
  BY Zenon, <1>0, <1>a, <1>b, <1>6 DEF WorkerTypes, ChildKilled, Exits, Jobs, Children
<1>7. CASE OnStop(w)
  BY Zenon, <1>0, <1>c, <1>d, <1>7 DEF WorkerTypes, OnStop, Jobs
<1>8. CASE Reset(w)
  <2>1. due' \in [Stages -> SUBSET {"grace", "pause", "leave"}]
    BY Zenon, <1>0, <1>8 DEF Reset
  <2>2. job' \in [Stages -> Jobs]
    BY Zenon, <1>0, <1>8 DEF Reset, Jobs
  <2>3. QED
    BY Zenon, <1>0, <1>d, <1>8, <2>1, <2>2 DEF WorkerTypes, Reset
<1>9. CASE WorkerNotices(w)
  BY Zenon, <1>0, <1>9 DEF WorkerTypes, WorkerNotices
<1>10. QED
  BY Zenon, <1>1, <1>2, <1>3, <1>4, <1>5, <1>6, <1>7, <1>8, <1>9 DEF WorkerProgress

LEMMA WorkerChanceType ==
    ASSUME TypeOK, NEW w \in Stages, WorkerChance(w) \/ Rejoin(w)
    PROVE  WorkerTypes
<1>0. /\ job \in [Stages -> Jobs] /\ child \in [Stages -> Children]
      /\ accepts \in [Stages -> BOOLEAN]
      /\ due \in [Stages -> SUBSET {"grace", "pause", "leave"}]
      /\ sock \in [Stages -> {"open", "dead", "closed", "left"}]
      /\ down \in [Stages -> Seq(Frames)] /\ up \in [Stages -> Seq(Answers)]
      /\ cuts \in 0 .. MaxCuts /\ losses \in 0 .. MaxLosses
  BY Zenon DEF TypeOK, Frames, Answers
<1>a. <<>> \in Seq(Frames) /\ <<>> \in Seq(Answers) /\ "exited" \in Answers
      /\ "ready" \in Answers
  BY DEF Answers
<1>b. (Silent \/ Report(w, "exited") \/ Report(w, "ready")) => up' \in [Stages -> Seq(Answers)]
  BY Zenon, <1>0, <1>a, ReportType DEF Silent
<1>c. (Cut \/ Lose) => cuts' \in 0 .. MaxCuts /\ losses' \in 0 .. MaxLosses
  BY <1>0, LaunchAssumption DEF Cut, Lose
<1>1. CASE ChildCrashes(w)
  BY Zenon, <1>0, <1>b, <1>c, <1>1 DEF WorkerTypes, ChildCrashes, Exits, Jobs, Children
<1>2. CASE Pause(w)
  BY Zenon, <1>0, <1>c, <1>2 DEF WorkerTypes, Pause
<1>3. CASE Break(w)
  BY Zenon, <1>0, <1>a, <1>c, <1>3 DEF WorkerTypes, Break
<1>4. CASE Leave(w)
  BY Zenon, <1>0, <1>a, <1>c, <1>4 DEF WorkerTypes, Leave
<1>5. CASE Rejoin(w)
  BY Zenon, <1>0, <1>5 DEF WorkerTypes, Rejoin
<1>6. CASE ChildReady(w)
  BY Zenon, <1>0, <1>b, <1>6 DEF WorkerTypes, ChildReady, Children
<1>7. QED
  BY Zenon, <1>1, <1>2, <1>3, <1>4, <1>5, <1>6 DEF WorkerChance

-----------------------------------------------------------------------------
(* The theorems *)

LEMMA InitIInv == Init => IInv
<1> SUFFICES ASSUME Init PROVE IInv
  BY Zenon
<1>1. TypeOK
  <2>1. /\ down \in [Stages -> Seq({"prepare", "start", "stop"})]
        /\ up \in [Stages -> Seq({"prepared", "unprepared", "ready", "exited"})]
    BY DEF Init, WorkerInit
  <2>2. /\ job \in [Stages -> Jobs] /\ child \in [Stages -> Children]
        /\ accepts \in [Stages -> BOOLEAN]
        /\ due \in [Stages -> SUBSET {"grace", "pause", "leave"}]
        /\ sock \in [Stages -> {"open", "dead", "closed", "left"}]
    BY Zenon DEF Init, WorkerInit, Jobs, Children
  <2>3. cuts \in 0 .. MaxCuts /\ losses \in 0 .. MaxLosses /\ rb \in 0 .. N
    BY LaunchAssumption DEF Init, WorkerInit
  <2>4. /\ state \in States /\ rec \in [Stages -> Records] /\ called \in BOOLEAN
        /\ tun \in [Stages -> {"none", "preparing", "rejected", "open", "closed"}]
        /\ hub \in [Stages -> BOOLEAN]
        /\ past \in [Stages -> {"clean", "rejoined", "superseded"}]
    BY Zenon DEF Init, States, Records
  <2>5. QED
    BY Zenon, <2>1, <2>2, <2>3, <2>4 DEF TypeOK
<1>2. QED
  BY Zenon, <1>1 DEF Init, IInv, Front, Route, Building, Untouched

LEMMA NextIInv ==
    ASSUME IInv, [Next]_vars
    PROVE  IInv'
<1>1. CASE Start
  BY Zenon, <1>1, StartStep
<1>2. CASE Stop \/ ReadinessTimeout
  BY Zenon, <1>2, StopStep
<1>3. CASE RollbackSkip \/ RollbackStop \/ RollbackStopped
  BY Zenon, <1>3, RollbackStep
<1>4. CASE \E w \in Stages : TunnelProgress(w)
  BY Zenon, <1>4, OnPreparedStep, OnReadyStep, AnswerStep, StopTimeoutStep DEF TunnelProgress
<1>5. ASSUME WorkerTypes, UNCHANGED <<state, rec, tun, rb, called>>,
             hub' \in [Stages -> BOOLEAN],
             past' \in [Stages -> {"clean", "rejoined", "superseded"}]
      PROVE  IInv'
  <2>1. TypeOK'
    BY Zenon, <1>5 DEF IInv, TypeOK, WorkerTypes, Frames, Answers
  <2>2. QED
    BY Zenon, <1>5, <2>1 DEF IInv, Front, Route, FrontAt, Ready, Untouched, Closed, Held
<1>6. CASE \E w \in Stages : Reconnect(w)
  <2>1. PICK w \in Stages : Reconnect(w)
    BY Zenon, <1>6
  <2>2. WorkerTypes
    BY Zenon, <2>1, WorkerChanceType DEF Reconnect, IInv
  <2>3. hub' \in [Stages -> BOOLEAN] /\ past' \in [Stages -> {"clean", "rejoined", "superseded"}]
        /\ UNCHANGED <<state, rec, tun, rb, called>>
    BY Zenon, <2>1 DEF Reconnect, IInv, TypeOK
  <2>4. QED
    BY Zenon, <1>5, <2>2, <2>3
<1>7. CASE \E w \in Stages : (WorkerProgress(w) \/ WorkerChance(w)) /\ UNCHANGED supervisorVars
  <2>1. WorkerTypes
    BY Zenon, <1>7, WorkerProgressType, WorkerChanceType DEF IInv
  <2>2. QED
    BY Zenon, <1>5, <1>7, <2>1 DEF supervisorVars, IInv, TypeOK
<1>8. CASE UNCHANGED vars
  BY Zenon, <1>8 DEF vars, workerVars, supervisorVars, IInv, TypeOK, Front, Route, FrontAt, Ready,
              Untouched, Closed, Held
<1>9. QED
  BY Zenon, <1>1, <1>2, <1>3, <1>4, <1>6, <1>7, <1>8 DEF Next, RouteProgress

\* The front and the rollback are where the supervisor says they are.
THEOREM LaunchInvariant == Spec => []IInv
<1>1. Init => IInv
  BY Zenon, InitIInv
<1>2. IInv /\ [Next]_vars => IInv'
  BY Zenon, NextIInv
<1>3. QED
  BY <1>1, <1>2, PTL DEF Spec

\* The variables of both sides keep their types.
THEOREM LaunchTypeCorrect == Spec => []TypeOK
<1>1. IInv => TypeOK
  BY Zenon DEF IInv
<1>2. QED
  BY <1>1, LaunchInvariant, PTL

\* startInternal reports running only when every stage is ready behind an open
\* handle, and no exit or disconnect is swallowed while it does.
THEOREM RunningLaunchesAreReady == Spec => []RunningIsReady
<1>1. IInv => RunningIsReady
  BY Zenon DEF IInv, Front, Ready, RunningIsReady
<1>2. QED
  BY <1>1, LaunchInvariant, PTL

\* rollbackInternal leaves no record unsettled and no handle open, whichever of
\* stop, timeout, exit and disconnect came first.
THEOREM SettledLaunchesAreFinal == Spec => []SettledIsFinal
<1>1. IInv => SettledIsFinal
  <2>1. SUFFICES ASSUME IInv, Terminal, NEW p \in Stages
                 PROVE  rec[p] \in {"pending", "stopped", "failed"}
                        /\ tun[p] \notin {"preparing", "open"}
    BY Zenon DEF SettledIsFinal
  <2>2. state \notin Building /\ p > rb
    BY <2>1, LaunchAssumption DEF Terminal, Building, Stages
  <2>3. QED
    BY Zenon, <2>1, <2>2 DEF IInv, Route, Closed, Final
<1>2. QED
  BY <1>1, LaunchInvariant, PTL

\* What a step can do to a queue other than append a start.
LEMMA NotAStart ==
    ASSUME NEW s \in Seq(Frames)
    PROVE  /\ s # Append(s, "start") /\ <<>> # Append(s, "start")
           /\ Append(s, "stop") # Append(s, "start")
           /\ s # <<>> => Tail(s) # Append(s, "start")
<1>1. "start" \in Frames /\ "stop" \in Frames
  BY Zenon DEF Frames
<1>2. Len(Append(s, "start")) = Len(s) + 1 /\ Append(s, "start")[Len(s) + 1] = "start"
      /\ Append(s, "stop")[Len(s) + 1] = "stop" /\ Len(s) \in Nat
  BY <1>1, AppendProperties, LenProperties
<1>3. s # <<>> => Len(Tail(s)) = Len(s) - 1
  BY Zenon, HeadTailProperties
<1>4. Len(<<>>) = 0
  BY Zenon, EmptySeq
<1>5. QED
  BY <1>2, <1>3, <1>4

LEMMA NextStartsNothing ==
    ASSUME IInv, Next, state \notin Building, NEW w \in Stages
    PROVE  down'[w] # Append(down[w], "start")
<1>0. down \in [Stages -> Seq(Frames)] /\ down[w] \in Seq(Frames)
      /\ \A p \in Stages : tun[p] # "preparing"
  BY Zenon DEF IInv, TypeOK, Frames, Route
<1>s. \A W : Sent(down, W, "stop")[w] \in {down[w], Append(down[w], "stop")}
  BY Zenon DEF Sent
<1>1. \/ down'[w] = down[w] \/ down'[w] = <<>> \/ down'[w] = Append(down[w], "stop")
      \/ down[w] # <<>> /\ down'[w] = Tail(down[w])
  <2>1. CASE Start \/ Stop \/ ReadinessTimeout
    BY ZenonT(60), <2>1 DEF Start, Stop, ReadinessTimeout, Building
  <2>2. CASE RollbackSkip \/ RollbackStopped
    BY Zenon, <2>2 DEF RollbackSkip, RollbackStopped, workerVars
  <2>3. CASE RollbackStop
    BY Zenon, <1>s, <2>3 DEF RollbackStop
  <2>4. CASE \E v \in Stages : TunnelProgress(v)
    <3>1. PICK v \in Stages : TunnelProgress(v)
      BY Zenon, <2>4
    <3>2. tun[v] # "preparing" /\ state \notin {"starting", "running"}
      BY Zenon, <1>0 DEF Building
    <3>3. CASE OnPrepared(v) \/ OnUnprepared(v) \/ OnReady(v)
      BY Zenon, <3>2, <3>3 DEF OnPrepared, OnUnprepared, OnReady, Ignore
    <3>4. CASE OnExited(v)
      BY Zenon, <3>2, <3>4 DEF OnExited, HandleLost, Ignore
    <3>5. CASE HubNotices(v)
      <4>1. tun[v] = "open" \/ Ignore
        BY Zenon, <3>2, <3>5 DEF HubNotices
      <4>2. tun[v] = "open" => HandleLost(v)
        BY Zenon, <3>5 DEF HubNotices
      <4>3. QED
        BY Zenon, <3>2, <4>1, <4>2 DEF HandleLost, Ignore
    <3>6. CASE StopTimeout(v)
      BY Zenon, <3>6 DEF StopTimeout, workerVars
    <3>7. QED
      BY Zenon, <3>1, <3>3, <3>4, <3>5, <3>6 DEF TunnelProgress
  <2>5. CASE \E v \in Stages : Reconnect(v)
    BY Zenon, <2>5 DEF Reconnect, Rejoin
  <2>6. CASE \E v \in Stages : WorkerProgress(v) \/ WorkerChance(v)
    <3>1. PICK v \in Stages : WorkerProgress(v) \/ WorkerChance(v)
      BY Zenon, <2>6
    <3>2. CASE OnPrepare(v) \/ OnStart(v) \/ OnStop(v)
      BY Zenon, <1>0, <3>2 DEF OnPrepare, OnStart, OnStop, Receive
    <3>3. CASE Break(v) \/ Leave(v)
      BY Zenon, <1>0, <3>3 DEF Break, Leave
    <3>4. CASE \/ PrepareReturns(v) \/ LaunchReturns(v) \/ LaunchFails(v) \/ ChildReady(v)
               \/ ChildKilled(v) \/ Reset(v) \/ WorkerNotices(v)
      BY Zenon, <3>4 DEF PrepareReturns, LaunchReturns, LaunchFails, ChildReady, ChildKilled, Exits,
                  Reset, WorkerNotices
    <3>5. CASE ChildCrashes(v) \/ Pause(v)
      BY Zenon, <3>5 DEF ChildCrashes, Exits, Pause
    <3>6. QED
      BY Zenon, <3>1, <3>2, <3>3, <3>4, <3>5 DEF WorkerProgress, WorkerChance
  <2>7. QED
    BY Zenon, <2>1, <2>2, <2>3, <2>4, <2>5, <2>6 DEF Next, RouteProgress
<1>2. QED
  BY Zenon, <1>0, <1>1, NotAStart

\* An answer to runtime.prepare that arrives after the abort sends no
\* runtime.start: once the launch is cancelled or has failed, none is sent.
THEOREM NothingStartsAfterAbort == Spec => NoStartAfterAbort
<1>1. IInv /\ [Next]_vars =>
        [state \notin {"idle", "starting", "running"} =>
            \A w \in Stages : down'[w] # Append(down[w], "start")]_vars
  BY Zenon, NextStartsNothing DEF Building
<1>2. QED
  BY <1>1, LaunchInvariant, PTL DEF Spec, NoStartAfterAbort
=============================================================================
