--------------------------- MODULE RuntimeStream ---------------------------
(***************************************************************************)
(* A recoverable runtime stream: two processes on two workers exchange     *)
(* bytes through the workers' tunnels (runtime-stream-tunnel.ts) and the   *)
(* relay of the coordinator's hub (worker-hub.ts).  Each tunnel keeps what *)
(* is not acknowledged in a bounded replay buffer.  When a WebSocket is    *)
(* lost the hub suspends the stream, asks both sides how far they are and  *)
(* lets each replay from there under the next generation.                  *)
(*                                                                         *)
(* The source is the side that opens the stream.  One stream is modelled,  *)
(* with recovery negotiated and no direct route.  Sockets are FIFO in each *)
(* direction and lose a suffix of what is on its way when they break; each *)
(* side learns of the break by itself.  A byte is the number of its place  *)
(* in what its process wrote.                                              *)
(***************************************************************************)
EXTENDS Integers, Sequences, FiniteSets, FiniteSetsExt

CONSTANTS
  Sizes,           \* sizes of the pieces read from a local socket
  MaxBytes,        \* MaxBytes[x]: how much the process at x writes
  MaxReplay,       \* maxReplayBytes
  MaxGeneration,   \* the last generation, 1_000_000 in the code
  Faults,          \* how many times a WebSocket may start to fail
  Supersede,       \* whether a hello may come before the old close is seen
  Goodbyes,        \* whether a worker may stop with a goodbye
  LossWhileOpening \* whether a WebSocket may fail while the stream opens

Ends == {"source", "destination"}
Peer(x) == IF x = "source" THEN "destination" ELSE "source"

ASSUME StreamConstants ==
  /\ Sizes \subseteq 1..MaxReplay /\ MaxReplay \in Nat /\ MaxGeneration \in Nat
  /\ MaxBytes \in [Ends -> Nat]
  /\ Faults \in Nat /\ {Supersede, Goodbyes, LossWhileOpening} \subseteq BOOLEAN

VARIABLES
  s,       \* s[x]: the session of tunnel x
  h,       \* the session of the hub
  ws,      \* ws[x]: the WebSocket as worker x sees it
  conn,    \* conn[x]: the connection of worker x as the hub sees it
  up,      \* up[x]: messages on their way from x to the hub
  down,    \* down[x]: messages on their way from the hub to x
  faults,  \* failures still to come
  read, got, how    \* as in BytePipe

world == <<ws, conn, faults>>
vars == <<s, h, ws, conn, up, down, faults, read, got, how>>

\* The marks at which a local socket is paused and resumed.
HighWater == Max({Max(Sizes), (3 * MaxReplay) \div 4})
LowWater == MaxReplay \div 2

NoReport == [send |-> -1, acked |-> -1, recv |-> -1, from |-> -1]

\* A session: status, opened, generation, sendOffset, acknowledgedOffset,
\* receiveOffset, replay, suspended, and whether the local socket is paused.
NewSession(st, opened, g, paused) ==
  [st |-> st, opened |-> opened, gen |-> g, send |-> 0, acked |-> 0, recv |-> 0,
   replay |-> <<>>, susp |-> FALSE, paused |-> paused]

\* The hub's: also the forwarded offsets and the reports of both sides.
HubSession(st, g) ==
  [st |-> st, opened |-> FALSE, gen |-> g, fwd |-> [x \in Ends |-> 0],
   susp |-> FALSE, reports |-> [x \in Ends |-> NoReport]]

Init ==
  /\ s = [x \in Ends |-> NewSession("none", FALSE, 0, TRUE)]
  /\ h = HubSession("none", 0)
  /\ ws = [x \in Ends |-> "up"] /\ conn = [x \in Ends |-> "ready"]
  /\ up = [x \in Ends |-> <<>>] /\ down = [x \in Ends |-> <<>>]
  /\ faults = Faults
  /\ read = [x \in Ends |-> 0]
  /\ got = [x \in Ends |-> <<>>]
  /\ how = [x \in Ends |-> "running"]

Heartbeat == [t |-> "heartbeat"]
Goodbye == [t |-> "goodbye"]
Msg(t, g) == [t |-> t, gen |-> g]
Data(g, c) == [t |-> "data", gen |-> g, off |-> c.off, data |-> c.data]
Ack(g, n) == [t |-> "ack", gen |-> g, n |-> n]
End(g, n) == [t |-> "end", gen |-> g, n |-> n]
Resume(g, r) == [t |-> "resume", gen |-> g, report |-> r]
Resumed(g, n) == [t |-> "resumed", gen |-> g, n |-> n]

-----------------------------------------------------------------------------
(* The tunnel of worker x.                                                 *)

Exists(x) == s[x].st \in {"connecting", "open"}
transportAvailable(x) == ws[x] \in {"up", "closing"}

\* sendEnvelope succeeds on an open socket; the message is lost if the hub
\* has already dropped its end.
CanSend(x) == ws[x] = "up"
SendEnvelopes(x, ms) ==
  up' = IF CanSend(x) /\ conn[x] # "down" THEN [up EXCEPT ![x] = @ \o ms] ELSE up

\* closeSession, with the notice it sends.
CloseSession(x, w, notice) ==
  /\ s' = [s EXCEPT ![x] = NewSession("closed", s[x].opened, 0, TRUE)]
  /\ how' = [how EXCEPT ![x] = w]
  /\ SendEnvelopes(x, notice)
Fail(x) == CloseSession(x, "error", <<Msg("error", s[x].gen)>>)

BufferedFrom(e) == IF e.replay = <<>> THEN e.acked ELSE Head(e.replay).off
ReplayBytes(e) == IF e.replay = <<>> THEN 0 ELSE e.send - BufferedFrom(e)
ChunkEnd(c) == c.off + Len(c.data)
Boundaries(e) == {e.send} \union {e.replay[i].off : i \in DOMAIN e.replay}

\* The limit of sendSocketChunk; the variant tests it before the piece is added.
FitsBeforeThePiece(e, n) == ReplayBytes(e) <= MaxReplay
Fits(e, n) == ReplayBytes(e) + n <= MaxReplay

\* What is left of a buffer from the first of the chunks in kept on.
From(r, kept) == IF kept = {} THEN <<>> ELSE SubSeq(r, Min(kept), Len(r))

\* Variant: the chunk that starts at the offset is dropped too.
TrimOneMore(e, n) ==
  [e EXCEPT !.acked = n, !.replay = From(@, {i \in DOMAIN @ : @[i].off > n})]

\* trimReplayToOffset, for an offset that is a chunk boundary.
Trim(e, n) ==
  [e EXCEPT !.acked = n, !.replay = From(@, {i \in DOMAIN @ : ChunkEnd(@[i]) > n})]

\* openOutgoing
OpenOutgoing ==
  /\ s["source"].st = "none" /\ CanSend("source")
  /\ s' = [s EXCEPT !["source"] = NewSession("open", FALSE, 0, TRUE)]
  /\ SendEnvelopes("source", <<Msg("open", 0)>>)
  /\ UNCHANGED <<h, world, down, read, got, how>>

\* The destination's target accepts the connection.
TargetConnects(x) ==
  /\ s[x].st = "connecting"
  /\ s' = [s EXCEPT ![x].st = "open"]
  /\ SendEnvelopes(x, <<Msg("opened", s[x].gen)>>)
  /\ UNCHANGED <<h, world, down, read, got, how>>

\* sendSocketChunk: a piece is kept before it is sent.
SendSocketChunk(x, data) ==
  LET c == [off |-> s[x].send, data |-> data]
      e == [s[x] EXCEPT !.send = @ + Len(data), !.replay = Append(@, c)] IN
  /\ s' = [s EXCEPT ![x] =
       IF e.susp \/ ~transportAvailable(x)
       THEN [e EXCEPT !.paused = @ \/ ReplayBytes(e) >= HighWater]
       ELSE [e EXCEPT !.susp = ~CanSend(x),
                      !.paused = @ \/ ReplayBytes(e) >= HighWater \/ ~CanSend(x)]]
  /\ IF e.susp THEN UNCHANGED up ELSE SendEnvelopes(x, <<Data(e.gen, c)>>)

\* The local socket hands over n bytes, which are dropped before "opened".
ReadSocket(x, n) ==
  /\ s[x].st = "open" /\ ~s[x].paused
  /\ read[x] + n <= MaxBytes[x]
  /\ LET data == [i \in 1..n |-> read[x] + i] IN
       \/ /\ ~s[x].opened
          /\ read' = [read EXCEPT ![x] = @ + n]
          /\ UNCHANGED <<s, up, how>>
       \/ /\ s[x].opened /\ Fits(s[x], n)
          /\ read' = [read EXCEPT ![x] = @ + n]
          /\ SendSocketChunk(x, data)
          /\ UNCHANGED how
       \/ /\ s[x].opened /\ ~Fits(s[x], n)
          /\ Fail(x)
          /\ UNCHANGED read
  /\ UNCHANGED <<h, world, down, got>>

\* The local socket ends, or the tunnel is reset.
SocketEnds(x) ==
  /\ Exists(x)
  /\ CloseSession(x, "end", <<End(s[x].gen, s[x].send)>>)
  /\ UNCHANGED <<h, world, down, read, got>>

\* The local socket, or the connection to the target, fails.
SocketFails(x) ==
  /\ Exists(x)
  /\ Fail(x)
  /\ UNCHANGED <<h, world, down, read, got>>

-----------------------------------------------------------------------------
(* What the tunnel does with a message m of the hub.                       *)

Ignore(x) == UNCHANGED <<s, up, how>>

\* openIncoming; the target port may be refused, without the identity.
OnOpen(x, m) ==
  IF Exists(x) THEN SendEnvelopes(x, <<Msg("error", -1)>>) /\ UNCHANGED <<s, how>>
  ELSE \/ /\ s' = [s EXCEPT ![x] = NewSession("connecting", TRUE, m.gen, FALSE)]
          /\ UNCHANGED <<up, how>>
       \/ SendEnvelopes(x, <<Msg("error", -1)>>) /\ UNCHANGED <<s, how>>

OnOpened(x, m) ==
  IF s[x].opened THEN Ignore(x)
  ELSE IF m.gen # s[x].gen THEN Fail(x)
  ELSE /\ s' = [s EXCEPT ![x].opened = TRUE, ![x].paused = @ /\ s[x].susp]
       /\ UNCHANGED <<up, how>>

\* sendAcknowledgement, as the messages it sends.
Acknowledgement(e) == IF e.susp THEN <<>> ELSE <<Ack(e.gen, e.recv)>>

\* A piece the receiver has in full, and the piece it waits for; the variant
\* lets a gap pass.
Repeats(e, m) == m.off < e.recv /\ ChunkEnd(m) <= e.recv
ContinuesAfterGap(e, m) == m.off >= e.recv
Continues(e, m) == m.off = e.recv

\* receiveRecoverableData
OnData(x, m) ==
  LET e == s[x]
      new == [e EXCEPT !.recv = ChunkEnd(m)] IN
  IF ~e.opened THEN Ignore(x) /\ UNCHANGED got
  ELSE \/ /\ m.gen = e.gen /\ Repeats(e, m)
          /\ SendEnvelopes(x, Acknowledgement(e))
          /\ UNCHANGED <<s, how, got>>
       \/ /\ m.gen = e.gen /\ Continues(e, m)
          /\ s' = [s EXCEPT ![x] = new]
          /\ got' = [got EXCEPT ![x] = @ \o m.data]
          /\ SendEnvelopes(x, Acknowledgement(new))
          /\ UNCHANGED how
       \* or the write buffer of the local socket is full
       \/ /\ ~(m.gen = e.gen /\ Repeats(e, m))
          /\ Fail(x) /\ UNCHANGED got

\* receiveAcknowledgement
OnAck(x, m) ==
  LET e == Trim(s[x], m.n) IN
  IF m.gen # s[x].gen THEN Fail(x)
  ELSE IF m.n <= s[x].acked THEN Ignore(x)
  ELSE IF m.n \notin Boundaries(s[x]) THEN Fail(x)
  ELSE /\ s' = [s EXCEPT ![x] =
            [e EXCEPT !.paused = @ /\ ~(e.opened /\ ~e.susp /\ ReplayBytes(e) <= LowWater)]]
       /\ UNCHANGED <<up, how>>

\* sendResumeState, as the message it sends.  Its own test of the buffer never
\* fails: ReplayIsExact.
ResumeState(e) ==
  Resume(e.gen, [send |-> e.send, acked |-> e.acked, recv |-> e.recv,
                 from |-> BufferedFrom(e)])

\* suspendSession; a suspension that comes after its deadline is refused.
OnSuspend(x, m) ==
  \/ Fail(x)
  \/ /\ m.gen = s[x].gen
     /\ s' = [s EXCEPT ![x].susp = TRUE, ![x].paused = TRUE]
     /\ SendEnvelopes(x, <<ResumeState(s[x])>>)
     /\ UNCHANGED how

\* The chunks to replay: the buffer is in the order of its offsets, so those
\* not passed over are its last ones.  The variant forgets the first.
RestAfter(e, n) == From(e.replay, {i \in DOMAIN e.replay : e.replay[i].off > n})
Rest(e, n) == From(e.replay, {i \in DOMAIN e.replay : e.replay[i].off >= n})

\* resumeSession: replay from the offset the peer has confirmed.
OnResumed(x, m) ==
  LET e == s[x]
      new == IF e.gen = m.gen THEN e ELSE [Trim(e, m.n) EXCEPT !.gen = m.gen]
      rest == Rest(new, m.n)
      cut == rest # <<>> /\ ~CanSend(x) IN
  IF \/ m.gen \notin {e.gen, e.gen + 1}
     \/ m.n < BufferedFrom(e) \/ m.n \notin Boundaries(e)
  THEN Fail(x)
  ELSE /\ s' = [s EXCEPT ![x] =
            [new EXCEPT !.susp = cut,
                        !.paused = cut \/ (@ /\ ReplayBytes(new) > LowWater)]]
       /\ SendEnvelopes(x, [i \in DOMAIN rest |-> Data(new.gen, rest[i])]
                             \o <<Ack(new.gen, new.recv)>>)
       /\ UNCHANGED how

\* receiveEnd and receiveError
OnEnd(x, m) ==
  IF m.gen = s[x].gen /\ m.n = s[x].recv THEN CloseSession(x, "ended", <<>>) ELSE Fail(x)
OnError(x, m) == CloseSession(x, "error", <<>>)

TunnelReceives(x) ==
  LET m == Head(down[x]) IN
  /\ down[x] # <<>> /\ transportAvailable(x)
  /\ down' = [down EXCEPT ![x] = Tail(@)]
  /\ \/ m.t = "open" /\ OnOpen(x, m) /\ UNCHANGED got
     \/ m.t # "open" /\ ~Exists(x) /\ Ignore(x) /\ UNCHANGED got
     \/ Exists(x) /\ m.t = "data" /\ OnData(x, m)
     \/ /\ Exists(x) /\ UNCHANGED got
        /\ \/ m.t = "opened" /\ OnOpened(x, m)
           \/ m.t = "ack" /\ OnAck(x, m)
           \/ m.t = "suspend" /\ OnSuspend(x, m)
           \/ m.t = "resumed" /\ OnResumed(x, m)
           \/ m.t = "end" /\ OnEnd(x, m)
           \/ m.t = "error" /\ OnError(x, m)
  /\ UNCHANGED <<h, world, read>>

-----------------------------------------------------------------------------
(* The hub.  Its handlers may send to both workers: they give the channels *)
(* after the sends.                                                        *)

isConnected(x) == conn[x] \in {"ready", "closing"}

\* hub.send succeeds on a ready, open socket; the message is lost if the
\* worker has already dropped its end.
Reaches(x) == conn[x] = "ready"
Post(d, x, ms) ==
  IF Reaches(x) /\ transportAvailable(x) THEN [d EXCEPT ![x] = @ \o ms] ELSE d

\* terminateRuntimeStream, with an error for both sides or without.
Gone == HubSession("gone", 0)
Terminate ==
  /\ h' = Gone
  /\ down' = Post(Post(down, "source", <<Msg("error", h.gen)>>),
                  "destination", <<Msg("error", h.gen)>>)
TerminateAndForward(y, m) ==
  /\ h' = Gone
  /\ down' = Post(down, y, <<m>>)

\* suspendRuntimeStream, from the session r.
Suspend(r) ==
  IF r.susp THEN h' = r /\ UNCHANGED down
  ELSE /\ h' = [r EXCEPT !.susp = TRUE, !.reports = [x \in Ends |-> NoReport]]
       /\ down' = Post(Post(down, "source", <<Msg("suspend", r.gen)>>),
                       "destination", <<Msg("suspend", r.gen)>>)

\* runtime.stream.open of the source, and startRuntimeRelay.
HubOnOpen(m) ==
  IF ~isConnected("destination")
  THEN down' = Post(down, "source", <<Msg("error", -1)>>) /\ UNCHANGED h
  ELSE IF ~Reaches("destination")
  THEN h' = Gone /\ down' = Post(down, "source", <<Msg("error", m.gen)>>)
  ELSE /\ h' = HubSession("live", m.gen)
       /\ down' = Post(down, "destination", <<Msg("open", m.gen)>>)

HubOnOpened(x, m) ==
  IF x # "destination" \/ h.opened THEN UNCHANGED <<h, down>>
  ELSE IF m.gen # h.gen THEN Terminate
  ELSE /\ h' = [h EXCEPT !.opened = TRUE]
       /\ down' = Post(down, "source", <<Msg("opened", h.gen)>>)

\* handleRecoverableRuntimeData: what the relay has is passed over, and what
\* comes while the stream is suspended is counted but not forwarded.
Forward(x, m) == [h EXCEPT !.fwd[x] = @ + Len(m.data)]
HubOnData(x, m) ==
  IF ~h.opened \/ m.gen # h.gen THEN Terminate
  ELSE IF m.off < h.fwd[x] /\ ChunkEnd(m) <= h.fwd[x] THEN UNCHANGED <<h, down>>
  ELSE IF m.off # h.fwd[x] THEN Terminate
  ELSE IF h.susp THEN h' = Forward(x, m) /\ UNCHANGED down
  ELSE IF Reaches(Peer(x)) THEN h' = Forward(x, m) /\ down' = Post(down, Peer(x), <<m>>)
  ELSE Suspend(Forward(x, m))

\* handleRuntimeStreamAcknowledgement
HubOnAck(x, m) ==
  IF m.gen # h.gen \/ m.n > h.fwd[Peer(x)] THEN Terminate
  ELSE IF h.susp THEN UNCHANGED <<h, down>>
  ELSE IF Reaches(Peer(x)) THEN UNCHANGED h /\ down' = Post(down, Peer(x), <<m>>)
  ELSE Suspend(h)

\* tryResumeRuntimeStream: the two reports fit together.
Consistent(r) ==
  \A x \in Ends :
    /\ r[x].from <= r[Peer(x)].recv /\ r[Peer(x)].recv <= r[x].send
    /\ r[x].acked <= r[Peer(x)].recv

\* Where side x goes on: where its peer is.
SendFrom(r, x) == r[Peer(x)].recv

\* The next generation.
Resumption(r) ==
  [h EXCEPT !.gen = @ + 1, !.susp = FALSE, !.reports = [x \in Ends |-> NoReport],
            !.fwd = [x \in Ends |-> SendFrom(r, x)]]

TryResume(r) ==
  IF \E x \in Ends : r[x] = NoReport THEN h' = [h EXCEPT !.reports = r] /\ UNCHANGED down
  ELSE IF ~Consistent(r) THEN Terminate
  ELSE IF \E x \in Ends : ~isConnected(x)
  THEN h' = [h EXCEPT !.reports = r] /\ UNCHANGED down
  ELSE IF h.gen + 1 > MaxGeneration THEN Terminate
  ELSE LET told == [x \in Ends |-> <<Resumed(h.gen + 1, SendFrom(r, x))>>]
           failed == [x \in Ends |->
             IF \A y \in Ends : Reaches(y) THEN <<>> ELSE <<Msg("error", h.gen + 1)>>] IN
       /\ h' = IF \A y \in Ends : Reaches(y) THEN Resumption(r) ELSE Gone
       /\ down' = Post(Post(down, "source", told["source"] \o failed["source"]),
                       "destination", told["destination"] \o failed["destination"])

\* The answer to a resume for a stream the hub has given up; the variant
\* gives none.
NoAnswer(x, m) == UNCHANGED down
Expired(x, m) == down' = Post(down, x, <<Msg("error", m.gen)>>)

\* handleRuntimeStreamResume
HubOnResume(x, m) ==
  IF h.st # "live" THEN Expired(x, m) /\ UNCHANGED h
  ELSE IF \/ ~h.susp \/ m.gen # h.gen
          \/ m.report.acked > m.report.send \/ m.report.from > m.report.acked
          \/ h.reports[x] \notin {NoReport, m.report}
  THEN Terminate
  ELSE TryResume([h.reports EXCEPT ![x] = m.report])

\* A goodbye drops the connection, and its close is not handled when it comes.
HubReceives(x) ==
  LET m == Head(up[x]) IN
  /\ up[x] # <<>> /\ conn[x] # "down"
  /\ up' = [up EXCEPT ![x] = IF m.t = "goodbye" THEN <<>> ELSE Tail(@)]
  /\ \/ /\ m.t = "heartbeat" /\ UNCHANGED <<h, down>>
        /\ conn' = [conn EXCEPT ![x] = IF @ = "pending" THEN "ready" ELSE @]
     \/ /\ m.t = "goodbye" /\ UNCHANGED <<h, down>>
        /\ conn' = [conn EXCEPT ![x] = "down"]
     \/ /\ m.t \notin {"heartbeat", "goodbye"} /\ UNCHANGED conn
        /\ \/ m.t = "open" /\ HubOnOpen(m)
           \/ m.t = "resume" /\ HubOnResume(x, m)
           \/ m.t \notin {"open", "resume"} /\ h.st # "live" /\ UNCHANGED <<h, down>>
           \/ m.t = "opened" /\ h.st = "live" /\ HubOnOpened(x, m)
           \/ m.t = "data" /\ h.st = "live" /\ HubOnData(x, m)
           \/ m.t = "ack" /\ h.st = "live" /\ HubOnAck(x, m)
           \/ /\ m.t \in {"end", "error"} /\ h.st = "live"
              /\ IF m.gen = h.gen THEN TerminateAndForward(Peer(x), m) ELSE Terminate
  /\ UNCHANGED <<s, ws, faults, read, got, how>>

\* The recovery grace of the hub runs out.
RecoveryTimeout ==
  /\ h.st = "live" /\ h.susp
  /\ Terminate
  /\ UNCHANGED <<s, world, up, read, got, how>>

-----------------------------------------------------------------------------
(* The WebSockets.  Either side may start to close one, or find it broken, *)
(* and the other side notices later.                                       *)

\* A failure that starts here is one of the Faults.
Starts(first) ==
  IF first THEN /\ faults > 0 /\ faults' = faults - 1
                /\ LossWhileOpening \/ s["source"].opened
  ELSE UNCHANGED faults

Prefixes(q) == {SubSeq(q, 1, k) : k \in 0..Len(q)}

\* The worker's socket is CLOSING.
WorkerClosing(x) ==
  /\ ws[x] = "up" /\ Starts(conn[x] \in {"ready", "pending"})
  /\ ws' = [ws EXCEPT ![x] = "closing"]
  /\ UNCHANGED <<s, h, conn, up, down, read, got, how>>

\* The worker stops: sendGoodbye, then closeSocket.  Its sessions are reset only
\* when the socket is closed.
SendGoodbye(x) ==
  /\ Goodbyes /\ CanSend(x) /\ Starts(TRUE)
  /\ ws' = [ws EXCEPT ![x] = "closing"]
  /\ SendEnvelopes(x, <<Goodbye>>)
  /\ UNCHANGED <<s, h, conn, down, read, got, how>>

\* The close event of the worker: transportDisconnected.
WorkerCloses(x) ==
  /\ ws[x] # "down" /\ Starts(ws[x] # "closing" /\ conn[x] \in {"ready", "pending"})
  /\ ws' = [ws EXCEPT ![x] = "down"]
  /\ s' = [s EXCEPT ![x].susp = @ \/ Exists(x), ![x].paused = @ \/ Exists(x)]
  /\ down' = [down EXCEPT ![x] = <<>>]
  /\ \E q \in Prefixes(up[x]) : up' = [up EXCEPT ![x] = q]
  /\ UNCHANGED <<h, conn, read, got, how>>

\* The hub's socket is CLOSING.
HubClosing(x) ==
  /\ conn[x] = "ready" /\ Starts(ws[x] = "up")
  /\ conn' = [conn EXCEPT ![x] = "closing"]
  /\ UNCHANGED <<s, h, ws, up, down, read, got, how>>

\* handleClose: a live stream of the worker is suspended, and its peer told.
HubCloses(x) ==
  /\ conn[x] # "down" /\ Starts(conn[x] # "closing" /\ ws[x] \in {"up", "joining"})
  /\ conn' = [conn EXCEPT ![x] = "down"]
  /\ up' = [up EXCEPT ![x] = <<>>]
  /\ \E q \in Prefixes(down[x]) :
       LET d == [down EXCEPT ![x] = q] IN
       IF h.st = "live" /\ ~h.susp
       THEN /\ h' = [h EXCEPT !.susp = TRUE, !.reports = [y \in Ends |-> NoReport]]
            /\ down' = Post(d, Peer(x), <<Msg("suspend", h.gen)>>)
       ELSE down' = d /\ UNCHANGED h
  /\ UNCHANGED <<s, ws, read, got, how>>

\* worker.hello of a new socket.  A connection whose close was not seen is
\* replaced, and its close is not handled when it comes.
Hello(x) ==
  /\ ws[x] = "down" /\ up[x] = <<>>
  /\ conn[x] = "down" \/ Supersede
  /\ ws' = [ws EXCEPT ![x] = "joining"]
  /\ conn' = [conn EXCEPT ![x] = "pending"]
  /\ UNCHANGED <<s, h, up, down, faults, read, got, how>>

\* server.ready: the worker sends a heartbeat; transportConnected.
ServerReady(x) ==
  /\ ws[x] = "joining"
  /\ ws' = [ws EXCEPT ![x] = "up"]
  /\ up' = IF conn[x] = "down" THEN up
           ELSE [up EXCEPT ![x] = @ \o <<Heartbeat>> \o
                  (IF Exists(x) /\ s[x].susp THEN <<ResumeState(s[x])>> ELSE <<>>)]
  /\ UNCHANGED <<s, h, conn, down, faults, read, got, how>>

-----------------------------------------------------------------------------
Step(x) ==
  \/ TargetConnects(x) \/ (\E n \in Sizes : ReadSocket(x, n))
  \/ SocketEnds(x) \/ SocketFails(x)
  \/ TunnelReceives(x) \/ HubReceives(x)
  \/ WorkerClosing(x) \/ SendGoodbye(x) \/ WorkerCloses(x) \/ HubClosing(x) \/ HubCloses(x)
  \/ Hello(x) \/ ServerReady(x)

Next == OpenOutgoing \/ RecoveryTimeout \/ (\E x \in Ends : Step(x))

Spec == Init /\ [][Next]_vars

\* A worker without its WebSocket resets its tunnel after the reconnect grace.
Reset(x) == ~transportAvailable(x) /\ SocketEnds(x)

\* A side whose peer has dropped the socket, or is closing it, sees it close.
WorkerNotices(x) == (ws[x] = "closing" \/ conn[x] \in {"closing", "down"}) /\ WorkerCloses(x)
HubNotices(x) == (conn[x] = "closing" \/ ws[x] \in {"closing", "down"}) /\ HubCloses(x)

FairSpec ==
  /\ Spec /\ WF_vars(RecoveryTimeout)
  /\ \A x \in Ends :
       /\ WF_vars(TunnelReceives(x)) /\ WF_vars(HubReceives(x))
       /\ WF_vars(Reset(x)) /\ WF_vars(WorkerNotices(x)) /\ WF_vars(HubNotices(x))

-----------------------------------------------------------------------------
(* Properties.                                                             *)

\* Every variable keeps the shape the code gives it; a session's offsets are
\* ordered and its replay buffer (sendSocketChunk) never exceeds its limit.
TypeOK ==
  /\ \A x \in Ends :
       /\ s[x].st \in {"none", "connecting", "open", "closed"}
       /\ s[x].gen \in 0..MaxGeneration /\ {s[x].opened, s[x].susp, s[x].paused} \subseteq BOOLEAN
       /\ 0 <= s[x].acked /\ s[x].acked <= s[x].send /\ s[x].send <= MaxBytes[x]
       /\ s[x].recv \in 0..MaxBytes[Peer(x)]
       /\ ReplayBytes(s[x]) <= MaxReplay
       /\ ws[x] \in {"up", "closing", "down", "joining"}
       /\ conn[x] \in {"pending", "ready", "closing", "down"}
       /\ h.fwd[x] \in 0..MaxBytes[x]
  /\ h.st \in {"none", "live", "gone"} /\ h.gen \in 0..MaxGeneration
  /\ {h.opened, h.susp} \subseteq BOOLEAN /\ faults \in 0..Faults

\* The replay buffer (trimReplayToOffset, sendSocketChunk) holds exactly the
\* bytes that were read and not acknowledged, whatever was lost and replayed,
\* and only what the other process has is acknowledged: what a resumption may
\* ask for is always there.
ReplayIsExact ==
  \A x \in Ends : Exists(x) =>
    LET r == s[x].replay IN
    /\ s[x].acked <= Len(got[Peer(x)])
    /\ BufferedFrom(s[x]) = s[x].acked
    /\ r = <<>> => s[x].acked = s[x].send
    /\ \A i \in DOMAIN r : ChunkEnd(r[i]) = IF i = Len(r) THEN s[x].send ELSE r[i + 1].off

\* The two processes see a pipe: BytePipe with the same read, got and how.
Pipe == INSTANCE BytePipe
IsPipe == Pipe!Spec

\* Once the WebSockets stay up or down, a stream is present at both sides or
\* at neither (terminateRuntimeStream, closeSession): none is left behind.
EndsTogether == <>[](Exists("source") <=> Exists("destination"))

\* What was read from one process reaches the other, unless that side of the
\* stream closes (suspendSession, resumeSession, the recovery timeout).
BytesArrive ==
  \A x \in Ends : \A n \in 1..MaxBytes[x] :
    read[x] >= n ~> (Len(got[Peer(x)]) >= n \/ ~Exists(Peer(x)))

=============================================================================
