---------------------------- MODULE DirectRoute ----------------------------
(***************************************************************************)
(* The negotiation of a direct route for one runtime stream.  The hub      *)
(* (worker-hub.ts) is the signalling authority: it offers the route to the *)
(* destination, lets the source dial, releases the destination, waits for  *)
(* its acknowledgement and only then releases the source.  Until then it   *)
(* may fall back to its own relay.  On the workers the records of          *)
(* runtime-direct-transport.ts share the source's local socket with the    *)
(* session of runtime-stream-tunnel.ts.                                    *)
(*                                                                         *)
(* One stream with recovery negotiated, between two workers that advertise *)
(* direct transport.  The candidates are dialled as one attempt that may   *)
(* fail, bytes go from the source to the destination, and telemetry is     *)
(* left out.  WebSockets are FIFO and lose a suffix of what is on its way  *)
(* when they break.  A relayed stream that loses one is suspended and may  *)
(* be resumed under the next generation; what a resumed stream carries is  *)
(* RuntimeStream's, and no byte is written here after a resumption.        *)
(***************************************************************************)
EXTENDS Naturals, Sequences

CONSTANTS
  MaxBytes,    \* bytes the source's process writes
  MaxBreaks    \* WebSockets that may break

ASSUME RouteConstants == MaxBytes \in Nat /\ MaxBreaks \in Nat

VARIABLES
  mode,     \* transportMode of the hub's session
  direct,   \* direct.state of the hub's session
  opened,   \* opened of the hub's session
  gen,      \* recovery.generation of the hub's session
  reports,  \* the workers whose report the hub has
  ses,      \* transportMode of the source tunnel's session, or "closed"
  flow,     \* the source's local socket
  susp,     \* whether the source's session is suspended
  task,     \* where connectSource is
  rec,      \* the source's record
  deaf,     \* the source's record ignored the end of its channel
  sgen,     \* recovery.generation of the source's session
  dst,      \* the destination's offer, then its record
  rel,      \* the destination tunnel's relay session
  dgen,     \* its recovery.generation
  chan,     \* the peers' secure channel
  marker,   \* the ready marker is on its way to the source
  pipe,     \* bytes on their way over the channel
  ws,       \* ws[x]: the WebSocket as worker x sees it
  conn,     \* conn[x]: the connection of worker x as the hub sees it
  up,       \* up[x]: messages on their way from x to the hub
  down,     \* down[x]: messages on their way from the hub to x
  breaks,   \* WebSockets that may still break
  sent, got \* bytes read from the source's process, written to the target

hub == <<mode, direct, opened, gen, reports>>
source == <<ses, flow, susp, task, rec, deaf, sgen>>
destination == <<dst, rel, dgen>>
peers == <<chan, marker, pipe>>
links == <<ws, conn, breaks>>
bytes == <<sent, got>>
vars == <<hub, source, destination, peers, links, up, down, bytes>>

Ends == {"source", "destination"}
Msg(t) == [t |-> t, n |-> 0]
Note(t, g) == [t |-> t, n |-> g]     \* with the generation of its sender
Data(n) == [t |-> "data", n |-> n]

Messages ==
  [t : {"open", "offer", "ready", "connect", "established", "commit", "committed",
        "fallback", "cancel", "closed", "opened", "end", "error", "suspend", "resume"},
   n : Nat]
  \cup [t : {"resumed"}, n : Nat \ {0}] \cup [t : {"data"}, n : 1..MaxBytes]

Init ==
  /\ mode = "none" /\ direct = "null" /\ opened = FALSE /\ gen = 0 /\ reports = {}
  /\ ses = "negotiating" /\ flow = "paused" /\ susp = FALSE
  /\ task = "idle" /\ rec = "none" /\ deaf = FALSE /\ sgen = 0
  /\ dst = "none" /\ rel = "none" /\ dgen = 0
  /\ chan = "none" /\ marker = FALSE /\ pipe = <<>>
  /\ ws = [x \in Ends |-> "up"] /\ conn = [x \in Ends |-> "up"] /\ breaks = MaxBreaks
  /\ up = [x \in Ends |-> IF x = "source" THEN <<Msg("open")>> ELSE <<>>]
  /\ down = [x \in Ends |-> <<>>]
  /\ sent = 0 /\ got = <<>>

-----------------------------------------------------------------------------
(* The hub.                                                                *)

\* send: false once the close was seen, true but lost before that.
Sends(x) == conn[x] # "down"
Queue(d, x, m) == IF conn[x] = "up" THEN [d EXCEPT ![x] = Append(@, m)] ELSE d
Both(d, m) == Queue(Queue(d, "source", m), "destination", m)

\* The next message of x, if it is a t.
FromWorker(x, t) ==
  /\ up[x] # <<>> /\ Head(up[x]).t = t
  /\ up' = [up EXCEPT ![x] = Tail(@)]
HubOnly == UNCHANGED <<source, destination, peers, links, bytes>>

\* terminateRuntimeStream, after the messages of d; an error is only told to
\* the workers when the stream was relayed.
Terminate(d, withMessage) ==
  LET cancelled == IF direct # "null" THEN Both(d, Msg("cancel")) ELSE d IN
  /\ mode' = "ended" /\ direct' = "null" /\ reports' = {} /\ UNCHANGED <<opened, gen>>
  /\ down' = IF withMessage /\ mode \in {"relay", "suspended"}
             THEN Both(cancelled, Msg("error")) ELSE cancelled

\* startRuntimeRelay
StartRelay(d) ==
  /\ direct' = "null" /\ UNCHANGED <<opened, gen, reports>>
  /\ IF Sends("destination")
     THEN mode' = "relay" /\ down' = Queue(d, "destination", Msg("open"))
     ELSE mode' = "ended" /\ down' = Both(d, Msg("error"))

\* fallbackRuntimeStreamToRelay
FallBack ==
  IF direct = "committed" THEN Terminate(down, TRUE)
  ELSE StartRelay(Both(down, Msg("cancel")))

\* runtime.stream.open; the id of a stream is used once.
OnOpen ==
  /\ FromWorker("source", "open")
  /\ IF mode = "none" /\ Sends("destination")
     THEN /\ mode' = "negotiating" /\ direct' = "offered"
          /\ UNCHANGED <<opened, gen, reports>>
          /\ down' = Queue(down, "destination", Msg("offer"))
     ELSE down' = Queue(down, "source", Msg("error")) /\ UNCHANGED hub
  /\ HubOnly

\* A runtime.direct message for a session that negotiates no route is dropped.
Dropped == direct = "null" /\ UNCHANGED <<hub, down>>

OnReady ==
  /\ FromWorker("destination", "ready")
  /\ \/ Dropped
     \/ /\ direct # "null"
        /\ IF direct # "offered" THEN Terminate(down, TRUE)
           ELSE IF ~Sends("source") THEN FallBack
           ELSE /\ direct' = "ready" /\ UNCHANGED <<mode, opened, gen, reports>>
                /\ down' = Queue(down, "source", Msg("connect"))
  /\ HubOnly

OnFallback(x) ==
  /\ FromWorker(x, "fallback")
  /\ Dropped \/ (direct # "null" /\ FallBack)
  /\ HubOnly

\* Variant: both peers are released at once.
OnEstablishedReleasesBoth ==
  /\ FromWorker("source", "established")
  /\ \/ Dropped
     \/ /\ direct # "null"
        /\ direct' = "destination-committing" /\ UNCHANGED <<mode, opened, gen, reports>>
        /\ down' = Both(down, Msg("commit"))
  /\ HubOnly

OnEstablished ==
  /\ FromWorker("source", "established")
  /\ \/ Dropped
     \/ /\ direct # "null"
        /\ IF direct = "ready" /\ Sends("destination")
           THEN /\ direct' = "destination-committing" /\ UNCHANGED <<mode, opened, gen, reports>>
                /\ down' = Queue(down, "destination", Msg("commit"))
           ELSE Terminate(down, TRUE)
  /\ HubOnly

OnCommitted ==
  /\ FromWorker("destination", "committed")
  /\ \/ Dropped
     \/ /\ direct # "null"
        /\ IF direct = "destination-committing" /\ Sends("source")
           THEN /\ mode' = "direct" /\ direct' = "committed" /\ opened' = TRUE
                /\ UNCHANGED <<gen, reports>>
                /\ down' = Queue(down, "source", Msg("commit"))
           ELSE Terminate(down, TRUE)
  /\ HubOnly

\* runtime.direct.closed ends the stream before the commit as after it.
OnClosed(x) ==
  /\ FromWorker(x, "closed")
  /\ Dropped \/ (direct # "null" /\ Terminate(down, direct # "committed"))
  /\ HubOnly

\* The timers of the session: the negotiation's, the acknowledgement's, the
\* route's lifetime.  The variant forgets the one of the acknowledgement.
TimerFiresUnlessCommitting ==
  /\ \/ direct \in {"offered", "ready"} /\ FallBack
     \/ direct = "committed" /\ Terminate(down, TRUE)
  /\ UNCHANGED up /\ HubOnly

TimerFires ==
  /\ \/ direct \in {"offered", "ready"} /\ FallBack
     \/ direct \in {"destination-committing", "committed"} /\ Terminate(down, TRUE)
  /\ UNCHANGED up /\ HubOnly

\* runtime.stream.opened, forwarded once; that of another generation ends the
\* stream.
OnOpened ==
  /\ FromWorker("destination", "opened")
  /\ CASE mode \in {"relay", "suspended"} /\ ~opened /\ Head(up["destination"]).n = gen ->
            /\ opened' = TRUE /\ UNCHANGED <<mode, direct, gen, reports>>
            /\ down' = Queue(down, "source", Note("opened", gen))
       [] mode \in {"relay", "suspended"} /\ ~opened /\ Head(up["destination"]).n # gen ->
            Terminate(down, TRUE)
       [] OTHER -> UNCHANGED <<hub, down>>
  /\ HubOnly

\* suspendRuntimeStream
Suspend(d) ==
  /\ mode' = "suspended" /\ reports' = {} /\ UNCHANGED <<direct, opened, gen>>
  /\ down' = Both(d, Note("suspend", gen))

\* runtime.stream.data; bytes are of generation 0.  A failed delivery suspends
\* the stream, and a suspended one forwards nothing.
OnData ==
  /\ FromWorker("source", "data")
  /\ CASE mode = "negotiating" \/ (mode \in {"relay", "suspended"} /\ gen # 0) ->
            Terminate(down, TRUE)
       [] mode = "direct" \/ (mode = "relay" /\ gen = 0) ->
            IF Sends("destination")
            THEN down' = Queue(down, "destination", Head(up["source"])) /\ UNCHANGED hub
            ELSE Suspend(down)
       [] OTHER -> UNCHANGED <<hub, down>>
  /\ HubOnly

\* runtime.stream.end and runtime.stream.error, told to the other worker.
OnTerminal(x) ==
  /\ FromWorker(x, "end")
  /\ IF mode \in {"none", "ended"} THEN UNCHANGED <<hub, down>>
     ELSE Terminate(Queue(down, CHOOSE y \in Ends : y # x, Msg("end")), FALSE)
  /\ HubOnly

\* tryResumeRuntimeStream, with the reports r.  Their offsets fit together:
\* RuntimeStream.
TryResume(r) ==
  /\ UNCHANGED <<direct, opened>>
  /\ IF r = Ends /\ \A x \in Ends : Sends(x)
     THEN /\ mode' = "relay" /\ gen' = gen + 1 /\ reports' = {}
          /\ down' = Both(down, Note("resumed", gen + 1))
     ELSE reports' = r /\ UNCHANGED <<mode, gen, down>>

\* runtime.stream.resume: a stream that is not suspended is ended by it.
OnResume(x) ==
  /\ FromWorker(x, "resume")
  /\ CASE mode \in {"none", "ended"} -> down' = Queue(down, x, Msg("error")) /\ UNCHANGED hub
       [] mode = "suspended" /\ Head(up[x]).n = gen -> TryResume(reports \cup {x})
       [] OTHER -> Terminate(down, TRUE)
  /\ HubOnly

RecoveryTimeout ==
  mode = "suspended" /\ Terminate(down, TRUE) /\ UNCHANGED up /\ HubOnly

\* handleClose: a committed route outlives the connection, a relayed stream
\* is suspended, a negotiation is ended.
HubNotices(x) ==
  /\ conn[x] = "lost" /\ up[x] = <<>>
  /\ conn' = [conn EXCEPT ![x] = "down"]
  /\ CASE mode = "negotiating" -> Terminate(down, TRUE)
       [] mode = "relay" -> Suspend(down)
       [] OTHER -> UNCHANGED <<hub, down>>
  /\ UNCHANGED <<source, destination, peers, ws, breaks, up, bytes>>

-----------------------------------------------------------------------------
(* The source: its tunnel session and its direct record share one socket.  *)

\* sendEnvelope drops what it cannot send.
Post(x, ms) == up' = IF ws[x] = "up" THEN [up EXCEPT ![x] = @ \o ms] ELSE up
FromHub(x, t) ==
  /\ down[x] # <<>> /\ Head(down[x]).t = t
  /\ down' = [down EXCEPT ![x] = Tail(@)]
SourceOnly == UNCHANGED <<hub, destination, links, bytes>>

ChannelCut == IF chan = "up" THEN "down" ELSE chan

\* Whatever destroys the socket ends the session and the record with it.  A
\* committed record reports runtime.direct.closed, any other a fallback, and
\* a session that is not direct sends its own notice.  connectSource, if it
\* still waits for the marker, fails with the record.
Rejections == (IF rec = "open" THEN <<Msg("fallback")>> ELSE <<>>)
              \o (IF task = "awaiting" THEN <<Msg("fallback")>> ELSE <<>>)
DestroySource(notice) ==
  /\ ses' = "closed" /\ flow' = "destroyed" /\ UNCHANGED <<susp, deaf, sgen>>
  /\ rec' = IF rec = "none" THEN "none" ELSE "closed"
  /\ task' = IF task = "awaiting" THEN "done" ELSE task
  /\ chan' = IF rec \in {"open", "committed"} THEN ChannelCut ELSE chan
  /\ UNCHANGED <<marker, pipe>>
  /\ Post("source", IF rec = "committed" THEN <<Msg("closed")>>
                    ELSE Rejections \o (IF ses = "closed" THEN <<>> ELSE notice))

Notice == IF ses = "direct" THEN <<>> ELSE <<Msg("end")>>

\* runtime.direct.connect starts connectSource.
OnConnect ==
  /\ FromHub("source", "connect")
  /\ IF ses = "negotiating"
     THEN task' = "dialing" /\ UNCHANGED up
     ELSE Post("source", <<Msg("fallback")>>) /\ UNCHANGED task
  /\ UNCHANGED <<ses, flow, susp, rec, deaf, sgen, peers>> /\ SourceOnly

\* No candidate answers, or the handshake times out.
DialFails ==
  /\ task = "dialing" /\ task' = "done"
  /\ chan' = ChannelCut
  /\ Post("source", <<Msg("fallback")>>)
  /\ UNCHANGED <<ses, flow, susp, rec, deaf, sgen, marker, pipe, down>> /\ SourceOnly

\* The channel is authenticated and the stream opened: the record is made.
DialSucceeds ==
  /\ task = "dialing" /\ chan = "up"
  /\ task' = "awaiting" /\ rec' = "open"
  /\ UNCHANGED <<ses, flow, susp, deaf, sgen, peers, up, down>> /\ SourceOnly

MarkerArrives ==
  /\ task = "awaiting" /\ marker
  /\ task' = "done" /\ marker' = FALSE
  /\ Post("source", <<Msg("established")>>)
  /\ UNCHANGED <<ses, flow, susp, rec, deaf, sgen, chan, pipe, down>> /\ SourceOnly

\* Variant: the socket kept for the relay is resumed.
AbortResuming ==
  /\ rec' = "closed" /\ chan' = ChannelCut
  /\ flow' = IF flow = "destroyed" THEN flow ELSE "flowing"
  /\ UNCHANGED <<ses, susp, deaf, sgen, marker, pipe>>

\* abortProvisional: the record goes, the socket is kept, and paused.
Abort ==
  /\ rec' = "closed" /\ chan' = ChannelCut
  /\ flow' = IF flow = "destroyed" THEN flow ELSE "paused"
  /\ UNCHANGED <<ses, susp, deaf, sgen, marker, pipe>>

\* The channel fails or the marker does not come in time.
MarkerFails ==
  /\ task = "awaiting" /\ task' = "done"
  /\ Abort /\ Post("source", <<Msg("fallback")>>)
  /\ UNCHANGED down /\ SourceOnly

\* commit, and onSourceCommitted for a session that still negotiates.
OnSourceCommit ==
  /\ FromHub("source", "commit")
  /\ IF rec = "open"
     THEN /\ rec' = "committed"
          /\ flow' = IF flow = "destroyed" THEN flow ELSE "flowing"
          /\ ses' = IF ses = "negotiating" THEN "direct" ELSE ses
     ELSE UNCHANGED <<rec, flow, ses>>
  /\ UNCHANGED <<susp, task, deaf, sgen, peers, up>> /\ SourceOnly

\* cancel: a record that is not committed leaves the socket to the relay.
OnSourceCancel ==
  /\ FromHub("source", "cancel")
  /\ CASE rec = "open" ->
            /\ Abort
            /\ task' = IF task = "awaiting" THEN "done" ELSE task
            /\ Post("source", IF task = "awaiting" THEN <<Msg("fallback")>> ELSE <<>>)
       [] rec = "committed" -> DestroySource(Notice)
       [] OTHER -> UNCHANGED <<source, peers, up>>
  /\ SourceOnly

\* runtime.stream.opened: the relay serves the session.
OnRelayOpened ==
  /\ FromHub("source", "opened")
  /\ CASE ses = "negotiating" /\ Head(down["source"]).n = sgen ->
            /\ ses' = "relay" /\ flow' = (IF susp THEN flow ELSE "flowing")
            /\ UNCHANGED <<susp, task, rec, deaf, sgen, peers, up>>
       [] ses = "negotiating" /\ Head(down["source"]).n # sgen -> DestroySource(Notice)
       [] OTHER -> UNCHANGED <<source, peers, up>>
  /\ SourceOnly

\* runtime.stream.end and runtime.stream.error close the session quietly.
OnSourceTerminal ==
  /\ \E t \in {"end", "error"} : FromHub("source", t)
  /\ IF ses = "closed" THEN UNCHANGED <<source, peers, up>> ELSE DestroySource(<<>>)
  /\ SourceOnly

\* suspendSession, which reports at once; a suspension of another generation
\* or after its deadline closes the session.
OnSuspend ==
  /\ FromHub("source", "suspend")
  /\ \/ ses = "closed" /\ UNCHANGED <<source, peers, up>>
     \/ /\ ses # "closed" /\ Head(down["source"]).n = sgen
        /\ susp' = TRUE /\ flow' = "paused" /\ Post("source", <<Note("resume", sgen)>>)
        /\ UNCHANGED <<ses, task, rec, deaf, sgen, peers>>
     \/ ses # "closed" /\ DestroySource(Notice)
  /\ SourceOnly

\* resumeSession resumes the socket, opened or not.
OnResumed ==
  /\ FromHub("source", "resumed")
  /\ LET g == Head(down["source"]).n IN
     CASE ses = "closed" -> UNCHANGED <<source, peers, up>>
       [] ses # "closed" /\ g \in {sgen, sgen + 1} ->
            /\ sgen' = g /\ susp' = FALSE /\ flow' = "flowing"
            /\ UNCHANGED <<ses, task, rec, deaf, peers, up>>
       [] OTHER -> DestroySource(Notice)
  /\ SourceOnly

\* The source's process ends; a paused socket does not show it.
ProcessEnds ==
  /\ flow = "flowing" /\ DestroySource(Notice)
  /\ UNCHANGED down /\ SourceOnly

\* The socket's data handler: a byte goes the way the session is on.  One that
\* no route serves yet is dropped, and a direct route that cannot take it ends
\* the session.
Write ==
  /\ flow = "flowing" /\ sgen = 0 /\ sent < MaxBytes /\ sent' = sent + 1
  /\ CASE ses = "negotiating" -> UNCHANGED <<source, peers, up>>
       [] ses = "relay" -> Post("source", <<Data(sent + 1)>>) /\ UNCHANGED <<source, peers>>
       [] ses = "direct" /\ rec = "committed" /\ chan = "up" ->
            pipe' = Append(pipe, sent + 1) /\ UNCHANGED <<source, chan, marker, up>>
       [] OTHER -> DestroySource(<<>>)
  /\ UNCHANGED <<hub, destination, links, down, got>>

\* The mux reports the end of its channel once.  A record that has its marker
\* and is not committed does not react.
SourceNoticesChannel ==
  /\ chan = "down" /\ task = "done" /\ ~deaf
  /\ \/ rec = "committed" /\ DestroySource(Notice)
     \/ rec = "open" /\ deaf' = TRUE /\ UNCHANGED <<ses, flow, susp, task, rec, sgen, peers, up>>
  /\ UNCHANGED down /\ SourceOnly

\* The lifetime of a record is hours, the hub decides within seconds.
HoursLater == mode # "negotiating"

\* Variant: the lifetime only ends committed records.
SourceLifetimeIfCommitted ==
  /\ rec = "committed" /\ HoursLater /\ DestroySource(Notice)
  /\ UNCHANGED down /\ SourceOnly

SourceLifetime ==
  /\ rec \in {"open", "committed"} /\ HoursLater /\ DestroySource(Notice)
  /\ UNCHANGED down /\ SourceOnly

\* transportDisconnected spares a direct session.
SourceNoticesLink ==
  /\ ws["source"] = "lost" /\ down["source"] = <<>>
  /\ ws' = [ws EXCEPT !["source"] = "down"]
  /\ IF ses \in {"negotiating", "relay"} THEN susp' = TRUE /\ flow' = "paused"
     ELSE UNCHANGED <<susp, flow>>
  /\ UNCHANGED <<hub, ses, task, rec, deaf, sgen, destination, peers, conn, breaks, up, down, bytes>>

-----------------------------------------------------------------------------
(* The destination.                                                        *)

DestinationOnly == UNCHANGED <<hub, source, links, bytes>>

\* installDestinationOffer, or one of its refusals.
OnOffer ==
  /\ FromHub("destination", "offer")
  /\ \/ dst = "none" /\ dst' = "offered" /\ Post("destination", <<Msg("ready")>>)
     \/ /\ dst' = IF dst = "none" THEN "closed" ELSE dst
        /\ Post("destination", <<Msg("fallback")>>)
  /\ UNCHANGED <<rel, dgen, peers>> /\ DestinationOnly

OfferExpires ==
  /\ dst = "offered" /\ dst' = "closed"
  /\ Post("destination", <<Msg("fallback")>>)
  /\ UNCHANGED <<rel, dgen, peers, down>> /\ DestinationOnly

\* The grant is consumed by the first channel that proves it.
AcceptChannel ==
  /\ dst = "offered" /\ task = "dialing" /\ chan = "none"
  /\ dst' = "accepting" /\ chan' = "up"
  /\ UNCHANGED <<rel, dgen, marker, pipe, up, down>> /\ DestinationOnly

\* The target answers: the record is made and the marker written.
TargetConnects ==
  /\ dst = "accepting" /\ chan = "up"
  /\ dst' = "open" /\ marker' = TRUE
  /\ UNCHANGED <<rel, dgen, chan, pipe, up, down>> /\ DestinationOnly

TargetFails ==
  /\ dst = "accepting" /\ dst' = "closed" /\ chan' = ChannelCut
  /\ Post("destination", <<Msg("fallback")>>)
  /\ UNCHANGED <<rel, dgen, marker, pipe, down>> /\ DestinationOnly

OnDestinationCommit ==
  /\ FromHub("destination", "commit")
  /\ IF dst = "open"
     THEN dst' = "committed" /\ Post("destination", <<Msg("committed")>>)
     ELSE UNCHANGED <<dst, up>>
  /\ UNCHANGED <<rel, dgen, peers>> /\ DestinationOnly

\* finishRecord: only a committed record is reported.
FinishDestination ==
  /\ dst' = "closed" /\ chan' = ChannelCut
  /\ Post("destination", IF dst = "committed" THEN <<Msg("closed")>> ELSE <<>>)
  /\ UNCHANGED <<rel, dgen, marker, pipe>>

\* cancel does not reach a channel that waits for its target.
OnDestinationCancel ==
  /\ FromHub("destination", "cancel")
  /\ CASE dst = "offered" -> dst' = "closed" /\ UNCHANGED <<rel, dgen, peers, up>>
       [] dst \in {"open", "committed"} -> FinishDestination
       [] OTHER -> UNCHANGED <<destination, peers, up>>
  /\ DestinationOnly

\* The channel is gone, the lifetime is over, or the target closes.
DestinationNoticesChannel ==
  dst \in {"open", "committed"} /\ chan = "down"
  /\ FinishDestination /\ UNCHANGED down /\ DestinationOnly
DestinationLifetime ==
  dst \in {"open", "committed"} /\ HoursLater
  /\ FinishDestination /\ UNCHANGED down /\ DestinationOnly
TargetCloses ==
  dst = "committed" /\ FinishDestination /\ UNCHANGED down /\ DestinationOnly

\* writeToSocket refuses a byte before the commit, and that ends the record.
ReceiveByte ==
  /\ pipe # <<>> /\ pipe' = Tail(pipe)
  /\ got' = IF dst = "committed" THEN Append(got, Head(pipe)) ELSE got
  /\ IF dst = "open" THEN dst' = "closed" /\ chan' = ChannelCut ELSE UNCHANGED <<dst, chan>>
  /\ UNCHANGED <<hub, source, rel, dgen, marker, links, up, down, sent>>

\* openIncoming, and what becomes of its connection to the target.
OnRelayOpen ==
  /\ FromHub("destination", "open") /\ rel' = "connecting"
  /\ UNCHANGED <<dst, dgen, peers, up>> /\ DestinationOnly
RelayConnects ==
  /\ rel = "connecting" /\ rel' = "open" /\ Post("destination", <<Note("opened", dgen)>>)
  /\ UNCHANGED <<dst, dgen, peers, down>> /\ DestinationOnly
RelayFails ==
  /\ rel = "connecting" /\ rel' = "closed" /\ Post("destination", <<Msg("end")>>)
  /\ UNCHANGED <<dst, dgen, peers, down>> /\ DestinationOnly
OnRelayData ==
  /\ FromHub("destination", "data")
  /\ got' = IF rel = "open" THEN Append(got, Head(down["destination"]).n) ELSE got
  /\ UNCHANGED <<hub, source, destination, peers, links, up, sent>>
OnDestinationTerminal ==
  /\ \E t \in {"end", "error"} : FromHub("destination", t)
  /\ rel' = IF rel = "none" THEN rel ELSE "closed"
  /\ UNCHANGED <<dst, dgen, peers, up>> /\ DestinationOnly

\* suspendSession and resumeSession, as at the source.
RelayLives == rel \in {"connecting", "open"}
CloseRelay == rel' = "closed" /\ UNCHANGED dgen /\ Post("destination", <<Msg("end")>>)
OnRelaySuspend ==
  /\ FromHub("destination", "suspend")
  /\ \/ ~RelayLives /\ UNCHANGED <<rel, dgen, up>>
     \/ /\ RelayLives /\ Head(down["destination"]).n = dgen
        /\ UNCHANGED <<rel, dgen>> /\ Post("destination", <<Note("resume", dgen)>>)
     \/ RelayLives /\ CloseRelay
  /\ UNCHANGED <<dst, peers>> /\ DestinationOnly
OnRelayResumed ==
  /\ FromHub("destination", "resumed")
  /\ LET g == Head(down["destination"]).n IN
     CASE ~RelayLives -> UNCHANGED <<rel, dgen, up>>
       [] RelayLives /\ g \in {dgen, dgen + 1} -> dgen' = g /\ UNCHANGED <<rel, up>>
       [] OTHER -> CloseRelay
  /\ UNCHANGED <<dst, peers>> /\ DestinationOnly

DestinationNoticesLink ==
  /\ ws["destination"] = "lost" /\ down["destination"] = <<>>
  /\ ws' = [ws EXCEPT !["destination"] = "down"]
  /\ UNCHANGED <<hub, source, destination, peers, conn, breaks, up, down, bytes>>

-----------------------------------------------------------------------------
(* The networks.                                                           *)

Prefixes(q) == {SubSeq(q, 1, k) : k \in 0..Len(q)}

\* A WebSocket breaks: of what is on its way only a prefix arrives.
Break(x) ==
  /\ breaks > 0 /\ ws[x] = "up" /\ breaks' = breaks - 1
  /\ ws' = [ws EXCEPT ![x] = "lost"] /\ conn' = [conn EXCEPT ![x] = "lost"]
  /\ \E u \in Prefixes(up[x]), d \in Prefixes(down[x]) :
       up' = [up EXCEPT ![x] = u] /\ down' = [down EXCEPT ![x] = d]
  /\ UNCHANGED <<hub, source, destination, peers, bytes>>

\* The worker is back; transportConnected reports a session, which the loss
\* has suspended.
Rejoin(x) ==
  /\ ws[x] = "down" /\ conn[x] = "down"
  /\ ws' = [ws EXCEPT ![x] = "up"] /\ conn' = [conn EXCEPT ![x] = "up"]
  /\ up' = [up EXCEPT ![x] = @ \o
       (CASE x = "source" /\ susp /\ ses # "closed" -> <<Note("resume", sgen)>>
          [] x = "destination" /\ RelayLives -> <<Note("resume", dgen)>>
          [] OTHER -> <<>>)]
  /\ UNCHANGED <<hub, source, destination, peers, breaks, down, bytes>>

ChannelBreaks ==
  /\ chan = "up" /\ chan' = "down"
  /\ UNCHANGED <<hub, source, destination, marker, pipe, links, up, down, bytes>>

-----------------------------------------------------------------------------
HubStep ==
  \/ OnOpen \/ OnReady \/ OnEstablished \/ OnCommitted \/ OnOpened \/ OnData
  \/ \E x \in Ends : OnResume(x) \/ OnFallback(x) \/ OnClosed(x) \/ OnTerminal(x) \/ HubNotices(x)

SourceStep ==
  \/ OnConnect \/ MarkerArrives \/ OnSourceCommit \/ OnSourceCancel \/ OnRelayOpened
  \/ OnSourceTerminal \/ OnSuspend \/ OnResumed \/ SourceNoticesChannel \/ SourceNoticesLink

DestinationStep ==
  \/ OnOffer \/ OnDestinationCommit \/ OnDestinationCancel \/ DestinationNoticesChannel
  \/ ReceiveByte \/ OnRelayOpen \/ OnRelayData \/ OnDestinationTerminal
  \/ OnRelaySuspend \/ OnRelayResumed \/ DestinationNoticesLink

Timers ==
  \/ TimerFires \/ RecoveryTimeout \/ DialFails \/ MarkerFails \/ SourceLifetime
  \/ TargetFails \/ RelayFails \/ OfferExpires \/ DestinationLifetime

Environment ==
  \/ DialSucceeds \/ ProcessEnds \/ Write \/ AcceptChannel
  \/ TargetConnects \/ TargetCloses \/ RelayConnects \/ ChannelBreaks
  \/ \E x \in Ends : Break(x) \/ Rejoin(x)

Next == HubStep \/ SourceStep \/ DestinationStep \/ Timers \/ Environment

Spec == Init /\ [][Next]_vars

\* Messages and closes are handled, every wait has its timer, and a worker
\* comes back.  No peer has to answer.
FairSpec ==
  /\ Spec /\ WF_vars(HubStep) /\ WF_vars(SourceStep) /\ WF_vars(DestinationStep)
  /\ WF_vars(TimerFires) /\ WF_vars(RecoveryTimeout) /\ WF_vars(DialFails)
  /\ WF_vars(MarkerFails) /\ WF_vars(SourceLifetime) /\ WF_vars(TargetFails)
  /\ WF_vars(RelayFails) /\ WF_vars(OfferExpires) /\ WF_vars(DestinationLifetime)
  /\ \A x \in Ends : WF_vars(Rejoin(x))

-----------------------------------------------------------------------------
\* The hub keeps a direct state exactly while it negotiates or is direct.
TypeOK ==
  /\ mode \in {"none", "negotiating", "relay", "direct", "suspended", "ended"}
  /\ direct \in {"null", "offered", "ready", "destination-committing", "committed"}
  /\ {opened, susp, deaf, marker} \subseteq BOOLEAN
  /\ ses \in {"negotiating", "direct", "relay", "closed"}
  /\ flow \in {"paused", "flowing", "destroyed"}
  /\ task \in {"idle", "dialing", "awaiting", "done"}
  /\ rec \in {"none", "open", "committed", "closed"}
  /\ dst \in {"none", "offered", "accepting", "open", "committed", "closed"}
  /\ rel \in {"none", "connecting", "open", "closed"}
  /\ chan \in {"none", "up", "down"}
  /\ pipe \in Seq(1..MaxBytes) /\ got \in Seq(1..MaxBytes) /\ sent \in 0..MaxBytes
  /\ ws \in [Ends -> {"up", "lost", "down"}] /\ conn \in [Ends -> {"up", "lost", "down"}]
  /\ up \in [Ends -> Seq(Messages)] /\ down \in [Ends -> Seq(Messages)]
  /\ breaks \in 0..MaxBreaks /\ gen \in Nat /\ sgen \in Nat /\ dgen \in Nat
  /\ reports \subseteq Ends
  /\ direct # "null" <=> mode \in {"negotiating", "direct"}

\* The source's record is released only after the destination's, so no byte
\* can reach a destination that would refuse it (handleRuntimeDirectEnvelope,
\* writeToSocket).
SourceFollowsDestination == rec = "committed" => dst \in {"committed", "closed"}

\* A socket the relay serves is never also released by a direct record: a late
\* answer of an abandoned negotiation commits nothing (startRuntimeRelay,
\* commit, onSourceCommitted).
OneRoute == ~(ses = "relay" /\ rec = "committed")

\* What the target was given is a prefix of what the process wrote, whichever
\* way the stream went: no byte is read before a route serves it (attachSocket,
\* abortProvisional, queueWrite).
BytesInOrder == \A i \in DOMAIN got : got[i] = i

\* The hub decides every negotiation, and a decision for the relay reaches the
\* source, whatever is lost: its session is served by the relay or closed
\* (the timers of the session, fallbackRuntimeStreamToRelay, handleClose,
\* the recovery timeout).  Only a stream that was suspended and resumed may
\* leave it negotiating: runtime.stream.opened is not sent again.
NegotiationIsDecided ==
  /\ mode = "negotiating" ~> mode # "negotiating"
  /\ mode = "relay" ~> ses \in {"relay", "closed"} \/ gen > 0

\* When the hub is done with a stream the records and the channel of its
\* direct route are released, however the negotiation was abandoned.
RouteIsReleased ==
  mode = "ended" ~> /\ rec \notin {"open", "committed"}
                    /\ dst \notin {"offered", "accepting", "open", "committed"}

\* A session does not negotiate forever: it is served or closed.  The code
\* allows otherwise: terminateRuntimeStream sends a negotiating source only
\* runtime.direct.cancel, which closes no session.
NegotiationSettles == ses = "negotiating" ~> ses # "negotiating"

\* A socket that the relay serves is paused by nobody but the relay.  The code
\* allows otherwise: cancel misses an attempt that is still dialling.
RelayIsUndisturbed ==
  [][ses = "relay" /\ flow = "flowing" /\ ~susp' => flow' # "paused"]_vars
=============================================================================
