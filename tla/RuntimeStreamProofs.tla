------------------------- MODULE RuntimeStreamProofs -------------------------
(***************************************************************************)
(* Proofs about RuntimeStream, for any bytes in both directions, any sizes *)
(* of pieces and buffers, and any number of losses.                        *)
(*                                                                         *)
(* IInv is the inductive invariant.  It says more when no WebSocket fails  *)
(* before the stream is open: then the source never reads a byte it drops, *)
(* and the two processes see a pipe (BytePipe).                            *)
(***************************************************************************)
EXTENDS RuntimeStream, TLAPS

\* The messages of a channel.
In(q) == {q[i] : i \in 1..Len(q)}

\* At most one of the messages of a channel opens the stream.
Once(q) == \A i, j \in 1..Len(q) : q[i].t = "open" /\ q[j].t = "open" => i = j
Opens(q) == \E m \in In(q) : m.t = "open"

Gens == 0..MaxGeneration
Chunk == [off : Nat, data : Seq(Nat)]
Report == [send : Int, acked : Int, recv : Int, from : Int]
Session == [st : {"none", "connecting", "open", "closed"}, opened : BOOLEAN, gen : Gens,
            send : Nat, acked : Nat, recv : Nat, replay : Seq(Chunk),
            susp : BOOLEAN, paused : BOOLEAN]
Hub == [st : {"none", "live", "gone"}, opened : BOOLEAN, gen : Gens, fwd : [Ends -> Nat],
        susp : BOOLEAN, reports : [Ends -> Report]]
Message ==
  [t : {"heartbeat", "goodbye"}]
    \union [t : {"opened", "suspend", "error"}, gen : Gens \union {-1}]
    \union [t : {"open"}, gen : Gens]
    \union [t : {"data"}, gen : Gens, off : Nat, data : Seq(Nat)]
    \union [t : {"ack", "end"}, gen : Gens, n : Nat]
    \union [t : {"resume"}, gen : Gens, report : Report]
    \union [t : {"resumed"}, gen : Gens, n : Int]

Types ==
  /\ s \in [Ends -> Session] /\ h \in Hub
  /\ ws \in [Ends -> {"up", "closing", "down", "joining"}]
  /\ conn \in [Ends -> {"pending", "ready", "closing", "down"}]
  /\ up \in [Ends -> Seq(Message)] /\ down \in [Ends -> Seq(Message)]
  /\ faults \in 0..Faults
  /\ read \in [Ends -> Nat] /\ got \in [Ends -> Seq(Nat)]
  /\ how \in [Ends -> {"running", "end", "ended", "error"}]

\* The stream is opened once: the source sends one open, the hub one.
OpenedOnce ==
  /\ Once(up["source"]) /\ Once(down["destination"])
  /\ ~Opens(up["destination"]) /\ ~Opens(down["source"])
  /\ Opens(up["source"]) => h.st = "none" /\ s["source"].st # "none"
  /\ Opens(down["destination"]) => h.st # "none" /\ s["destination"].st = "none"
  /\ h.st = "none" => s["destination"].st = "none"
  /\ s["source"].st = "none" => h.st = "none"

\* The replay buffer of session e: the chunks between what is acknowledged and
\* what was sent, in order and without a gap.
Buffer(e) ==
  LET r == e.replay IN
  /\ e.acked <= e.send /\ e.send - e.acked <= MaxReplay
  /\ \A i \in 1..Len(r) : Len(r[i].data) \in Sizes
  /\ Len(r) = 0 => e.acked = e.send
  /\ Len(r) > 0 => r[1].off = e.acked /\ ChunkEnd(r[Len(r)]) = e.send
  /\ \A i \in 1..Len(r) - 1 : ChunkEnd(r[i]) = r[i + 1].off
  /\ \A i, j \in 1..Len(r) : i < j => ChunkEnd(r[i]) <= r[j].off

\* Session e at x agrees with what its process wrote and was given, and it has
\* acknowledged only what the process at the other side has.
Agrees(e, x) ==
  /\ e.send <= read[x] /\ e.recv = Len(got[x])
  /\ e.acked <= Len(got[Peer(x)])

\* When no WebSocket fails while the stream opens, no byte is dropped, so the
\* offset of a byte says which it is.
Pipes == ~LossWhileOpening
Genuine(c) == c.data = Pipe!Bytes(c.off, Len(c.data))

\* A session that exists, one that does not, and what both have in common.
Live(e, x) ==
  /\ how[x] = "running" /\ Buffer(e) /\ Agrees(e, x) /\ (e.opened \/ x = "source")
  /\ Pipes => /\ e.send = read[x] /\ (e.opened \/ e.paused)
              /\ \A c \in In(e.replay) : Genuine(c)
Blank(e) == e.send = 0 /\ e.acked = 0 /\ e.recv = 0 /\ e.replay = <<>>
Local(x) ==
  /\ Len(got[x]) <= read[Peer(x)] /\ read[x] <= MaxBytes[x]
  /\ IF Exists(x) THEN Live(s[x], x) ELSE Blank(s[x])
  /\ s[x].st = "none" => how[x] = "running" /\ read[x] = 0 /\ got[x] = <<>> /\ ~s[x].opened
Sessions == \A x \in Ends : Local(x)

\* What a message on its way to x says of the process at the other side.
\* Before the source knows that the stream is open nothing is recovered.
Recovery == {"heartbeat", "goodbye", "suspend", "resume", "resumed"}
Tells(x, m) ==
  LET y == Peer(x) IN
  /\ m.t = "data" => Len(m.data) \in Sizes /\ ChunkEnd(m) <= read[y] /\ (Pipes => Genuine(m))
  /\ m.t \in {"ack", "resumed"} => m.n <= Len(got[y])
  /\ m.t = "end" => how[y] = "end" /\ m.n <= read[y] /\ (Pipes => m.n = read[y])
  /\ m.t = "resume" => m.report.recv \in 0..Len(got[y])
  /\ Pipes /\ ~s["source"].opened => m.t \notin Recovery
Told(x) == {m \in Message : Tells(x, m)}

Underway == \A x \in Ends : In(down[x]) \subseteq Told(x) /\ In(up[x]) \subseteq Told(Peer(x))

\* What the hub knows: how far it has forwarded, and the reports it was sent.
Relay ==
  \A x \in Ends :
    /\ h.fwd[x] <= read[x]
    /\ h.reports[x] = NoReport \/ h.reports[x].recv \in 0..Len(got[x])

\* Before the source knows that the stream is open nothing has failed.
Quiet ==
  Pipes /\ ~s["source"].opened =>
    ~h.susp /\ \A x \in Ends : ws[x] = "up" /\ conn[x] = "ready"

IInv == Types /\ OpenedOnce /\ Sessions /\ Underway /\ Relay /\ Quiet

\* All of it but Quiet, which has a proof of its own, after a step.
Kept == Types' /\ OpenedOnce' /\ Sessions' /\ Underway' /\ Relay'

\* Channel q comes from p by receipts and losses, and by sends of messages of N,
\* none of which opens the stream.
Goes(p, q, N) ==
  /\ q \in Seq(Message) /\ In(q) \subseteq In(p) \union N
  /\ (Once(p) => Once(q)) /\ (Opens(q) => Opens(p))

\* The four channels after a step.
Flows ==
  /\ up' \in [Ends -> Seq(Message)] /\ down' \in [Ends -> Seq(Message)]
  /\ \A x \in Ends : Goes(up[x], up'[x], Told(Peer(x))') /\ Goes(down[x], down'[x], Told(x)')

\* The processes write and read more, and what is closed or opened stays so.
Grows ==
  /\ \A x \in Ends :
       /\ read[x] <= read'[x] /\ Len(got[x]) <= Len(got'[x])
       /\ how[x] = "end" => how'[x] = "end" /\ read'[x] = read[x]
  /\ s["source"].opened => s'["source"].opened

\* What the tunnel does with a message of the hub, one kind at a time.
Receipt(x) ==
  /\ down[x] # <<>> /\ down' = [down EXCEPT ![x] = Tail(@)]
  /\ UNCHANGED <<h, world, read>>

\* What a handler of the hub leaves.
Handled ==
  /\ h' \in Hub /\ (h'.st = "none" <=> h.st = "none") /\ down' \in [Ends -> Seq(Message)]
  /\ \A x \in Ends : /\ Goes(down[x], down'[x], Told(x)) /\ h'.fwd[x] <= read[x]
                     /\ h'.reports[x] = NoReport \/ h'.reports[x].recv \in 0..Len(got[x])

-----------------------------------------------------------------------------
(* Channels *)

\* The messages of a channel after a send.
LEMMA InConcat ==
    ASSUME NEW S, NEW p \in Seq(S), NEW q \in Seq(S)
    PROVE  p \o q \in Seq(S) /\ In(p \o q) = In(p) \union In(q)
<1>1. p \o q \in Seq(S) /\ Len(p \o q) = Len(p) + Len(q)
  OBVIOUS
<1>2. ASSUME NEW i \in 1..(Len(p) + Len(q))
      PROVE  (p \o q)[i] \in In(p) \union In(q)
  <2>1. CASE i <= Len(p)
    BY <2>1, (p \o q)[i] = p[i] DEF In
  <2>2. CASE i > Len(p)
    BY <2>2, (p \o q)[i] = q[i - Len(p)], i - Len(p) \in 1..Len(q) DEF In
  <2> QED BY <2>1, <2>2
<1>3. ASSUME NEW i \in 1..Len(p)
      PROVE  p[i] \in In(p \o q)
  BY <1>1, (p \o q)[i] = p[i], i \in 1..(Len(p) + Len(q)) DEF In
<1>4. ASSUME NEW i \in 1..Len(q)
      PROVE  q[i] \in In(p \o q)
  BY <1>1, (p \o q)[Len(p) + i] = q[i], Len(p) + i \in 1..(Len(p) + Len(q)) DEF In
<1>5. In(p \o q) \subseteq In(p) \union In(q)
  <2>1. ASSUME NEW m \in In(p \o q)
        PROVE  m \in In(p) \union In(q)
    <3>1. PICK i \in 1..Len(p \o q) : m = (p \o q)[i]
      BY <2>1 DEF In
    <3> QED BY <1>1, <1>2, <3>1
  <2> QED BY <2>1
<1>6. In(p) \subseteq In(p \o q) /\ In(q) \subseteq In(p \o q)
  BY <1>3, <1>4, Zenon DEF In
<1> QED BY Zenon, <1>1, <1>5, <1>6

\* The messages of a channel after a loss.
LEMMA InPrefix ==
    ASSUME NEW S, NEW q \in Seq(S), NEW p \in Prefixes(q)
    PROVE  /\ p \in Seq(S) /\ In(p) \subseteq In(q)
           /\ Len(p) \in Nat /\ Len(p) <= Len(q) /\ \A i \in 1..Len(p) : p[i] = q[i]
<1>1. PICK k \in 0..Len(q) : p = SubSeq(q, 1, k)
  BY DEF Prefixes
<1>2. p \in Seq(S) /\ Len(p) = k /\ \A i \in 1..k : p[i] = q[i]
  BY <1>1
<1>3. k \in Nat /\ k <= Len(q) /\ 1..k \subseteq 1..Len(q)
  OBVIOUS
<1> QED BY <1>2, <1>3 DEF In

\* A channel that opens the stream at most once goes on doing so.
LEMMA OnceKept ==
    ASSUME NEW q \in Seq(Message), Once(q)
    PROVE  /\ \A ms \in Seq(Message) : ~Opens(ms) => Once(q \o ms)
           /\ \A m \in Message : ~Opens(q) => Once(q \o <<m>>)
           /\ q # <<>> => Once(Tail(q)) /\ (Head(q).t = "open" => ~Opens(Tail(q)))
           /\ \A p \in Prefixes(q) : Once(p)
<1>1. ASSUME NEW ms \in Seq(Message), ~Opens(ms)
      PROVE  Once(q \o ms)
  <2>1. ASSUME NEW i \in 1..Len(q \o ms), (q \o ms)[i].t = "open"
        PROVE  i \in 1..Len(q) /\ (q \o ms)[i] = q[i]
    <3>1. CASE i > Len(q)
      <4>1. i - Len(q) \in 1..Len(ms) /\ (q \o ms)[i] = ms[i - Len(q)]
        BY <3>1
      <4> QED BY <1>1, <2>1, <4>1 DEF Opens, In
    <3> QED BY <3>1
  <2> QED BY <2>1 DEF Once
<1>2. ASSUME NEW m \in Message, ~Opens(q)
      PROVE  Once(q \o <<m>>)
  <2>1. ASSUME NEW i \in 1..Len(q \o <<m>>), (q \o <<m>>)[i].t = "open"
        PROVE  i = Len(q) + 1
    <3>1. CASE i <= Len(q)
      <4>1. i \in 1..Len(q) /\ (q \o <<m>>)[i] = q[i]
        BY <3>1
      <4> QED BY <1>2, <2>1, <4>1 DEF Opens, In
    <3> QED BY <3>1
  <2> QED BY <2>1 DEF Once
<1>3. ASSUME q # <<>>
      PROVE  Once(Tail(q)) /\ (Head(q).t = "open" => ~Opens(Tail(q)))
  <2>1. /\ Len(q) \in Nat /\ Head(q) = q[1] /\ Len(Tail(q)) = Len(q) - 1 /\ 1 \in 1..Len(q)
        /\ \A i \in 1..(Len(q) - 1) : Tail(q)[i] = q[i + 1] /\ i + 1 \in 1..Len(q)
    BY <1>3
  <2>2. Once(Tail(q))
    BY <2>1 DEF Once
  <2>3. ASSUME Head(q).t = "open", NEW m \in In(Tail(q)), m.t = "open"
        PROVE  FALSE
    <3>1. PICK i \in 1..(Len(q) - 1) : m = q[i + 1]
      BY <2>1, <2>3 DEF In
    <3> QED BY <2>1, <2>3, <3>1 DEF Once
  <2> QED BY <2>2, <2>3 DEF Opens
<1>4. ASSUME NEW p \in Prefixes(q)
      PROVE  Once(p)
  <2>1. /\ Len(p) \in Nat /\ Len(q) \in Nat /\ Len(p) <= Len(q)
        /\ \A i \in 1..Len(p) : p[i] = q[i]
    BY <1>4, InPrefix
  <2> QED BY <2>1 DEF Once
<1> QED BY <1>1, <1>2, <1>3, <1>4

\* The messages of a channel after a receipt.
LEMMA InTail ==
    ASSUME NEW S, NEW q \in Seq(S), q # <<>>
    PROVE  /\ Head(q) \in In(q) /\ Head(q) = q[1] /\ Tail(q) \in Seq(S)
           /\ Len(q) \in Nat /\ Len(q) >= 1 /\ Len(Tail(q)) = Len(q) - 1
           /\ \A i \in 1..(Len(q) - 1) : Tail(q)[i] = q[i + 1]
           /\ In(Tail(q)) \subseteq In(q)
<1>1. Head(q) = q[1] /\ Tail(q) \in Seq(S) /\ Len(q) \in Nat /\ Len(q) >= 1
      /\ Len(Tail(q)) = Len(q) - 1
  OBVIOUS
<1>2. \A i \in 1..(Len(q) - 1) : Tail(q)[i] = q[i + 1]
  OBVIOUS
<1>3. Head(q) \in In(q)
  BY <1>1 DEF In
<1>4. ASSUME NEW m \in In(Tail(q))
      PROVE  m \in In(q)
  <2>1. PICK i \in 1..(Len(q) - 1) : m = Tail(q)[i]
    BY <1>1, <1>4 DEF In
  <2> QED BY <1>1, <1>2, <2>1, i + 1 \in 1..Len(q) DEF In
<1> QED BY <1>1, <1>2, <1>3, <1>4

LEMMA GoesFacts ==
    ASSUME NEW p \in Seq(Message)
    PROVE  /\ Goes(p, p, {}) /\ Goes(p, <<>>, {})
           /\ p # <<>> => Goes(p, Tail(p), {})
           /\ \A q \in Prefixes(p) : Goes(p, q, {})
           /\ \A ms \in Seq(Message) : ~Opens(ms) => Goes(p, p \o ms, In(ms))
<1>1. Goes(p, p, {})
  BY Zenon DEF Goes
<1>2. In(<<>>) = {} /\ <<>> \in Seq(Message) /\ Len(<<>>) = 0
  BY DEF In
<1>3. Goes(p, <<>>, {})
  <2>1. Once(<<>>)
    BY <1>2 DEF Once
  <2> QED BY <1>2, <2>1, Zenon DEF Goes, Opens
<1>4. ASSUME p # <<>> PROVE Goes(p, Tail(p), {})
  BY <1>4, InTail, OnceKept, Zenon DEF Goes, Opens
<1>5. ASSUME NEW q \in Prefixes(p) PROVE Goes(p, q, {})
  BY <1>5, InPrefix, OnceKept, Zenon DEF Goes, Opens
<1>6. ASSUME NEW ms \in Seq(Message), ~Opens(ms) PROVE Goes(p, p \o ms, In(ms))
  <2>1. p \o ms \in Seq(Message) /\ In(p \o ms) = In(p) \union In(ms)
    BY InConcat, Zenon
  <2>2. Once(p) => Once(p \o ms)
    BY <1>6, OnceKept, Zenon
  <2>3. Opens(p \o ms) => Opens(p)
    BY <1>6, <2>1, Zenon DEF Opens
  <2> QED BY <2>1, <2>2, <2>3, Zenon DEF Goes
<1> QED BY Zenon, <1>1, <1>3, <1>4, <1>5, <1>6

LEMMA GoesMore ==
    ASSUME NEW p, NEW q, NEW M, NEW N, Goes(p, q, M), M \subseteq N
    PROVE  Goes(p, q, N)
BY Zenon DEF Goes

\* What sendEnvelope does to a channel.
LEMMA SendEffect ==
    ASSUME Types, NEW x \in Ends, NEW ms \in Seq(Message), ~Opens(ms), SendEnvelopes(x, ms)
    PROVE  \E q : up' = [up EXCEPT ![x] = q] /\ Goes(up[x], q, In(ms))
<1>1. up[x] \in Seq(Message) /\ up = [up EXCEPT ![x] = up[x]]
  BY Zenon DEF Types
<1>2. Goes(up[x], up[x] \o ms, In(ms)) /\ Goes(up[x], up[x], {})
  BY <1>1, GoesFacts, Zenon
<1>3. Goes(up[x], up[x], In(ms))
  BY <1>2, Zenon DEF Goes
<1>4. CASE CanSend(x) /\ conn[x] # "down"
  <2>1. up' = [up EXCEPT ![x] = up[x] \o ms]
    BY <1>4, Zenon DEF SendEnvelopes
  <2> QED BY <1>2, <2>1, Zenon
<1>5. CASE ~(CanSend(x) /\ conn[x] # "down")
  <2>1. up' = up
    BY <1>5, Zenon DEF SendEnvelopes
  <2> QED BY <1>1, <1>3, <2>1, Zenon
<1> QED BY <1>4, <1>5, Zenon

\* An empty channel and one with a single message.
LEMMA InShort ==
    ASSUME NEW m
    PROVE  In(<<>>) = {} /\ In(<<m>>) = {m}
BY DEF In

LEMMA InOneMore ==
    ASSUME NEW S, NEW p \in Seq(S), NEW m \in S, NEW r, r = <<m>>
    PROVE  p \o r \in Seq(S) /\ In(p \o r) = In(p) \union {m}
<1> DEFINE q == <<m>>
<1>1. q \in Seq(S) /\ In(q) = {m}
  BY InShort
<1> HIDE DEF q
<1>2. p \o q \in Seq(S) /\ In(p \o q) = In(p) \union In(q)
  <2>1. q \in Seq(S)
    BY <1>1, Zenon
  <2> QED BY <2>1, InConcat, Zenon
<1>3. p \o q \in Seq(S) /\ In(p \o q) = In(p) \union {m}
  BY <1>1, <1>2, Zenon
<1> QED BY <1>3, Zenon DEF q

-----------------------------------------------------------------------------
(* Sessions and messages *)

LEMMA PeerFacts ==
    ASSUME NEW x \in Ends
    PROVE  Peer(x) \in Ends /\ Peer(x) # x /\ Peer(Peer(x)) = x /\ \A y \in Ends : y = x \/ y = Peer(x)
BY DEF Peer, Ends

LEMMA SessionFields ==
    ASSUME NEW e \in Session
    PROVE  /\ e.st \in {"none", "connecting", "open", "closed"} /\ e.gen \in Gens
           /\ e.opened \in BOOLEAN /\ e.susp \in BOOLEAN /\ e.paused \in BOOLEAN
           /\ e.send \in Nat /\ e.acked \in Nat /\ e.recv \in Nat
           /\ e.replay \in Seq(Chunk) /\ Len(e.replay) \in Nat
           /\ DOMAIN e.replay = 1..Len(e.replay) /\ \A i \in 1..Len(e.replay) : e.replay[i] \in Chunk
<1>1. e.replay \in Seq(Chunk)
  BY Zenon DEF Session
<1> QED BY <1>1 DEF Session

\* The fields of a piece, of a session and of the hub's session.
LEMMA ChunkFields ==
    ASSUME NEW c \in Chunk
    PROVE  /\ c.off \in Nat /\ c.data \in Seq(Nat) /\ Len(c.data) \in Nat
           /\ ChunkEnd(c) = c.off + Len(c.data) /\ ChunkEnd(c) \in Nat
BY DEF Chunk, ChunkEnd

\* What the pieces of a buffer are between.
LEMMA BufferFacts ==
    ASSUME NEW e \in Session, Buffer(e)
    PROVE  /\ BufferedFrom(e) = e.acked /\ ReplayBytes(e) = e.send - e.acked
           /\ \A c \in In(e.replay) : /\ c \in Chunk /\ Len(c.data) \in Sizes
                                      /\ e.acked <= c.off /\ ChunkEnd(c) <= e.send
           /\ Boundaries(e) \subseteq Nat /\ \A n \in Boundaries(e) : n <= e.send
<1> DEFINE r == e.replay
<1>1. /\ r \in Seq(Chunk) /\ e.send \in Nat /\ e.acked \in Nat
      /\ \A i \in 1..Len(r) : r[i] \in Chunk /\ r[i].off \in Nat /\ Len(r[i].data) \in Nat
           /\ ChunkEnd(r[i]) = r[i].off + Len(r[i].data)
  BY SessionFields, ChunkFields, Zenon
<1>2. \A i \in 1..Len(r) : Len(r[i].data) \in Sizes /\ Len(r[i].data) >= 1
  BY StreamConstants DEF Buffer
<1>3. ASSUME NEW i \in 1..Len(r)
      PROVE  e.acked <= r[i].off /\ ChunkEnd(r[i]) <= e.send
  <2>1. /\ r[1].off = e.acked /\ ChunkEnd(r[Len(r)]) = e.send
        /\ 1 \in 1..Len(r) /\ Len(r) \in 1..Len(r)
    BY <1>1 DEF Buffer
  <2>2. \A j, k \in 1..Len(r) : j < k => ChunkEnd(r[j]) <= r[k].off
    BY Zenon DEF Buffer
  <2>3. i = 1 \/ ChunkEnd(r[1]) <= r[i].off
    BY <2>1, <2>2
  <2>4. i = Len(r) \/ ChunkEnd(r[i]) <= r[Len(r)].off
    BY <2>1, <2>2
  <2> DEFINE OK(c) == /\ c.off \in Nat /\ Len(c.data) \in Nat /\ Len(c.data) >= 1
                      /\ ChunkEnd(c) = c.off + Len(c.data)
  <2>5. OK(r[1]) /\ OK(r[i]) /\ OK(r[Len(r)])
    BY <1>1, <1>2, <2>1, Zenon
  <2>6. e.acked <= r[i].off
    BY <2>1, <2>3, <2>5
  <2>7. ChunkEnd(r[i]) <= e.send
    <3>1. CASE i = Len(r)
      <4>1. ChunkEnd(r[i]) = e.send
        BY <2>1, <3>1, Zenon
      <4> QED BY <1>1, <4>1
    <3>2. CASE i # Len(r)
      <4>1. ChunkEnd(r[i]) <= r[Len(r)].off
        BY <2>4, <3>2, Zenon
      <4>2. \A a, b, k \in Nat : a <= b => a <= b + k
        OBVIOUS
      <4>3. ChunkEnd(r[i]) \in Nat
        <5>1. \A a, b \in Nat : a + b \in Nat
          OBVIOUS
        <5> QED BY <2>5, <5>1, Zenon
      <4> QED BY <2>1, <2>5, <4>1, <4>2, <4>3, Zenon
    <3> QED BY <3>1, <3>2, Zenon
  <2> QED BY <2>6, <2>7
<1>4. \A c \in In(r) : /\ c \in Chunk /\ Len(c.data) \in Sizes
                       /\ e.acked <= c.off /\ ChunkEnd(c) <= e.send
  BY <1>1, <1>2, <1>3, Zenon DEF In
<1>5. BufferedFrom(e) = e.acked /\ ReplayBytes(e) = e.send - e.acked
  <2>1. CASE r = <<>>
    BY <1>1, <2>1 DEF BufferedFrom, ReplayBytes, Buffer
  <2>2. CASE r # <<>>
    <3>1. Head(r) = r[1] /\ Len(r) > 0
      BY <1>1, <2>2
    <3> QED BY <2>2, <3>1 DEF BufferedFrom, ReplayBytes, Buffer
  <2> QED BY <2>1, <2>2
<1>6. DOMAIN r = 1..Len(r)
  BY <1>1
<1>7. \A i \in 1..Len(r) : r[i].off \in Nat /\ r[i].off <= e.send
  BY <1>1, <1>3
<1> QED BY <1>1, <1>4, <1>5, <1>6, <1>7 DEF Boundaries

\* The fields of a message.
LEMMA MessageFields ==
    ASSUME NEW m \in Message
    PROVE  /\ m.t \in {"heartbeat", "goodbye", "opened", "suspend", "error", "open", "data",
                       "ack", "end", "resume", "resumed"}
           /\ m.t \notin {"heartbeat", "goodbye"} => m.gen \in Gens \union {-1}
           /\ m.t \notin {"heartbeat", "goodbye", "opened", "suspend", "error"} => m.gen \in Gens
           /\ m.t = "data" => /\ m.off \in Nat /\ m.data \in Seq(Nat) /\ Len(m.data) \in Nat
                              /\ ChunkEnd(m) = m.off + Len(m.data) /\ ChunkEnd(m) \in Nat
           /\ m.t \in {"ack", "end"} => m.n \in Nat
           /\ m.t = "resumed" => m.n \in Int
           /\ m.t = "resume" => m.report \in Report
<1>1. CASE m \in [t : {"heartbeat", "goodbye"}]
  BY <1>1
<1>2. CASE m \in [t : {"opened", "suspend", "error"}, gen : Gens \union {-1}]
  BY <1>2
<1>3. CASE m \in [t : {"open"}, gen : Gens]
  BY <1>3
<1>4. CASE m \in [t : {"data"}, gen : Gens, off : Nat, data : Seq(Nat)]
  BY <1>4 DEF ChunkEnd
<1>5. CASE m \in [t : {"ack", "end"}, gen : Gens, n : Nat]
  BY <1>5
<1>6. CASE m \in [t : {"resume"}, gen : Gens, report : Report]
  BY <1>6
<1>7. CASE m \in [t : {"resumed"}, gen : Gens, n : Int]
  BY <1>7
<1> QED BY Zenon, <1>1, <1>2, <1>3, <1>4, <1>5, <1>6, <1>7 DEF Message

\* What a message says goes on being so while the processes write and read more,
\* and a stream that was opened stays so.
LEMMA TellsKept ==
    ASSUME Types, Types', NEW x \in Ends,
           read[Peer(x)] <= read'[Peer(x)], Len(got[Peer(x)]) <= Len(got'[Peer(x)]),
           how[Peer(x)] = "end" => how'[Peer(x)] = "end" /\ read'[Peer(x)] = read[Peer(x)],
           s["source"].opened => s'["source"].opened
    PROVE  Told(x) \subseteq Told(x)'
<1> DEFINE y == Peer(x)
<1>1. y \in Ends
  BY DEF Peer, Ends
<1>2. /\ read[y] \in Nat /\ read'[y] \in Nat /\ got[y] \in Seq(Nat) /\ got'[y] \in Seq(Nat)
  BY <1>1, Zenon DEF Types
<1>3. Len(got[y]) \in Nat /\ Len(got'[y]) \in Nat
  BY <1>2
<1>4. ASSUME NEW m \in Message, Tells(x, m)
      PROVE  Tells(x, m)'
  <2> HIDE DEF y
  <2>0. m.t = "data" => ChunkEnd(m) \in Nat
    BY MessageFields, Zenon
  <2>1. m.t = "data" => Len(m.data) \in Sizes /\ ChunkEnd(m) <= read'[y] /\ (Pipes => Genuine(m))
    BY <1>2, <1>4, <2>0 DEF Tells, y
  <2>2. m.t \in {"ack", "resumed"} => m.n <= Len(got'[y])
    <3>1. m.t \in {"ack", "resumed"} => m.n \in Int
      BY MessageFields
    <3> QED BY <1>3, <1>4, <3>1 DEF Tells, y
  <2>3. m.t = "end" => how'[y] = "end" /\ m.n <= read'[y] /\ (Pipes => m.n = read'[y])
    <3>1. m.t = "end" => m.n \in Nat
      BY MessageFields
    <3> QED BY <1>2, <1>4, <3>1 DEF Tells, y
  <2>4. m.t = "resume" => m.report.recv \in 0..Len(got'[y])
    BY <1>3, <1>4 DEF Tells, y
  <2>5. Pipes /\ ~s'["source"].opened => m.t \notin Recovery
    BY <1>4, Zenon DEF Tells
  <2> QED BY Zenon, <2>1, <2>2, <2>3, <2>4, <2>5 DEF Tells, y
<1> QED BY <1>4, Zenon DEF Told

\* The messages the tunnels and the hub make.
LEMMA MessagesMade ==
    /\ Heartbeat \in Message /\ Heartbeat.t = "heartbeat"
    /\ Goodbye \in Message /\ Goodbye.t = "goodbye"
    /\ \A g \in Gens \union {-1} : \A k \in {"opened", "suspend", "error"} :
         Msg(k, g) \in Message /\ Msg(k, g).t = k
    /\ \A g \in Gens : Msg("open", g) \in Message /\ Msg("open", g).t = "open"
    /\ \A g \in Gens : \A c \in Chunk :
         /\ Data(g, c) \in Message /\ Data(g, c).t = "data"
         /\ Data(g, c).off = c.off /\ Data(g, c).data = c.data
    /\ \A g \in Gens : \A n \in Nat :
         /\ Ack(g, n) \in Message /\ Ack(g, n).t = "ack" /\ Ack(g, n).n = n
         /\ End(g, n) \in Message /\ End(g, n).t = "end" /\ End(g, n).n = n
    /\ \A g \in Gens : \A r \in Report :
         Resume(g, r) \in Message /\ Resume(g, r).t = "resume" /\ Resume(g, r).report = r
    /\ \A g \in Gens : \A n \in Int :
         Resumed(g, n) \in Message /\ Resumed(g, n).t = "resumed" /\ Resumed(g, n).n = n
<1>1. Heartbeat \in Message /\ Heartbeat.t = "heartbeat" /\ Goodbye \in Message /\ Goodbye.t = "goodbye"
  BY DEF Heartbeat, Goodbye, Message
<1>2. \A g \in Gens \union {-1} : \A k \in {"opened", "suspend", "error"} :
        Msg(k, g) \in Message /\ Msg(k, g).t = k
  BY DEF Msg, Message
<1>3. \A g \in Gens : Msg("open", g) \in Message /\ Msg("open", g).t = "open"
  BY DEF Msg, Message
<1>4. ASSUME NEW g \in Gens, NEW c \in Chunk
      PROVE  /\ Data(g, c) \in Message /\ Data(g, c).t = "data"
             /\ Data(g, c).off = c.off /\ Data(g, c).data = c.data
  <2>1. c.off \in Nat /\ c.data \in Seq(Nat)
    BY ChunkFields, Zenon
  <2>2. Data(g, c) \in [t : {"data"}, gen : Gens, off : Nat, data : Seq(Nat)]
    BY <2>1, Zenon DEF Data
  <2> QED BY <2>2, Zenon DEF Data, Message
<1>5. \A g \in Gens : \A n \in Nat :
        /\ Ack(g, n) \in Message /\ Ack(g, n).t = "ack" /\ Ack(g, n).n = n
        /\ End(g, n) \in Message /\ End(g, n).t = "end" /\ End(g, n).n = n
  BY DEF Ack, End, Message
<1>6. \A g \in Gens : \A r \in Report :
        Resume(g, r) \in Message /\ Resume(g, r).t = "resume" /\ Resume(g, r).report = r
  BY Zenon DEF Resume, Message
<1>7. \A g \in Gens : \A n \in Int :
        Resumed(g, n) \in Message /\ Resumed(g, n).t = "resumed" /\ Resumed(g, n).n = n
  BY DEF Resumed, Message
<1> QED BY Zenon, <1>1, <1>2, <1>3, <1>4, <1>5, <1>6, <1>7

\* The same for each kind of message that most handlers make.
LEMMA PlainMade ==
    ASSUME NEW g \in Gens
    PROVE  /\ Msg("opened", g) \in Message /\ Msg("opened", g).t = "opened"
           /\ Msg("suspend", g) \in Message /\ Msg("suspend", g).t = "suspend"
           /\ Msg("error", g) \in Message /\ Msg("error", g).t = "error"
           /\ Msg("open", g) \in Message /\ Msg("open", g).t = "open"
<1>1. g \in Gens \union {-1}
  BY Zenon
<1>2. \A k \in {"opened", "suspend", "error"} : Msg(k, g) \in Message /\ Msg(k, g).t = k
  BY <1>1, MessagesMade, Zenon
<1>3. Msg("open", g) \in Message /\ Msg("open", g).t = "open"
  BY MessagesMade, Zenon
<1> QED BY <1>2, <1>3, Zenon

LEMMA BytesMade ==
    ASSUME NEW g \in Gens, NEW c \in Chunk
    PROVE  Data(g, c) \in Message /\ Data(g, c).t = "data"
BY MessagesMade, Zenon

LEMMA ResumedMade ==
    ASSUME NEW g \in Gens, NEW n \in Int
    PROVE  Resumed(g, n) \in Message /\ Resumed(g, n).t = "resumed"
BY MessagesMade, Zenon

\* A list of one message, or of none.
LEMMA ShortList ==
    /\ \A m \in Message : <<m>> \in Seq(Message) /\ In(<<m>>) = {m} /\ (Opens(<<m>>) <=> m.t = "open")
    /\ <<>> \in Seq(Message) /\ In(<<>>) = {} /\ ~Opens(<<>>)
<1>1. ASSUME NEW m \in Message PROVE <<m>> \in Seq(Message) /\ In(<<m>>) = {m}
  BY InShort
<1>2. <<>> \in Seq(Message) /\ In(<<>>) = {}
  BY DEF In
<1> QED BY <1>1, <1>2, Zenon DEF Opens

\* Which of the messages a tunnel sends are told truly to the other side.
LEMMA TunnelTells ==
    ASSUME NEW x \in Ends
    PROVE  /\ \A m \in Message : m.t \in {"opened", "error"} => m \in Told(Peer(x))'
           /\ \A g \in Gens : \A c \in Chunk :
                /\ Len(c.data) \in Sizes /\ ChunkEnd(c) <= read'[x] /\ (Pipes => Genuine(c))
                => Data(g, c) \in Told(Peer(x))'
           /\ \A g \in Gens : \A n \in Nat : n <= Len(got'[x]) => Ack(g, n) \in Told(Peer(x))'
           /\ \A g \in Gens : \A n \in Nat :
                how'[x] = "end" /\ n <= read'[x] /\ (Pipes => n = read'[x]) => End(g, n) \in Told(Peer(x))'
           /\ \A g \in Gens : \A r \in Report :
                r.recv \in 0..Len(got'[x]) /\ (Pipes => s'["source"].opened)
                => Resume(g, r) \in Told(Peer(x))'
<1>1. Peer(Peer(x)) = x
  BY PeerFacts, Zenon
<1>2. ASSUME NEW m \in Message, m.t \in {"opened", "error"} PROVE m \in Told(Peer(x))'
  BY <1>2 DEF Told, Tells, Recovery
<1>3. ASSUME NEW g \in Gens, NEW c \in Chunk, Len(c.data) \in Sizes, ChunkEnd(c) <= read'[x],
             Pipes => Genuine(c)
      PROVE  Data(g, c) \in Told(Peer(x))'
  <2> DEFINE m == Data(g, c)
  <2>1. m \in Message /\ m.t = "data" /\ m.off = c.off /\ m.data = c.data
    BY MessagesMade
  <2>2. ChunkEnd(m) = ChunkEnd(c) /\ (Genuine(c) => Genuine(m))
    BY <2>1, Zenon DEF ChunkEnd, Genuine
  <2> HIDE DEF m
  <2>3. Tells(Peer(x), m)'
    BY <1>1, <1>3, <2>1, <2>2 DEF Tells, Recovery
  <2> QED BY <2>1, <2>3, Zenon DEF Told, m
<1>4. ASSUME NEW g \in Gens, NEW n \in Nat, n <= Len(got'[x])
      PROVE  Ack(g, n) \in Told(Peer(x))'
  <2> DEFINE m == Ack(g, n)
  <2>1. m \in Message /\ m.t = "ack" /\ m.n = n
    BY MessagesMade, Zenon
  <2> HIDE DEF m
  <2>3. Tells(Peer(x), m)'
    BY <1>1, <1>4, <2>1 DEF Tells, Recovery
  <2> QED BY <2>1, <2>3, Zenon DEF Told, m
<1>5. ASSUME NEW g \in Gens, NEW n \in Nat, how'[x] = "end", n <= read'[x], Pipes => n = read'[x]
      PROVE  End(g, n) \in Told(Peer(x))'
  <2> DEFINE m == End(g, n)
  <2>1. m \in Message /\ m.t = "end" /\ m.n = n
    BY MessagesMade, Zenon
  <2> HIDE DEF m
  <2>3. Tells(Peer(x), m)'
    BY <1>1, <1>5, <2>1 DEF Tells, Recovery
  <2> QED BY <2>1, <2>3, Zenon DEF Told, m
<1>6. ASSUME NEW g \in Gens, NEW r \in Report, r.recv \in 0..Len(got'[x]), Pipes => s'["source"].opened
      PROVE  Resume(g, r) \in Told(Peer(x))'
  <2> DEFINE m == Resume(g, r)
  <2>1. m \in Message /\ m.t = "resume" /\ m.report = r
    BY MessagesMade, Zenon
  <2> HIDE DEF m
  <2>3. Tells(Peer(x), m)'
    BY <1>1, <1>6, <2>1 DEF Tells, Recovery
  <2> QED BY <2>1, <2>3, Zenon DEF Told, m
<1> QED BY Zenon, <1>2, <1>3, <1>4, <1>5, <1>6

\* The report a side sends says how much its process has.
LEMMA ResumeStateTells ==
    ASSUME NEW x \in Ends, NEW e \in Session, Buffer(e), e.recv = Len(got'[x]),
           Pipes => s'["source"].opened
    PROVE  ResumeState(e) \in Told(Peer(x))' /\ ResumeState(e).t = "resume"
<1> DEFINE r == [send |-> e.send, acked |-> e.acked, recv |-> e.recv, from |-> BufferedFrom(e)]
<1>1. e.gen \in Gens /\ e.send \in Nat /\ e.acked \in Nat /\ e.recv \in Nat /\ BufferedFrom(e) \in Nat
  BY SessionFields, BufferFacts, Zenon
<1>2. r \in Report /\ r.recv = e.recv
  BY <1>1 DEF Report
<1>3. ResumeState(e) = Resume(e.gen, r)
  BY Zenon DEF ResumeState
<1> HIDE DEF r
<1>4. r.recv \in 0..Len(got'[x])
  BY <1>1, <1>2
<1>5. Resume(e.gen, r) \in Told(Peer(x))'
  BY <1>1, <1>2, <1>4, TunnelTells, Zenon
<1>6. Resume(e.gen, r).t = "resume"
  BY Zenon DEF Resume
<1> QED BY <1>3, <1>5, <1>6, Zenon

-----------------------------------------------------------------------------
(* What the invariant says of a session and of a channel *)

LEMMA TypesFacts ==
    ASSUME Types, NEW x \in Ends
    PROVE  /\ s[x] \in Session /\ h \in Hub
           /\ up[x] \in Seq(Message) /\ down[x] \in Seq(Message)
           /\ read[x] \in Nat /\ got[x] \in Seq(Nat) /\ Len(got[x]) \in Nat
<1>1. /\ s[x] \in Session /\ h \in Hub /\ up[x] \in Seq(Message) /\ down[x] \in Seq(Message)
      /\ read[x] \in Nat /\ got[x] \in Seq(Nat)
  BY Zenon DEF Types
<1>2. Len(got[x]) \in Nat
  BY <1>1
<1> QED BY <1>1, <1>2, Zenon

LEMMA UnderwayKept ==
    ASSUME Types, Types', Underway, Flows, Grows
    PROVE  Underway'
<1>1. \A x \in Ends : Told(x) \subseteq Told(x)'
  BY TellsKept, PeerFacts, Zenon DEF Grows
<1>2. \A x \in Ends : Peer(x) \in Ends
  BY PeerFacts, Zenon
<1> QED BY <1>1, <1>2, Zenon DEF Underway, Flows, Goes

\* The stream is opened once, whatever else happens.
LEMMA OpenedOnceKept ==
    ASSUME OpenedOnce, Flows,
           \A x \in Ends : s'[x].st = "none" <=> s[x].st = "none",
           h'.st = "none" <=> h.st = "none"
    PROVE  OpenedOnce'
<1>1. "source" \in Ends /\ "destination" \in Ends
  BY DEF Ends
<1> QED BY <1>1, Zenon DEF OpenedOnce, Flows, Goes

\* What is known of a session that exists.
LEMMA LiveFacts ==
    ASSUME IInv, NEW x \in Ends
    PROVE  /\ Types /\ s[x] \in Session /\ Local(x)
           /\ Exists(x) => /\ s[x].st \in {"connecting", "open"} /\ s[x].st # "none"
                           /\ Live(s[x], x) /\ Buffer(s[x]) /\ how[x] = "running"
<1>1. Types /\ Local(x)
  BY Zenon DEF IInv, Sessions
<1>2. s[x] \in Session
  BY <1>1, TypesFacts, Zenon
<1>3. Exists(x) => s[x].st \in {"connecting", "open"} /\ s[x].st # "none"
  BY DEF Exists
<1> QED BY <1>1, <1>2, <1>3, Zenon DEF Local, Live

\* A message that is received.
LEMMA ReceiptFacts ==
    ASSUME IInv, NEW x \in Ends
    PROVE  /\ down[x] # <<>> => /\ Head(down[x]) \in Message /\ Tells(x, Head(down[x]))
                                /\ Head(down[x]) \in In(down[x])
                                /\ Goes(down[x], Tail(down[x]), {})
           /\ up[x] # <<>> => /\ Head(up[x]) \in Message /\ Tells(Peer(x), Head(up[x]))
                              /\ Head(up[x]) \in In(up[x])
                              /\ Goes(up[x], Tail(up[x]), {})
<1>1. up[x] \in Seq(Message) /\ down[x] \in Seq(Message)
  BY TypesFacts, Zenon DEF IInv
<1>2. In(down[x]) \subseteq Told(x) /\ In(up[x]) \subseteq Told(Peer(x))
  BY Zenon DEF IInv, Underway
<1> QED BY <1>1, <1>2, InTail, GoesFacts, Zenon DEF Told

LEMMA ReceiptKeeps ==
    ASSUME IInv, NEW x \in Ends, Receipt(x)
    PROVE  /\ Head(down[x]) \in Message /\ Tells(x, Head(down[x])) /\ Head(down[x]) \in In(down[x])
           /\ down' = [down EXCEPT ![x] = Tail(down[x])] /\ Goes(down[x], Tail(down[x]), {})
           /\ UNCHANGED <<h, world>> /\ read' = read /\ Types
BY ReceiptFacts, Zenon DEF Receipt, IInv

-----------------------------------------------------------------------------
(* The steps of the workers *)

\* The steps of the tunnel at a worker, and of its local socket, keep what the
\* sessions, the channels and the hub say of each other.
LEMMA WorkerSteps ==
    /\ IInv /\ OpenOutgoing => Kept
    /\ \A x \in Ends :
         IInv /\ (\/ TargetConnects(x) \/ (\E n \in Sizes : ReadSocket(x, n)) \/ SocketEnds(x)
                  \/ SocketFails(x) \/ TunnelReceives(x) \/ WorkerCloses(x)) => Kept
\* openOutgoing opens the stream.
<1>OpenOutgoingKeeps.
    ASSUME IInv, OpenOutgoing
    PROVE  Kept
  <2> USE <1>OpenOutgoingKeeps
  <2> DEFINE x == "source"
             y == "destination"
             e == NewSession("open", FALSE, 0, TRUE)
             m == Msg("open", 0)
  <2>1. /\ s[x].st = "none" /\ s' = [s EXCEPT ![x] = e] /\ SendEnvelopes(x, <<m>>)
        /\ UNCHANGED <<h, world, down, read, got, how>>
    BY Zenon DEF OpenOutgoing
  <2>2. x \in Ends /\ y \in Ends /\ x # y /\ Peer(x) = y /\ Peer(y) = x /\ \A z \in Ends : z = x \/ z = y
    BY DEF Ends, Peer
  <2>3. Types /\ OpenedOnce /\ Sessions /\ Underway /\ Relay
    BY Zenon DEF IInv
  <2>4. /\ e \in Session /\ e.st = "open" /\ e.opened = FALSE /\ e.paused = TRUE
        /\ e.send = 0 /\ e.acked = 0 /\ e.recv = 0 /\ e.replay = <<>>
    BY StreamConstants DEF NewSession, Session, Gens
  <2>5. m \in Message /\ m.t = "open"
    <3>1. 0 \in Gens
      BY StreamConstants DEF Gens
    <3> QED BY <3>1, MessagesMade, Zenon
  <2> HIDE DEF e, m, x, y
  <2>6. s'[x] = e /\ s'[y] = s[y] /\ s' \in [Ends -> Session]
    BY <2>1, <2>2, <2>3, <2>4, Zenon DEF Types
  <2>7. <<m>> \in Seq(Message) /\ In(<<m>>) = {m}
    BY <2>5, ShortList, Zenon
  <2>8. /\ up[x] \in Seq(Message) /\ up[x] \o <<m>> \in Seq(Message)
        /\ In(up[x] \o <<m>>) = In(up[x]) \union {m} /\ Once(up[x] \o <<m>>) /\ Once(up[x])
    <3>1. up[x] \in Seq(Message)
      BY <2>2, <2>3, TypesFacts, Zenon
    <3>2. up[x] \o <<m>> \in Seq(Message) /\ In(up[x] \o <<m>>) = In(up[x]) \union {m}
      <4>1. PICK r : r = <<m>>
        BY Zenon
      <4>2. up[x] \o r \in Seq(Message) /\ In(up[x] \o r) = In(up[x]) \union {m}
        BY <2>5, <3>1, <4>1, InOneMore
      <4> QED BY <4>1, <4>2, Zenon
    <3>3. Once(up[x]) /\ ~Opens(up[x])
      BY <2>1, <2>3, Zenon DEF OpenedOnce, x
    <3> QED BY <2>5, <3>1, <3>2, <3>3, OnceKept, Zenon
  <2>9. up' = up \/ up' = [up EXCEPT ![x] = up[x] \o <<m>>]
    BY <2>1, Zenon DEF SendEnvelopes
  <2>10. /\ up' \in [Ends -> Seq(Message)] /\ up'[y] = up[y] /\ Once(up'[x])
         /\ In(up'[x]) \subseteq In(up[x]) \union {m}
    BY <2>2, <2>3, <2>8, <2>9, Zenon DEF Types
  <2>11. Types'
    BY <2>1, <2>3, <2>6, <2>10, Zenon DEF Types, world
  <2>12. OpenedOnce'
    <3>1. h.st = "none" /\ ~Opens(down[y]) /\ Once(down[y]) /\ ~Opens(up[y]) /\ ~Opens(down[x])
      BY <2>1, <2>3, Zenon DEF OpenedOnce, x, y
    <3>2. s'[x].st # "none"
      BY <2>4, <2>6
    <3>3. s[y].st = "none"
      BY <2>3, <3>1, Zenon DEF OpenedOnce, y
    <3> QED BY <2>1, <2>6, <2>10, <3>1, <3>2, <3>3, Zenon DEF OpenedOnce, x, y
  <2>13. Local(x) /\ Local(y)
    BY <2>2, <2>3, Zenon DEF Sessions
  <2>14. Local(x)'
    <3>1. how[x] = "running" /\ read[x] = 0 /\ got[x] = <<>>
      BY <2>1, <2>13, Zenon DEF Local
    <3>2. Len(got[y]) \in Nat
      BY <2>2, <2>3, TypesFacts, Zenon
    <3>3. Exists(x)' /\ ~(s'[x].st = "none")
      BY <2>4, <2>6 DEF Exists
    <3>4. Buffer(e)
      BY <2>4, StreamConstants DEF Buffer
    <3>5. Agrees(e, x)'
      <4>1. Peer(x) = y
        BY <2>2, Zenon
      <4> QED BY <2>1, <2>4, <3>1, <3>2, <4>1 DEF Agrees
    <3>6. In(<<>>) = {}
      BY DEF In
    <3>7. Live(e, x)'
      BY <2>1, <2>4, <3>1, <3>4, <3>5, <3>6 DEF Live, x
    <3> QED BY <2>1, <2>6, <2>13, <3>3, <3>7, Zenon DEF Local
  <2>15. Local(y)'
    <3>1. Exists(y)' = Exists(y)
      BY <2>6, Zenon DEF Exists
    <3>2. Live(s[y], y)' = Live(s[y], y)
      BY <2>1, <2>6, Zenon DEF Live, Agrees
    <3> QED BY <2>1, <2>6, <2>13, <3>1, <3>2, Zenon DEF Local
  <2>16. Underway'
    <3>1. ~s[x].opened
      BY <2>1, <2>13, Zenon DEF Local
    <3>2. s[x].opened => s'[x].opened
      BY <3>1, Zenon
    <3>3. \A z \in Ends : read[z] <= read[z] /\ Len(got[z]) <= Len(got[z])
      BY <2>3, TypesFacts
    <3>4. Told(x) \subseteq Told(x)' /\ Told(y) \subseteq Told(y)'
      BY <2>1, <2>2, <2>3, <2>11, <3>2, <3>3, TellsKept, Zenon DEF x
    <3>5. m \in Told(y)'
      BY <2>5 DEF Told, Tells, Recovery
    <3> QED BY <2>1, <2>2, <2>3, <2>10, <3>4, <3>5, Zenon DEF Underway
  <2> QED BY <2>1, <2>2, <2>3, <2>11, <2>12, <2>14, <2>15, <2>16, Zenon DEF Kept, Sessions, Relay
\* sendSocketChunk adds a piece.
<1>BufferAppend.
    ASSUME NEW e \in Session, Buffer(e), NEW data \in Seq(Nat), Len(data) \in Sizes,
           Fits(e, Len(data)), NEW f \in Session,
           f.send = e.send + Len(data), f.acked = e.acked,
           f.replay = Append(e.replay, [off |-> e.send, data |-> data])
    PROVE  Buffer(f)
  <2> USE <1>BufferAppend
  <2> DEFINE r == e.replay
             c == [off |-> e.send, data |-> data]
             q == f.replay
             n == Len(r)
  <2>1. /\ r \in Seq(Chunk) /\ e.send \in Nat /\ e.acked \in Nat /\ n \in Nat
        /\ \A i \in 1..n : r[i].off \in Nat /\ Len(r[i].data) \in Nat
        /\ c \in Chunk /\ Len(data) \in Nat /\ c.off = e.send /\ c.data = data
    <3>1. e.send \in Nat /\ e.acked \in Nat /\ n \in Nat /\ r \in Seq(Chunk)
          /\ \A i \in 1..n : r[i].off \in Nat /\ Len(r[i].data) \in Nat
      BY SessionFields, ChunkFields, Zenon
    <3> QED BY <3>1 DEF Chunk
  <2>2. /\ q \in Seq(Chunk) /\ Len(q) = n + 1 /\ q[n + 1] = c
        /\ \A i \in 1..n : q[i] = r[i]
    BY <2>1
  <2>3. ChunkEnd(c) = f.send
    BY <2>1 DEF ChunkEnd
  <2>4. \A i \in 1..n : r[i] \in In(r)
    BY Zenon DEF In
  <2>5. \A i \in 1..n : ChunkEnd(r[i]) <= e.send
    BY <2>4, BufferFacts, Zenon
  <2>6. f.acked <= f.send /\ f.send - f.acked <= MaxReplay
    <3>1. ReplayBytes(e) = e.send - e.acked
      BY BufferFacts, Zenon
    <3> QED BY <2>1, <3>1, StreamConstants DEF Fits, Buffer
  <2>7. \A i \in 1..Len(q) : Len(q[i].data) \in Sizes
    BY <2>1, <2>2 DEF Buffer
  <2>8. q[1].off = e.acked /\ ChunkEnd(q[Len(q)]) = f.send
    <3>1. CASE n = 0
      BY <2>1, <2>2, <2>3, <3>1 DEF Buffer
    <3>2. CASE n > 0
      BY <2>1, <2>2, <2>3, <3>2 DEF Buffer
    <3> QED BY <2>1, <3>1, <3>2
  <2>9. \A i \in 1..Len(q) - 1 : ChunkEnd(q[i]) = q[i + 1].off
    <3>1. ASSUME NEW i \in 1..n, i < n
          PROVE  ChunkEnd(q[i]) = q[i + 1].off
      BY <2>1, <2>2, <3>1 DEF Buffer
    <3>2. ASSUME n > 0
          PROVE  ChunkEnd(q[n]) = q[n + 1].off
      BY <2>1, <2>2, <3>2 DEF Buffer
    <3>3. Len(q) - 1 = n
      BY <2>1, <2>2
    <3>4. \A i \in 1..n : i < n \/ (i = n /\ n > 0)
      BY <2>1
    <3> QED BY <3>1, <3>2, <3>3, <3>4
  <2>10. \A i, j \in 1..Len(q) : i < j => ChunkEnd(q[i]) <= q[j].off
    <3>1. ASSUME NEW i \in 1..n, NEW j \in 1..n, i < j
          PROVE  ChunkEnd(q[i]) <= q[j].off
      BY <2>1, <2>2, <3>1 DEF Buffer
    <3>2. ASSUME NEW i \in 1..n
          PROVE  ChunkEnd(q[i]) <= q[n + 1].off
      BY <2>1, <2>2, <2>5
    <3>3. ASSUME NEW i \in 1..n + 1, NEW j \in 1..n + 1, i < j
          PROVE  i \in 1..n /\ (j \in 1..n \/ j = n + 1)
      BY <2>1, <3>3
    <3> QED BY <2>2, <3>1, <3>2, <3>3, Zenon
  <2>11. Len(q) # 0
    BY <2>1, <2>2
  <2> QED BY Zenon, <2>6, <2>7, <2>8, <2>9, <2>10, <2>11 DEF Buffer
\* A step of worker x: nothing changes but what belongs to x.
<1>WorkerKeeps.
    ASSUME IInv, NEW x \in Ends, NEW e \in Session, NEW q, NEW d, NEW r \in Nat,
           NEW g \in Seq(Nat), NEW w \in {"running", "end", "ended", "error"},
           s' = [s EXCEPT ![x] = e], up' = [up EXCEPT ![x] = q], down' = [down EXCEPT ![x] = d],
           read' = [read EXCEPT ![x] = r], got' = [got EXCEPT ![x] = g], how' = [how EXCEPT ![x] = w],
           h' = h, conn' = conn, ws' \in [Ends -> {"up", "closing", "down", "joining"}],
           faults' \in 0..Faults,
           Goes(up[x], q, Told(Peer(x))'), Goes(down[x], d, {}),
           read[x] <= r, Len(got[x]) <= Len(g), how[x] = "end" => w = "end" /\ r = read[x],
           s[x].opened => e.opened, e.st = "none" <=> s[x].st = "none",
           Local(x)'
    PROVE  Kept
  <2> USE <1>WorkerKeeps
  <2> DEFINE y == Peer(x)
  <2>1. y \in Ends /\ y # x /\ Peer(y) = x /\ \A z \in Ends : z = x \/ z = y
    BY PeerFacts, Zenon
  <2>2. Types /\ OpenedOnce /\ Sessions /\ Underway /\ Relay
    BY Zenon DEF IInv
  <2> HIDE DEF y
  <2>3. /\ s'[x] = e /\ up'[x] = q /\ down'[x] = d /\ read'[x] = r /\ got'[x] = g /\ how'[x] = w
        /\ s'[y] = s[y] /\ up'[y] = up[y] /\ down'[y] = down[y]
        /\ read'[y] = read[y] /\ got'[y] = got[y] /\ how'[y] = how[y]
    BY <2>1, <2>2, Zenon DEF Types
  <2>4. Types'
    <3>1. s' \in [Ends -> Session]
      BY <2>2, Zenon DEF Types
    <3>2. up' \in [Ends -> Seq(Message)] /\ down' \in [Ends -> Seq(Message)]
      BY <2>2, Zenon DEF Types, Goes
    <3>3. read' \in [Ends -> Nat] /\ got' \in [Ends -> Seq(Nat)]
          /\ how' \in [Ends -> {"running", "end", "ended", "error"}]
      BY <2>2, Zenon DEF Types
    <3> QED BY <2>2, <3>1, <3>2, <3>3, Zenon DEF Types
  <2>5. read[y] \in Nat /\ Len(got[y]) \in Nat /\ read[x] \in Nat /\ Len(got[x]) \in Nat /\ Len(g) \in Nat
        /\ s[y] \in Session
    BY <2>1, <2>2, TypesFacts
  <2>6. read[y] <= read[y] /\ Len(got[y]) <= Len(got[y])
    BY <2>5
  <2>7. s["source"].opened => s'["source"].opened
    <3>1. "source" \in Ends
      BY DEF Ends
    <3>2. x = "source" \/ y = "source"
      BY <2>1, <3>1, Zenon
    <3> QED BY <2>3, <3>2, Zenon
  <2>8. Grows
    <3>1. /\ read[x] <= read'[x] /\ Len(got[x]) <= Len(got'[x])
          /\ how[x] = "end" => how'[x] = "end" /\ read'[x] = read[x]
      BY <2>3, Zenon
    <3>2. /\ read[y] <= read'[y] /\ Len(got[y]) <= Len(got'[y])
          /\ how[y] = "end" => how'[y] = "end" /\ read'[y] = read[y]
      BY <2>3, <2>6, Zenon
    <3> QED BY <2>1, <2>7, <3>1, <3>2, Zenon DEF Grows
  <2>9. Flows
    <3>1. up[y] \in Seq(Message) /\ down[y] \in Seq(Message) /\ up[x] \in Seq(Message) /\ down[x] \in Seq(Message)
      BY <2>1, <2>2, TypesFacts, Zenon
    <3>2. Goes(up[y], up[y], {}) /\ Goes(down[y], down[y], {})
      BY <3>1, GoesFacts, Zenon
    <3>3. Goes(down[x], d, Told(x)') /\ Goes(down[y], down[y], Told(y)') /\ Goes(up[y], up[y], Told(x)')
      BY <3>2, Zenon DEF Goes
    <3>4. /\ Goes(up[x], up'[x], Told(Peer(x))') /\ Goes(up[y], up'[y], Told(Peer(y))')
          /\ Goes(down[x], down'[x], Told(x)') /\ Goes(down[y], down'[y], Told(y)')
      BY <2>1, <2>3, <3>3, Zenon
    <3>5. \A z \in Ends : Goes(up[z], up'[z], Told(Peer(z))') /\ Goes(down[z], down'[z], Told(z)')
      BY <2>1, <3>4, Zenon
    <3> QED BY <2>4, <3>5, Zenon DEF Flows, Types
  <2>10. Underway'
    BY <2>2, <2>4, <2>8, <2>9, UnderwayKept, Zenon
  <2>11. OpenedOnce'
    BY <2>1, <2>2, <2>3, <2>9, OpenedOnceKept, Zenon
  <2>12. Local(y)'
    <3>1. Local(y) /\ Peer(y) = x
      BY <2>1, <2>2, Zenon DEF Sessions
    <3>2. Len(got[y]) <= r
      BY <2>5, <3>1 DEF Local
    <3>3. Agrees(s[y], y) => s[y].acked <= Len(g)
      BY <2>5, <3>1, SessionFields DEF Agrees
    <3>4. Agrees(s[y], y) => Agrees(s[y], y)'
      BY <2>3, <3>1, <3>3, Zenon DEF Agrees
    <3>5. Live(s[y], y) => Live(s[y], y)'
      BY <2>3, <3>4, Zenon DEF Live
    <3>6. Exists(y)' = Exists(y)
      BY <2>3, Zenon DEF Exists
    <3> QED BY <2>3, <3>1, <3>2, <3>5, <3>6, Zenon DEF Local
  <2>13. Sessions'
    BY <2>1, <2>12, Zenon DEF Sessions
  <2>14. Relay'
    <3>1. /\ h.fwd[x] <= r
          /\ h.reports[x] = NoReport \/ h.reports[x].recv \in 0..Len(g)
      <4>1. h.fwd[x] \in Nat
        BY <2>2, Zenon DEF Types, Hub
      <4>2. h.fwd[x] <= read[x] /\ (h.reports[x] = NoReport \/ h.reports[x].recv \in 0..Len(got[x]))
        BY <2>2, Zenon DEF Relay
      <4>3. h.fwd[x] <= r
        BY <2>5, <4>1, <4>2
      <4>4. h.reports[x] = NoReport \/ h.reports[x].recv \in 0..Len(g)
        BY <2>5, <4>2
      <4> QED BY <4>3, <4>4
    <3> QED BY <2>1, <2>2, <2>3, <3>1, Zenon DEF Relay
  <2> QED BY Zenon, <2>4, <2>10, <2>11, <2>13, <2>14 DEF Kept
\* A step of tunnel x that sends ms, and may take a message from the hub.
<1>TunnelKeeps.
    ASSUME IInv, NEW x \in Ends, NEW e \in Session, NEW ms \in Seq(Message), NEW d, NEW r \in Nat,
           NEW g \in Seq(Nat), NEW w \in {"running", "end", "ended", "error"},
           s' = [s EXCEPT ![x] = e], SendEnvelopes(x, ms), down' = [down EXCEPT ![x] = d],
           read' = [read EXCEPT ![x] = r], got' = [got EXCEPT ![x] = g], how' = [how EXCEPT ![x] = w],
           UNCHANGED <<h, world>>,
           ~Opens(ms), In(ms) \subseteq Told(Peer(x))', Goes(down[x], d, {}),
           read[x] <= r, Len(got[x]) <= Len(g), how[x] = "end" => w = "end" /\ r = read[x],
           s[x].opened => e.opened, e.st = "none" <=> s[x].st = "none",
           Local(x)'
    PROVE  Kept
  <2> USE <1>TunnelKeeps
  <2>1. Types
    BY Zenon DEF IInv
  <2>2. PICK q : up' = [up EXCEPT ![x] = q] /\ Goes(up[x], q, In(ms))
    BY <2>1, SendEffect, Zenon
  <2>3. Goes(up[x], q, Told(Peer(x))')
    BY <2>2, Zenon DEF Goes
  <2>4. /\ h' = h /\ conn' = conn /\ ws' \in [Ends -> {"up", "closing", "down", "joining"}]
        /\ faults' \in 0..Faults
    BY <2>1, Zenon DEF Types, world
  <2> QED BY <2>2, <2>3, <2>4, <1>WorkerKeeps, Zenon
\* closeSession, with the notice it sends.
<1>CloseKeeps.
    ASSUME IInv, NEW x \in Ends, NEW w \in {"end", "ended", "error"}, NEW ms \in Seq(Message), NEW d,
           Exists(x), CloseSession(x, w, ms), down' = [down EXCEPT ![x] = d],
           UNCHANGED <<h, world, read, got>>,
           ~Opens(ms), In(ms) \subseteq Told(Peer(x))', Goes(down[x], d, {})
    PROVE  Kept
  <2> USE <1>CloseKeeps
  <2> DEFINE e == NewSession("closed", s[x].opened, 0, TRUE)
  <2>1. Types /\ Local(x)
    BY Zenon DEF IInv, Sessions
  <2>2. s[x].opened \in BOOLEAN /\ s[x].st # "none"
    <3>1. s[x].opened \in BOOLEAN
      BY <2>1, TypesFacts, SessionFields, Zenon
    <3> QED BY <3>1 DEF Exists
  <2>3. e \in Session /\ e.st = "closed" /\ e.opened = s[x].opened /\ Blank(e)
    BY <2>2, StreamConstants DEF NewSession, Session, Gens, Blank
  <2>4. s' = [s EXCEPT ![x] = e] /\ how' = [how EXCEPT ![x] = w] /\ SendEnvelopes(x, ms)
    BY Zenon DEF CloseSession
  <2> HIDE DEF e
  <2>5. /\ read[x] \in Nat /\ got[x] \in Seq(Nat) /\ Len(got[x]) \in Nat
        /\ read = [read EXCEPT ![x] = read[x]] /\ got = [got EXCEPT ![x] = got[x]]
    <3>1. Len(got[x]) \in Nat
      BY <2>1, TypesFacts, Zenon
    <3> QED BY <2>1, <3>1, Zenon DEF Types
  <2>6. read[x] <= read[x] /\ Len(got[x]) <= Len(got[x])
    BY <2>5
  <2>7. s'[x] = e
    BY <2>1, <2>4, Zenon DEF Types
  <2>8. ~Exists(x)' /\ e.st # "none"
    BY <2>3, <2>7 DEF Exists
  <2>9. Local(x)'
    BY <2>1, <2>3, <2>7, <2>8, Zenon DEF Local
  <2>10. how[x] = "running"
    BY <2>1, Zenon DEF Local, Live
  <2>11. how[x] # "end"
    BY <2>10
  <2>12. w \in {"running", "end", "ended", "error"}
    BY Zenon
  <2> QED BY <2>2, <2>3, <2>4, <2>5, <2>6, <2>8, <2>9, <2>11, <2>12, <1>TunnelKeeps, Zenon
\* A stream that fails.
<1>FailKeeps.
    ASSUME IInv, NEW x \in Ends, NEW d, Exists(x), Fail(x), down' = [down EXCEPT ![x] = d],
           UNCHANGED <<h, world, read, got>>, Goes(down[x], d, {})
    PROVE  Kept
  <2> USE <1>FailKeeps
  <2> DEFINE m == Msg("error", s[x].gen)
  <2>1. Types
    BY Zenon DEF IInv
  <2>2. s[x].gen \in Gens
    BY <2>1, TypesFacts, SessionFields, Zenon
  <2>3. m \in Message /\ m.t = "error"
    BY <2>2, MessagesMade, Zenon
  <2>4. CloseSession(x, "error", <<m>>)
    BY Zenon DEF Fail
  <2> HIDE DEF m
  <2>5. <<m>> \in Seq(Message) /\ In(<<m>>) = {m} /\ ~Opens(<<m>>)
    BY <2>3, ShortList
  <2>6. m \in Told(Peer(x))'
    BY <2>3, TunnelTells, Zenon
  <2>7. In(<<m>>) \subseteq Told(Peer(x))'
    BY <2>5, <2>6, Zenon
  <2> QED BY <2>4, <2>5, <2>7, <1>CloseKeeps, Zenon
\* The rest of the steps of a local socket.
<1>SocketEndsKeeps.
    ASSUME IInv, NEW x \in Ends, SocketEnds(x)
    PROVE  Kept
  <2> USE <1>SocketEndsKeeps
  <2> DEFINE m == End(s[x].gen, s[x].send)
  <2>1. Types /\ Local(x) /\ Exists(x) /\ CloseSession(x, "end", <<m>>)
        /\ UNCHANGED <<h, world, down, read, got>>
    BY Zenon DEF IInv, Sessions, SocketEnds
  <2>2. s[x].gen \in Gens /\ s[x].send \in Nat
    BY <2>1, TypesFacts, SessionFields, Zenon
  <2>3. m \in Message /\ m.t = "end"
    BY <2>2, MessagesMade, Zenon
  <2>4. how'[x] = "end"
    BY <2>1, Zenon DEF CloseSession, Types
  <2>5. s[x].send <= read'[x] /\ (Pipes => s[x].send = read'[x])
    BY <2>1, Zenon DEF Local, Live, Agrees
  <2>6. m \in Told(Peer(x))'
    BY <2>2, <2>4, <2>5, TunnelTells, Zenon
  <2> HIDE DEF m
  <2>7. <<m>> \in Seq(Message) /\ In(<<m>>) = {m} /\ ~Opens(<<m>>)
    BY <2>3, ShortList
  <2>8. In(<<m>>) \subseteq Told(Peer(x))'
    BY <2>6, <2>7, Zenon
  <2>9. down' = [down EXCEPT ![x] = down[x]] /\ Goes(down[x], down[x], {})
    BY <2>1, TypesFacts, GoesFacts, Zenon DEF Types
  <2>10. "end" \in {"end", "ended", "error"} /\ UNCHANGED <<h, world, read, got>>
    BY <2>1, Zenon
  <2> QED BY <2>1, <2>7, <2>8, <2>9, <2>10, <1>CloseKeeps, Zenon
<1>SocketFailsKeeps.
    ASSUME IInv, NEW x \in Ends, SocketFails(x)
    PROVE  Kept
  <2> USE <1>SocketFailsKeeps
  <2>1. Types /\ Exists(x) /\ Fail(x) /\ UNCHANGED <<h, world, down, read, got>>
    BY Zenon DEF IInv, SocketFails
  <2>2. down' = [down EXCEPT ![x] = down[x]] /\ Goes(down[x], down[x], {})
    BY <2>1, TypesFacts, GoesFacts, Zenon DEF Types
  <2>3. UNCHANGED <<h, world, read, got>>
    BY <2>1, Zenon
  <2> QED BY <2>1, <2>2, <2>3, <1>FailKeeps, Zenon
\* The buffer depends on three fields of a session.
<1>BufferSame.
    ASSUME NEW e, NEW f, Buffer(e), f.send = e.send, f.acked = e.acked, f.replay = e.replay
    PROVE  Buffer(f)
  BY <1>BufferSame, Zenon DEF Buffer
\* The local socket hands over bytes.
<1>ReadSocketKeeps.
    ASSUME IInv, NEW x \in Ends, NEW n \in Sizes, ReadSocket(x, n)
    PROVE  Kept
  <2> USE <1>ReadSocketKeeps
  <2> DEFINE data == [i \in 1..n |-> read[x] + i]
  <2>1. s[x].st = "open" /\ ~s[x].paused /\ read[x] + n <= MaxBytes[x] /\ UNCHANGED <<h, world, down, got>>
    BY Zenon DEF ReadSocket
  <2>2. Exists(x)
    BY <2>1 DEF Exists
  <2>3. /\ Types /\ s[x] \in Session /\ Local(x) /\ Live(s[x], x) /\ Buffer(s[x]) /\ how[x] = "running"
        /\ s[x].st # "none" /\ s[x].st \in {"connecting", "open"}
    BY <2>2, LiveFacts, Zenon
  <2>4. /\ read[x] \in Nat /\ got[x] \in Seq(Nat) /\ Len(got[x]) \in Nat /\ n \in Nat /\ n >= 1
        /\ read[x] + n \in Nat /\ read[x] <= read[x] + n /\ Len(got[x]) <= Len(got[x])
    <3>1. read[x] \in Nat /\ got[x] \in Seq(Nat) /\ Len(got[x]) \in Nat
      BY <2>3, TypesFacts, Zenon
    <3> QED BY <3>1, StreamConstants
  <2>5. down' = [down EXCEPT ![x] = down[x]] /\ Goes(down[x], down[x], {})
        /\ got' = [got EXCEPT ![x] = got[x]] /\ UNCHANGED <<h, world>>
    BY <2>1, <2>3, TypesFacts, GoesFacts, Zenon DEF Types
  <2>6. ASSUME s[x].opened, ~Fits(s[x], n), Fail(x), UNCHANGED read
        PROVE  Kept
    BY <2>1, <2>2, <2>5, <2>6, <1>FailKeeps, Zenon
  <2>7. ASSUME ~s[x].opened, read' = [read EXCEPT ![x] = @ + n], UNCHANGED <<s, up, how>>
        PROVE  Kept
    <3>1. ~Pipes
      BY <2>1, <2>3, <2>7, Zenon DEF Live
    <3>2. /\ s' = [s EXCEPT ![x] = s[x]] /\ up' = [up EXCEPT ![x] = up[x]]
          /\ how' = [how EXCEPT ![x] = how[x]] /\ read' = [read EXCEPT ![x] = read[x] + n]
      BY <2>3, <2>7, Zenon DEF Types
    <3>3. read'[x] = read[x] + n /\ read'[Peer(x)] = read[Peer(x)] /\ s'[x] = s[x]
      BY <2>3, <2>7, PeerFacts, Zenon DEF Types
    <3>4. Agrees(s[x], x)'
      <4>1. s[x].send \in Nat /\ s[x].send <= read[x]
        BY <2>3, SessionFields, Zenon DEF Live, Agrees
      <4>2. s[x].send <= read[x] + n
        BY <2>4, <4>1
      <4> QED BY <2>1, <2>3, <2>7, <3>3, <4>2, Zenon DEF Live, Agrees
    <3>5. Live(s[x], x)'
      BY <2>3, <2>7, <3>1, <3>4, Zenon DEF Live
    <3>6. Exists(x)'
      BY <2>2, <3>3, Zenon DEF Exists
    <3>7. Local(x)'
      BY <2>1, <2>3, <3>3, <3>5, <3>6, <2>7, Zenon DEF Local
    <3>8. Goes(up[x], up[x], Told(Peer(x))')
      <4>1. Goes(up[x], up[x], {})
        BY <2>3, TypesFacts, GoesFacts, Zenon
      <4> QED BY <4>1, Zenon DEF Goes
    <3>9. /\ how[x] # "end" /\ how[x] \in {"running", "end", "ended", "error"}
      BY <2>3
    <3>10. /\ h' = h /\ conn' = conn /\ ws' \in [Ends -> {"up", "closing", "down", "joining"}]
           /\ faults' \in 0..Faults
      BY <2>1, <2>3, Zenon DEF Types, world
    <3> QED BY <2>3, <2>4, <2>5, <3>2, <3>7, <3>8, <3>9, <3>10, <1>WorkerKeeps, Zenon
  <2>8. ASSUME s[x].opened, Fits(s[x], n), read' = [read EXCEPT ![x] = @ + n],
               SendSocketChunk(x, data), UNCHANGED how
        PROVE  Kept
    <3>0. data \in Seq(Nat) /\ Len(data) = n
      BY <2>4
    <3> DEFINE c == [off |-> s[x].send, data |-> data]
               f == [s[x] EXCEPT !.send = @ + Len(data), !.replay = Append(@, c)]
               e == IF f.susp \/ ~transportAvailable(x)
                    THEN [f EXCEPT !.paused = @ \/ ReplayBytes(f) >= HighWater]
                    ELSE [f EXCEPT !.susp = ~CanSend(x),
                                   !.paused = @ \/ ReplayBytes(f) >= HighWater \/ ~CanSend(x)]
               ms == IF f.susp THEN <<>> ELSE <<Data(f.gen, c)>>
    <3>1. s' = [s EXCEPT ![x] = e] /\ (IF f.susp THEN UNCHANGED up ELSE SendEnvelopes(x, <<Data(f.gen, c)>>))
      BY <2>8, Zenon DEF SendSocketChunk
    <3> HIDE DEF data
    <3>2. /\ s[x].send \in Nat /\ s[x].replay \in Seq(Chunk) /\ s[x].gen \in Gens
      BY <2>3, SessionFields, Zenon
    <3>3. c \in Chunk /\ c.off = s[x].send /\ c.data = data
      BY <3>0, <3>2 DEF Chunk
    <3> HIDE DEF c
    <3>4. /\ f \in Session /\ f.send = s[x].send + Len(data) /\ f.replay = Append(s[x].replay, c)
          /\ f.acked = s[x].acked /\ f.recv = s[x].recv /\ f.opened = s[x].opened /\ f.st = s[x].st
          /\ f.gen = s[x].gen /\ f.susp = s[x].susp
      <4>1. Append(s[x].replay, c) \in Seq(Chunk) /\ s[x].send + Len(data) \in Nat
        BY <2>4, <3>0, <3>2, <3>3
      <4> QED BY <2>3, <4>1, Zenon DEF Session
    <3> HIDE DEF f
    <3>5. /\ e \in Session /\ e.send = f.send /\ e.replay = f.replay /\ e.acked = f.acked
          /\ e.recv = f.recv /\ e.opened = f.opened /\ e.st = f.st
      <4>1. CASE f.susp \/ ~transportAvailable(x)
        <5>1. e = [f EXCEPT !.paused = @ \/ ReplayBytes(f) >= HighWater]
          BY <4>1, Zenon
        <5>2. (f.paused \/ ReplayBytes(f) >= HighWater) \in BOOLEAN
          BY Zenon
        <5> HIDE DEF e
        <5> QED BY <3>4, <5>1, <5>2, Zenon DEF Session
      <4>2. CASE ~(f.susp \/ ~transportAvailable(x))
        <5>1. e = [f EXCEPT !.susp = ~CanSend(x),
                            !.paused = @ \/ ReplayBytes(f) >= HighWater \/ ~CanSend(x)]
          BY <4>2, Zenon
        <5>2. /\ (f.paused \/ ReplayBytes(f) >= HighWater \/ ~CanSend(x)) \in BOOLEAN
              /\ (~CanSend(x)) \in BOOLEAN
          BY Zenon
        <5> HIDE DEF e
        <5> QED BY <3>4, <5>1, <5>2, Zenon DEF Session
      <4> QED BY <4>1, <4>2, Zenon
    <3> HIDE DEF e
    <3>6. Buffer(f)
      <4>1. Fits(s[x], Len(data)) /\ Len(data) \in Sizes
        BY <2>8, <3>0, Zenon
      <4>2. f.replay = Append(s[x].replay, [off |-> s[x].send, data |-> data])
        BY <3>4, Zenon DEF c
      <4> QED BY <2>3, <3>0, <3>4, <4>1, <4>2, <1>BufferAppend, Zenon
    <3>7. Buffer(e)
      BY <3>5, <3>6, <1>BufferSame, Zenon
    <3>8. read'[x] = read[x] + n /\ read'[Peer(x)] = read[Peer(x)] /\ s'[x] = e
      BY <2>3, <2>8, <3>1, <3>5, PeerFacts, Zenon DEF Types
    <3>9. s[x].send <= read[x] /\ (Pipes => s[x].send = read[x])
      BY <2>3, Zenon DEF Live, Agrees
    <3>10. e.send <= read[x] + n /\ (Pipes => e.send = read[x] + n)
      BY <2>4, <3>0, <3>2, <3>4, <3>5, <3>9
    <3>11. Agrees(s[x], x)'
      BY <2>1, <2>3, <3>4, <3>5, <3>8, <3>10, Zenon DEF Live, Agrees
    <3>12. Pipes => Genuine(c)
      BY <2>4, <3>0, <3>3, <3>9 DEF Genuine, Pipe!Bytes, data
    <3>13. In(e.replay) = In(s[x].replay) \union {c}
      <4>1. Append(s[x].replay, c) = s[x].replay \o <<c>>
        BY <3>2, <3>3
      <4>2. PICK r : r = <<c>>
        BY Zenon
      <4>3. In(s[x].replay \o r) = In(s[x].replay) \union {c}
        BY <3>2, <3>3, <4>2, InOneMore
      <4> QED BY <3>4, <3>5, <4>1, <4>2, <4>3, Zenon
    <3>14. Live(s[x], x)'
      BY <2>3, <2>8, <3>4, <3>5, <3>7, <3>8, <3>10, <3>11, <3>12, <3>13, Zenon DEF Live
    <3>15. Exists(x)'
      BY <2>2, <3>4, <3>5, <3>8, Zenon DEF Exists
    <3>16. Local(x)'
      BY <2>1, <2>3, <3>4, <3>5, <3>8, <3>14, <3>15, Zenon DEF Local
    <3>17. ms \in Seq(Message) /\ ~Opens(ms) /\ In(ms) \subseteq Told(Peer(x))'
      <4>1. CASE f.susp
        <5>1. ms = <<>>
          BY <4>1, Zenon
        <5> HIDE DEF ms
        <5> QED BY <5>1, ShortList, Zenon
      <4>2. CASE ~f.susp
        <5>1. ms = <<Data(f.gen, c)>> /\ f.gen \in Gens
          BY <3>2, <3>4, <4>2, Zenon
        <5>2. Data(f.gen, c) \in Message /\ Data(f.gen, c).t = "data"
          BY <3>3, <5>1, BytesMade, Zenon
        <5>3. Data(f.gen, c) \in Told(Peer(x))'
          <6>1. Len(c.data) \in Sizes /\ ChunkEnd(c) <= read'[x]
            BY <2>4, <3>0, <3>2, <3>3, <3>8, <3>9 DEF ChunkEnd
          <6> QED BY <3>3, <3>12, <5>1, <6>1, TunnelTells, Zenon
        <5> HIDE DEF ms
        <5>4. Data(f.gen, c).t # "open"
          BY <5>2
        <5>5. /\ <<Data(f.gen, c)>> \in Seq(Message) /\ ~Opens(<<Data(f.gen, c)>>)
              /\ In(<<Data(f.gen, c)>>) = {Data(f.gen, c)}
          BY <5>2, <5>4, ShortList, Zenon
        <5> QED BY <5>1, <5>3, <5>5, Zenon
      <4> QED BY <4>1, <4>2, Zenon
    <3>18. \E q : up' = [up EXCEPT ![x] = q] /\ Goes(up[x], q, In(ms))
      <4>1. CASE f.susp
        <5>1. up' = [up EXCEPT ![x] = up[x]] /\ Goes(up[x], up[x], In(ms))
          <6>1. Goes(up[x], up[x], {})
            BY <2>3, TypesFacts, GoesFacts, Zenon
          <6>2. up' = [up EXCEPT ![x] = up[x]]
            BY <2>3, <3>1, <4>1, Zenon DEF Types
          <6> QED BY <6>1, <6>2, Zenon DEF Goes
        <5> QED BY <5>1, Zenon
      <4>2. CASE ~f.susp
        BY <2>3, <3>1, <3>17, <4>2, SendEffect, Zenon
      <4> QED BY <4>1, <4>2, Zenon
    <3> HIDE DEF ms
    <3>19. PICK q : up' = [up EXCEPT ![x] = q] /\ Goes(up[x], q, In(ms))
      BY <3>18, Zenon
    <3>20. Goes(up[x], q, Told(Peer(x))')
      BY <3>17, <3>19, GoesMore, Zenon
    <3>21. /\ how[x] # "end" /\ how[x] \in {"running", "end", "ended", "error"}
           /\ e.st # "none"
      BY <2>3, <3>4, <3>5
    <3>22. /\ h' = h /\ conn' = conn /\ ws' \in [Ends -> {"up", "closing", "down", "joining"}]
           /\ faults' \in 0..Faults /\ how' = [how EXCEPT ![x] = how[x]]
           /\ read' = [read EXCEPT ![x] = read[x] + n]
      BY <2>1, <2>3, <2>8, Zenon DEF Types, world
    <3>23. s[x].opened => e.opened
      BY <3>4, <3>5, Zenon
    <3> QED BY <2>3, <2>4, <2>5, <3>1, <3>5, <3>16, <3>19, <3>20, <3>21, <3>22, <3>23, <1>WorkerKeeps, Zenon
  <2> QED BY <2>6, <2>7, <2>8, Zenon DEF ReadSocket
\* A message that is passed over, or answered without the stream.
<1>AnswerKeeps.
    ASSUME IInv, NEW x \in Ends, NEW ms \in Seq(Message), NEW d, SendEnvelopes(x, ms),
           down' = [down EXCEPT ![x] = d], Goes(down[x], d, {}),
           UNCHANGED <<s, h, world, read, got, how>>,
           ~Opens(ms), In(ms) \subseteq Told(Peer(x))'
    PROVE  Kept
  <2> USE <1>AnswerKeeps
  <2>1. Types /\ Local(x) /\ s[x] \in Session
    BY LiveFacts, Zenon
  <2>2. /\ read[x] \in Nat /\ got[x] \in Seq(Nat) /\ Len(got[x]) \in Nat
        /\ how[x] \in {"running", "end", "ended", "error"}
        /\ read = [read EXCEPT ![x] = read[x]] /\ got = [got EXCEPT ![x] = got[x]]
        /\ how = [how EXCEPT ![x] = how[x]] /\ s = [s EXCEPT ![x] = s[x]]
    <3>1. Len(got[x]) \in Nat
      BY <2>1, TypesFacts, Zenon
    <3> QED BY <2>1, <3>1, Zenon DEF Types
  <2>3. read[x] <= read[x] /\ Len(got[x]) <= Len(got[x])
    BY <2>2
  <2>4. Local(x)'
    BY <2>1, Zenon DEF Local, Live, Agrees, Exists
  <2>5. read' = [read EXCEPT ![x] = read[x]] /\ got' = [got EXCEPT ![x] = got[x]]
        /\ how' = [how EXCEPT ![x] = how[x]] /\ s' = [s EXCEPT ![x] = s[x]] /\ UNCHANGED <<h, world>>
    BY <2>2, Zenon
  <2> QED BY <2>1, <2>2, <2>3, <2>4, <2>5, <1>TunnelKeeps, Zenon
\* openIncoming
<1>OnOpenKeeps.
    ASSUME IInv, NEW x \in Ends, Receipt(x), Head(down[x]).t = "open", OnOpen(x, Head(down[x])),
           UNCHANGED got
    PROVE  Kept
  <2> USE <1>OnOpenKeeps
  <2> DEFINE m == Head(down[x])
  <2>1. /\ m \in Message /\ Tells(x, m) /\ m \in In(down[x])
        /\ down' = [down EXCEPT ![x] = Tail(down[x])] /\ Goes(down[x], Tail(down[x]), {})
        /\ UNCHANGED <<h, world>> /\ read' = read /\ Types
    BY ReceiptKeeps, Zenon
  <2>2. OpenedOnce /\ Sessions /\ Underway /\ Relay
    BY Zenon DEF IInv
  <2>3. Opens(down[x])
    BY <2>1, Zenon DEF Opens
  <2>4. x = "destination" /\ h.st # "none" /\ s[x].st = "none"
    <3>1. x # "source"
      BY <2>2, <2>3, Zenon DEF OpenedOnce
    <3>2. x = "destination"
      BY <3>1, Zenon DEF Ends
    <3> QED BY <2>2, <2>3, <3>2, Zenon DEF OpenedOnce
  <2>5. ASSUME SendEnvelopes(x, <<Msg("error", -1)>>), UNCHANGED <<s, how>>
        PROVE  Kept
    <3> DEFINE n == Msg("error", -1)
    <3>1. n \in Message /\ n.t = "error"
      BY MessagesMade, Zenon
    <3> HIDE DEF n
    <3>2. <<n>> \in Seq(Message) /\ In(<<n>>) = {n} /\ ~Opens(<<n>>)
      BY <3>1, ShortList
    <3>3. In(<<n>>) \subseteq Told(Peer(x))'
      BY <3>1, <3>2, TunnelTells, Zenon
    <3>4. UNCHANGED <<s, h, world, read, got, how>> /\ SendEnvelopes(x, <<n>>)
      BY <2>1, <2>5, Zenon DEF n
    <3> QED BY <2>1, <3>2, <3>3, <3>4, <1>AnswerKeeps, Zenon
  <2>6. ASSUME s' = [s EXCEPT ![x] = NewSession("connecting", TRUE, m.gen, FALSE)], UNCHANGED <<up, how>>
        PROVE  Kept
    <3> DEFINE e == NewSession("connecting", TRUE, m.gen, FALSE)
               y == Peer(x)
    <3>1. m.gen \in Gens
      BY <2>1, MessageFields
    <3>2. /\ e \in Session /\ e.st = "connecting" /\ e.opened = TRUE /\ e.send = 0 /\ e.acked = 0
          /\ e.recv = 0 /\ e.replay = <<>>
      <4> HIDE DEF m
      <4> QED BY <3>1 DEF NewSession, Session
    <3> HIDE DEF e, m
    <3>3. s' = [s EXCEPT ![x] = e]
      BY <2>6, Zenon DEF e, m
    <3>4. y \in Ends /\ y # x /\ Peer(y) = x /\ y = "source" /\ \A z \in Ends : z = x \/ z = y
      BY <2>4 DEF Peer, Ends
    <3> HIDE DEF y
    <3>5. s'[x] = e /\ s'[y] = s[y] /\ s' \in [Ends -> Session]
      BY <2>1, <3>2, <3>3, <3>4, Zenon DEF Types
    <3>6. /\ down' \in [Ends -> Seq(Message)] /\ down'[y] = down[y] /\ down'[x] = Tail(down[x])
      BY <2>1, <3>4, Zenon DEF Types, Goes
    <3>7. Types'
      BY <2>1, <2>6, <3>5, <3>6, Zenon DEF Types, world
    <3>8. ~Opens(down'[x]) /\ Once(down'[x])
      BY <2>1, <2>2, <2>4, <3>6, TypesFacts, OnceKept, Zenon DEF OpenedOnce, Receipt, m
    <3>9. OpenedOnce'
      <4>1. e.st # "none"
        BY <3>2
      <4>2. Once(up["source"]) /\ ~Opens(up["destination"]) /\ ~Opens(down["source"]) /\ ~Opens(up["source"])
            /\ s["source"].st # "none"
        BY <2>2, <2>4, Zenon DEF OpenedOnce
      <4> QED BY <2>1, <2>4, <2>6, <3>4, <3>5, <3>6, <3>8, <4>1, <4>2, Zenon DEF OpenedOnce
    <3>10. Local(x) /\ Local(y)
      BY <2>2, <3>4, Zenon DEF Sessions
    <3>11. Local(x)'
      <4>1. how[x] = "running" /\ read[x] = 0 /\ got[x] = <<>>
        BY <2>4, <3>10, Zenon DEF Local
      <4>2. Len(got[y]) \in Nat
        BY <2>1, <3>4, TypesFacts, Zenon
      <4>3. Exists(x)' /\ ~(s'[x].st = "none")
        BY <3>2, <3>5 DEF Exists
      <4>4. Buffer(e)
        BY <3>2, StreamConstants DEF Buffer
      <4>5. Agrees(s[x], x)'
        <5>1. Peer(x) = y
          BY Zenon DEF y
        <5> QED BY <2>1, <3>2, <3>5, <4>1, <4>2, <5>1 DEF Agrees
      <4>6. In(<<>>) = {}
        BY InShort, Zenon
      <4>7. Live(s[x], x)'
        BY <2>1, <2>6, <3>2, <3>5, <4>1, <4>4, <4>5, <4>6, Zenon DEF Live
      <4> QED BY <2>1, <3>5, <3>10, <4>3, <4>7, Zenon DEF Local
    <3>12. Local(y)'
      <4>1. Exists(y)' = Exists(y)
        BY <3>5, Zenon DEF Exists
      <4>2. Live(s[y], y) => Live(s[y], y)'
        BY <2>1, <2>6, <3>5, Zenon DEF Live, Agrees
      <4> QED BY <2>1, <2>6, <3>5, <3>10, <4>1, <4>2, Zenon DEF Local
    <3>13. Underway'
      <4>1. s["source"].opened => s'["source"].opened
        BY <3>4, <3>5, Zenon
      <4>2. \A z \in Ends : read[z] <= read[z] /\ Len(got[z]) <= Len(got[z])
        BY <2>1, TypesFacts
      <4>3. \A z \in Ends : Peer(z) \in Ends
        BY PeerFacts, Zenon
      <4>4. \A z \in Ends : Told(z) \subseteq Told(z)'
        BY <2>1, <2>6, <3>7, <4>1, <4>2, <4>3, TellsKept, Zenon
      <4>5. In(down'[x]) \subseteq In(down[x])
        BY <2>1, <3>6, Zenon DEF Goes
      <4> QED BY <2>2, <2>6, <3>4, <3>6, <4>3, <4>4, <4>5, Zenon DEF Underway
    <3>14. Relay'
      BY <2>1, <2>2, Zenon DEF Relay
    <3> QED BY <3>4, <3>7, <3>9, <3>11, <3>12, <3>13, <3>14, Zenon DEF Kept, Sessions
  <2> QED BY <2>5, <2>6, Zenon DEF OnOpen
\* The same, without an answer.
<1>IgnoreKeeps.
    ASSUME IInv, NEW x \in Ends, Receipt(x), Ignore(x), UNCHANGED got
    PROVE  Kept
  <2> USE <1>IgnoreKeeps
  <2>1. /\ down' = [down EXCEPT ![x] = Tail(down[x])] /\ Goes(down[x], Tail(down[x]), {}) /\ Types
        /\ UNCHANGED <<h, world>> /\ read' = read
    BY ReceiptKeeps, Zenon
  <2>2. s' = s /\ up' = up /\ how' = how
    BY Zenon DEF Ignore
  <2>3. UNCHANGED <<s, h, world, read, got, how>>
    BY <2>1, <2>2, Zenon
  <2>4. up[x] \in Seq(Message) /\ up = [up EXCEPT ![x] = up[x]]
    BY <2>1, Zenon DEF Types
  <2>5. up[x] \o <<>> = up[x]
    BY <2>4
  <2>6. SendEnvelopes(x, <<>>)
    BY <2>2, <2>4, <2>5, Zenon DEF SendEnvelopes
  <2>7. <<>> \in Seq(Message) /\ ~Opens(<<>>) /\ In(<<>>) \subseteq Told(Peer(x))'
    BY ShortList, Zenon
  <2> QED BY <2>1, <2>3, <2>6, <2>7, <1>AnswerKeeps, Zenon
\* sendAcknowledgement tells how much the process has.
<1>AcknowledgementTells.
    ASSUME NEW x \in Ends, NEW e \in Session, e.recv <= Len(got'[x])
    PROVE  /\ Acknowledgement(e) \in Seq(Message) /\ ~Opens(Acknowledgement(e))
           /\ In(Acknowledgement(e)) \subseteq Told(Peer(x))'
  <2> USE <1>AcknowledgementTells
  <2> DEFINE m == Ack(e.gen, e.recv)
  <2>1. e.gen \in Gens /\ e.recv \in Nat
    BY SessionFields, Zenon
  <2>2. m \in Message /\ m.t = "ack"
    BY <2>1, MessagesMade, Zenon
  <2>3. m \in Told(Peer(x))'
    BY <2>1, TunnelTells, Zenon
  <2>4. Acknowledgement(e) = <<>> \/ Acknowledgement(e) = <<m>>
    BY Zenon DEF Acknowledgement
  <2> HIDE DEF m
  <2>5. <<m>> \in Seq(Message) /\ In(<<m>>) = {m} /\ ~Opens(<<m>>)
    BY <2>2, ShortList
  <2>6. <<>> \in Seq(Message) /\ In(<<>>) = {} /\ ~Opens(<<>>)
    BY ShortList, Zenon
  <2> QED BY <2>3, <2>4, <2>5, <2>6, Zenon
\* receiveRecoverableData
<1>OnDataKeeps.
    ASSUME IInv, NEW x \in Ends, Receipt(x), Exists(x), Head(down[x]).t = "data",
           OnData(x, Head(down[x]))
    PROVE  Kept
  <2> USE <1>OnDataKeeps
  <2> DEFINE m == Head(down[x])
             e == [s[x] EXCEPT !.recv = ChunkEnd(m)]
  <2>1. /\ m \in Message /\ Tells(x, m)
        /\ down' = [down EXCEPT ![x] = Tail(down[x])] /\ Goes(down[x], Tail(down[x]), {})
        /\ UNCHANGED <<h, world>> /\ read' = read /\ Types
    BY ReceiptKeeps, Zenon
  <2>2. /\ s[x] \in Session /\ Live(s[x], x) /\ s[x].st \in {"connecting", "open"} /\ s[x].st # "none"
        /\ Local(x) /\ how[x] = "running"
    BY LiveFacts, Zenon
  <2>3. /\ m.off \in Nat /\ m.data \in Seq(Nat) /\ Len(m.data) \in Nat
        /\ ChunkEnd(m) = m.off + Len(m.data) /\ ChunkEnd(m) \in Nat
    BY <2>1, MessageFields, Zenon
  <2> HIDE DEF m
  <2>4. s[x].recv = Len(got[x]) /\ Len(got[x]) \in Nat /\ got[x] \in Seq(Nat)
    BY <2>1, <2>2, TypesFacts, Zenon DEF Live, Agrees
  <2>5. ASSUME Ignore(x), UNCHANGED got PROVE Kept
    BY <2>5, <1>IgnoreKeeps, Zenon
  <2>6. ASSUME Fail(x), UNCHANGED got PROVE Kept
    BY <2>1, <2>6, <1>FailKeeps, Zenon
  <2>7. ASSUME SendEnvelopes(x, Acknowledgement(s[x])), UNCHANGED <<s, how, got>>
        PROVE  Kept
    <3>1. s[x].recv <= Len(got'[x])
      BY <2>4, <2>7
    <3>2. UNCHANGED <<s, h, world, read, got, how>>
      BY <2>1, <2>7, Zenon
    <3> QED BY <2>1, <2>2, <2>7, <3>1, <3>2, <1>AcknowledgementTells, <1>AnswerKeeps, Zenon
  <2>8. ASSUME Continues(s[x], m), s' = [s EXCEPT ![x] = e], got' = [got EXCEPT ![x] = @ \o m.data],
               SendEnvelopes(x, Acknowledgement(e)), UNCHANGED how
        PROVE  Kept
    <3> DEFINE g == got[x] \o m.data
               y == Peer(x)
    <3>1. /\ e \in Session /\ e.st = s[x].st /\ e.send = s[x].send /\ e.acked = s[x].acked
          /\ e.recv = ChunkEnd(m) /\ e.replay = s[x].replay /\ e.opened = s[x].opened
          /\ e.paused = s[x].paused
      BY <2>2, <2>3, Zenon DEF Session
    <3>2. g \in Seq(Nat) /\ Len(g) = Len(got[x]) + Len(m.data)
      BY <2>3, <2>4
    <3>3. Len(g) = ChunkEnd(m) /\ Len(got[x]) <= Len(g)
      <4>1. m.off = Len(got[x])
        BY <2>4, <2>8, Zenon DEF Continues
      <4>2. \A a, b \in Nat : a <= a + b
        OBVIOUS
      <4> HIDE DEF g, e
      <4> QED BY <2>3, <2>4, <3>2, <4>1, <4>2, Zenon
    <3>4. got' = [got EXCEPT ![x] = g] /\ how' = [how EXCEPT ![x] = how[x]]
          /\ read' = [read EXCEPT ![x] = read[x]]
      BY <2>1, <2>8, Zenon DEF Types
    <3> HIDE DEF g, e, y
    <3>5. y \in Ends /\ y # x /\ Peer(x) = y
      BY PeerFacts, Zenon DEF y
    <3>6. s'[x] = e /\ got'[x] = g /\ got'[y] = got[y]
      BY <2>1, <2>8, <3>4, <3>5, Zenon DEF Types
    <3>7. ChunkEnd(m) <= read[y]
      <4>1. Tells(x, m) => ChunkEnd(m) <= read[Peer(x)]
        BY Zenon DEF Tells, m
      <4> QED BY <2>1, <3>5, <4>1, Zenon
    <3>8. Buffer(e)
      BY <2>2, <3>1, <1>BufferSame, Zenon DEF Live
    <3>9. Agrees(s[x], x)'
      BY <2>1, <2>2, <3>1, <3>3, <3>5, <3>6, Zenon DEF Live, Agrees
    <3>10. Live(s[x], x)'
      BY <2>1, <2>2, <2>8, <3>1, <3>6, <3>8, <3>9, Zenon DEF Live
    <3>11. Exists(x)' /\ e.st # "none"
      BY <2>2, <3>1, <3>6, Zenon DEF Exists
    <3>12. Local(x)'
      BY <2>1, <2>2, <3>3, <3>5, <3>6, <3>7, <3>10, <3>11, Zenon DEF Local
    <3>13. e.recv <= Len(got'[x])
      BY <2>3, <3>1, <3>3, <3>6
    <3>14. /\ Acknowledgement(e) \in Seq(Message) /\ ~Opens(Acknowledgement(e))
           /\ In(Acknowledgement(e)) \subseteq Told(Peer(x))'
      BY <3>1, <3>13, <1>AcknowledgementTells, Zenon
    <3>15. read[x] \in Nat /\ read[x] <= read[x] /\ how[x] \in {"running", "end", "ended", "error"}
           /\ how[x] # "end"
      <4>1. read[x] \in Nat
        BY <2>1, TypesFacts, Zenon
      <4> QED BY <2>2, <4>1
    <3>16. s[x].opened => e.opened
      BY <3>1, Zenon
    <3> QED BY <2>1, <2>2, <2>8, <3>1, <3>2, <3>3, <3>4, <3>11, <3>12, <3>14, <3>15, <3>16, <1>TunnelKeeps, Zenon
  <2> QED BY <2>5, <2>6, <2>7, <2>8, Zenon DEF OnData, m, e
\* A session that differs in nothing Live speaks of, or is paused too.
<1>LiveSame.
    ASSUME NEW x \in Ends, NEW e, NEW f, Live(e, x), f.send = e.send, f.acked = e.acked,
           f.recv = e.recv, f.replay = e.replay, f.opened = e.opened \/ f.opened,
           e.paused => f.paused \/ f.opened
    PROVE  Live(f, x)
  <2> USE <1>LiveSame
  <2>1. Buffer(f)
    BY <1>BufferSame, Zenon DEF Live
  <2>2. Agrees(f, x)
    BY Zenon DEF Live, Agrees
  <2> QED BY <2>1, <2>2, Zenon DEF Live
\* transportDisconnected
<1>WorkerClosesKeeps.
    ASSUME IInv, NEW x \in Ends, WorkerCloses(x)
    PROVE  Kept
  <2> USE <1>WorkerClosesKeeps
  <2> DEFINE e == [s[x] EXCEPT !.susp = @ \/ Exists(x), !.paused = @ \/ Exists(x)]
  <2>1. /\ s' = [s EXCEPT ![x].susp = @ \/ Exists(x), ![x].paused = @ \/ Exists(x)]
        /\ ws' = [ws EXCEPT ![x] = "down"]
        /\ down' = [down EXCEPT ![x] = <<>>] /\ UNCHANGED <<h, conn, read, got, how>>
    BY Zenon DEF WorkerCloses
  <2>2. PICK q \in Prefixes(up[x]) : up' = [up EXCEPT ![x] = q]
    BY Zenon DEF WorkerCloses
  <2>3. Types /\ s[x] \in Session /\ Local(x) /\ s \in [Ends -> Session]
    BY LiveFacts, Zenon DEF Types
  <2>4. s' = [s EXCEPT ![x] = e]
    BY <2>1, <2>3, Zenon
  <2>5. /\ e \in Session /\ e.st = s[x].st /\ e.send = s[x].send /\ e.acked = s[x].acked
        /\ e.recv = s[x].recv /\ e.replay = s[x].replay /\ e.opened = s[x].opened
        /\ (s[x].paused => e.paused)
    <3>1. PICK b : b = Exists(x)
      BY Zenon
    <3>3. e = [s[x] EXCEPT !.susp = @ \/ b, !.paused = @ \/ b]
      BY <3>1, Zenon
    <3>4. s[x].susp \in BOOLEAN /\ s[x].paused \in BOOLEAN
      BY <2>3, SessionFields, Zenon
    <3>5. (s[x].susp \/ b) \in BOOLEAN /\ (s[x].paused \/ b) \in BOOLEAN
      BY Zenon
    <3> HIDE DEF e
    <3> QED BY <2>3, <3>3, <3>5, Zenon DEF Session
  <2> HIDE DEF e
  <2>6. up[x] \in Seq(Message) /\ down[x] \in Seq(Message) /\ read[x] \in Nat /\ got[x] \in Seq(Nat)
        /\ Len(got[x]) \in Nat
    BY <2>3, TypesFacts, Zenon
  <2>7. Goes(up[x], q, Told(Peer(x))') /\ Goes(down[x], <<>>, {})
    <3>1. Goes(up[x], q, {}) /\ Goes(down[x], <<>>, {})
      BY <2>2, <2>6, GoesFacts, Zenon
    <3> QED BY <3>1, Zenon DEF Goes
  <2>8. /\ ws' \in [Ends -> {"up", "closing", "down", "joining"}]
        /\ how[x] \in {"running", "end", "ended", "error"}
        /\ read' = [read EXCEPT ![x] = read[x]] /\ got' = [got EXCEPT ![x] = got[x]]
        /\ how' = [how EXCEPT ![x] = how[x]]
    BY <2>1, <2>3, Zenon DEF Types
  <2>9. faults' \in 0..Faults
    <3>1. faults \in 0..Faults /\ Faults \in Nat
      BY <2>3, StreamConstants, Zenon DEF Types
    <3>2. faults' = faults \/ (faults > 0 /\ faults' = faults - 1)
      BY Zenon DEF WorkerCloses, Starts
    <3> QED BY <3>1, <3>2
  <2>10. s'[x] = e /\ how' = how /\ read' = read /\ got' = got
    BY <2>1, <2>3, <2>4, Zenon
  <2>11. Local(x)'
    <3>1. Exists(x)' = Exists(x)
      BY <2>5, <2>10, Zenon DEF Exists
    <3>2. Live(s[x], x) => Live(e, x)
      BY <2>5, <1>LiveSame, Zenon
    <3>3. Live(s[x], x) => Live(s[x], x)'
      <4>1. Live(e, x) => Live(s[x], x)'
        BY <2>10, Zenon DEF Live, Agrees
      <4> QED BY <3>2, <4>1, Zenon
    <3>4. Blank(s[x]) => Blank(s[x])'
      BY <2>5, <2>10, Zenon DEF Blank
    <3> QED BY <2>3, <2>5, <2>10, <3>1, <3>3, <3>4, Zenon DEF Local
  <2>12. read[x] <= read[x] /\ Len(got[x]) <= Len(got[x]) /\ h' = h /\ conn' = conn
    BY <2>1, <2>6
  <2>13. (s[x].opened => e.opened) /\ (e.st = "none" <=> s[x].st = "none")
         /\ (how[x] = "end" => how[x] = "end" /\ read[x] = read[x])
    BY <2>5, Zenon
  <2>14. down' = [down EXCEPT ![x] = <<>>] /\ up' = [up EXCEPT ![x] = q]
    BY <2>1, <2>2, Zenon
  <2>15. e \in Session
    BY <2>5, Zenon
  <2> QED BY <2>4, <2>6, <2>7, <2>8, <2>9, <2>11, <2>12, <2>13, <2>14, <2>15, <1>WorkerKeeps, Zenon
\* The same, when no byte is read or delivered.
<1>TunnelKeepsBytes.
    ASSUME IInv, NEW x \in Ends, NEW e \in Session, NEW ms \in Seq(Message), NEW d,
           s' = [s EXCEPT ![x] = e], SendEnvelopes(x, ms), down' = [down EXCEPT ![x] = d],
           UNCHANGED <<h, world, read, got, how>>,
           ~Opens(ms), In(ms) \subseteq Told(Peer(x))', Goes(down[x], d, {}),
           s[x].opened => e.opened, e.st = "none" <=> s[x].st = "none",
           Exists(x), e.st \in {"connecting", "open"}, Live(e, x)
    PROVE  Kept
  <2> USE <1>TunnelKeepsBytes
  <2>1. Types /\ Local(x)
    BY Zenon DEF IInv, Sessions
  <2>2. /\ read[x] \in Nat /\ got[x] \in Seq(Nat) /\ Len(got[x]) \in Nat
        /\ how[x] \in {"running", "end", "ended", "error"}
        /\ read = [read EXCEPT ![x] = read[x]] /\ got = [got EXCEPT ![x] = got[x]]
        /\ how = [how EXCEPT ![x] = how[x]]
    <3>1. Len(got[x]) \in Nat
      BY <2>1, TypesFacts, Zenon
    <3> QED BY <2>1, <3>1, Zenon DEF Types
  <2>3. read[x] <= read[x] /\ Len(got[x]) <= Len(got[x])
    BY <2>2
  <2>4. s'[x] = e
    BY <2>1, Zenon DEF Types
  <2>5. Live(s[x], x)' /\ Exists(x)' /\ e.st # "none"
    <3>1. Exists(x)' /\ e.st # "none"
      BY <2>4 DEF Exists
    <3>2. Agrees(e, x) => Agrees(e, x)'
      BY Zenon DEF Agrees
    <3> QED BY <2>4, <3>1, <3>2, Zenon DEF Live
  <2>6. Local(x)'
    BY <2>1, <2>4, <2>5, Zenon DEF Local
  <2>7. read' = [read EXCEPT ![x] = read[x]] /\ got' = [got EXCEPT ![x] = got[x]]
        /\ how' = [how EXCEPT ![x] = how[x]] /\ UNCHANGED <<h, world>>
    BY <2>2, Zenon
  <2> QED BY <2>2, <2>3, <2>6, <2>7, <1>TunnelKeeps, Zenon
\* The target of the destination accepts the connection.
<1>TargetConnectsKeeps.
    ASSUME IInv, NEW x \in Ends, TargetConnects(x)
    PROVE  Kept
  <2> USE <1>TargetConnectsKeeps
  <2> DEFINE m == Msg("opened", s[x].gen)
             e == [s[x] EXCEPT !.st = "open"]
  <2>1. /\ s[x].st = "connecting" /\ s' = [s EXCEPT ![x] = e] /\ SendEnvelopes(x, <<m>>)
        /\ UNCHANGED <<h, world, down, read, got, how>>
    BY Zenon DEF TargetConnects
  <2>2. Exists(x)
    BY <2>1 DEF Exists
  <2>3. Types /\ s[x] \in Session /\ Live(s[x], x) /\ s[x].st # "none"
    BY <2>2, LiveFacts, Zenon
  <2>4. /\ e \in Session /\ e.st = "open" /\ e.send = s[x].send /\ e.acked = s[x].acked
        /\ e.recv = s[x].recv /\ e.replay = s[x].replay /\ e.opened = s[x].opened
        /\ e.paused = s[x].paused
    BY <2>3 DEF Session
  <2> HIDE DEF e
  <2>5. Live(e, x) /\ e.st \in {"connecting", "open"} /\ e.st # "none"
    <3>1. Live(e, x)
      BY <2>3, <2>4, <1>LiveSame, Zenon
    <3> QED BY <2>4, <3>1
  <2>6. m \in Message /\ m.t = "opened"
    <3>1. s[x].gen \in Gens
      BY <2>3, SessionFields, Zenon
    <3> QED BY <3>1, MessagesMade, Zenon
  <2> HIDE DEF m
  <2>7. <<m>> \in Seq(Message) /\ In(<<m>>) = {m} /\ ~Opens(<<m>>)
    BY <2>6, ShortList
  <2>8. In(<<m>>) \subseteq Told(Peer(x))'
    BY <2>6, <2>7, TunnelTells, Zenon
  <2>9. down' = [down EXCEPT ![x] = down[x]] /\ Goes(down[x], down[x], {})
    BY <2>1, <2>3, TypesFacts, GoesFacts, Zenon DEF Types
  <2>10. UNCHANGED <<h, world, read, got, how>>
    BY <2>1, Zenon
  <2> QED BY <2>1, <2>2, <2>3, <2>4, <2>5, <2>7, <2>8, <2>9, <2>10, <1>TunnelKeepsBytes, Zenon
\* suspendSession
<1>OnSuspendKeeps.
    ASSUME IInv, NEW x \in Ends, Receipt(x), Exists(x), Head(down[x]).t = "suspend",
           OnSuspend(x, Head(down[x])), UNCHANGED got
    PROVE  Kept
  <2> USE <1>OnSuspendKeeps
  <2> DEFINE m == Head(down[x])
             e == [s[x] EXCEPT !.susp = TRUE, !.paused = TRUE]
             n == ResumeState(s[x])
  <2>1. /\ m \in Message /\ Tells(x, m)
        /\ down' = [down EXCEPT ![x] = Tail(down[x])] /\ Goes(down[x], Tail(down[x]), {})
        /\ UNCHANGED <<h, world>> /\ read' = read /\ Types
    BY ReceiptKeeps, Zenon
  <2>2. /\ s[x] \in Session /\ Live(s[x], x) /\ s[x].st \in {"connecting", "open"} /\ s[x].st # "none"
        /\ Buffer(s[x])
    BY LiveFacts, Zenon
  <2>3. Pipes => s["source"].opened
    BY <2>1 DEF Tells, Recovery
  <2>4. ASSUME Fail(x) PROVE Kept
    BY <2>1, <2>4, <1>FailKeeps, Zenon
  <2>5. ASSUME s' = [s EXCEPT ![x].susp = TRUE, ![x].paused = TRUE], SendEnvelopes(x, <<n>>), UNCHANGED how
        PROVE  Kept
    <3>1. s' = [s EXCEPT ![x] = e]
      BY <2>1, <2>5, Zenon DEF Types
    <3>2. /\ e \in Session /\ e.st = s[x].st /\ e.send = s[x].send /\ e.acked = s[x].acked
          /\ e.recv = s[x].recv /\ e.replay = s[x].replay /\ e.opened = s[x].opened /\ e.paused = TRUE
      BY <2>2, Zenon DEF Session
    <3> HIDE DEF e
    <3>3. Live(e, x)
      BY <2>2, <3>2, <1>LiveSame, Zenon
    <3>4. Pipes => s'["source"].opened
      <4>1. "source" \in Ends /\ (x = "source" => s'["source"] = e)
            /\ (x # "source" => s'["source"] = s["source"])
        BY <2>1, <3>1, Zenon DEF Types, Ends
      <4> QED BY <2>3, <3>2, <4>1, Zenon
    <3>5. s[x].recv = Len(got'[x])
      BY <2>2, Zenon DEF Live, Agrees
    <3>6. n \in Told(Peer(x))' /\ n.t = "resume"
      BY <2>2, <3>4, <3>5, ResumeStateTells, Zenon
    <3> HIDE DEF n
    <3>7. n \in Message
      BY <3>6, Zenon DEF Told
    <3>8. <<n>> \in Seq(Message) /\ In(<<n>>) = {n} /\ ~Opens(<<n>>)
      BY <3>6, <3>7, ShortList
    <3>9. In(<<n>>) \subseteq Told(Peer(x))'
      BY <3>6, <3>8, Zenon
    <3>10. UNCHANGED <<h, world, read, got, how>> /\ (s[x].opened => e.opened)
      BY <2>1, <2>5, <3>2, Zenon
    <3> QED BY <2>1, <2>2, <2>5, <3>1, <3>2, <3>3, <3>8, <3>9, <3>10, <1>TunnelKeepsBytes, Zenon
  <2> QED BY <2>4, <2>5, Zenon DEF OnSuspend
<1>OnOpenedKeeps.
    ASSUME IInv, NEW x \in Ends, Receipt(x), Exists(x), OnOpened(x, Head(down[x])), UNCHANGED got
    PROVE  Kept
  <2> USE <1>OnOpenedKeeps
  <2> DEFINE m == Head(down[x])
             e == [s[x] EXCEPT !.opened = TRUE, !.paused = @ /\ s[x].susp]
  <2>1. /\ down' = [down EXCEPT ![x] = Tail(down[x])] /\ Goes(down[x], Tail(down[x]), {})
        /\ UNCHANGED <<h, world>> /\ read' = read /\ Types
    BY ReceiptKeeps, Zenon
  <2>2. ASSUME Ignore(x) PROVE Kept
    BY <2>2, <1>IgnoreKeeps, Zenon
  <2>3. ASSUME Fail(x) PROVE Kept
    BY <2>1, <2>3, <1>FailKeeps, Zenon
  <2>4. ASSUME s' = [s EXCEPT ![x].opened = TRUE, ![x].paused = @ /\ s[x].susp], UNCHANGED <<up, how>>
        PROVE  Kept
    <3>1. s' = [s EXCEPT ![x] = e]
      BY <2>1, <2>4, Zenon DEF Types
    <3>2. s[x] \in Session /\ Live(s[x], x) /\ s[x].st \in {"connecting", "open"} /\ s[x].st # "none"
      BY LiveFacts, Zenon
    <3>3. /\ e \in Session /\ e.st = s[x].st /\ e.send = s[x].send /\ e.acked = s[x].acked
          /\ e.recv = s[x].recv /\ e.replay = s[x].replay /\ e.opened = TRUE
      BY <3>2, Zenon DEF Session
    <3> HIDE DEF e
    <3>4. Live(e, x)
      BY <3>2, <3>3, <1>LiveSame, Zenon
    <3>5. up[x] \in Seq(Message) /\ up = [up EXCEPT ![x] = up[x]] /\ up[x] \o <<>> = up[x]
      <4>1. up[x] \in Seq(Message) /\ up = [up EXCEPT ![x] = up[x]]
        BY <2>1, Zenon DEF Types
      <4> QED BY <4>1
    <3>6. SendEnvelopes(x, <<>>)
      BY <2>4, <3>5, Zenon DEF SendEnvelopes
    <3>7. <<>> \in Seq(Message) /\ ~Opens(<<>>) /\ In(<<>>) \subseteq Told(Peer(x))'
      BY ShortList, Zenon
    <3>8. UNCHANGED <<h, world, read, got, how>>
      BY <2>1, <2>4, Zenon
    <3> QED BY <2>1, <3>1, <3>2, <3>3, <3>4, <3>6, <3>7, <3>8, <1>TunnelKeepsBytes, Zenon
  <2> QED BY <2>2, <2>3, <2>4, Zenon DEF OnOpened
\* What From leaves of a buffer, when j is the first of the chunks kept.
<1>FromSuffix.
    ASSUME NEW r \in Seq(Chunk), NEW K \in SUBSET (1..Len(r)), NEW j \in K, \A k \in K : j <= k
    PROVE  /\ From(r, K) \in Seq(Chunk) /\ In(From(r, K)) \subseteq In(r)
           /\ Len(From(r, K)) = Len(r) - j + 1
           /\ \A i \in 1..(Len(r) - j + 1) : From(r, K)[i] = r[i + j - 1]
  <2> USE <1>FromSuffix
  <2>1. Min(K) = j
    <3>1. \A k \in K : (\A i \in K : k <= i) => k = j
      <4>1. \A k \in K : k <= j /\ j <= k => k = j
        OBVIOUS
      <4> QED BY <4>1, Zenon
    <3> QED BY <3>1, Zenon DEF Min
  <2>2. From(r, K) = SubSeq(r, j, Len(r))
    BY <2>1, Zenon DEF From
  <2>3. /\ SubSeq(r, j, Len(r)) \in Seq(Chunk) /\ Len(SubSeq(r, j, Len(r))) = Len(r) - j + 1
        /\ \A i \in 1..(Len(r) - j + 1) : SubSeq(r, j, Len(r))[i] = r[i + j - 1]
    OBVIOUS
  <2>4. \A i \in 1..(Len(r) - j + 1) : i + j - 1 \in 1..Len(r)
    OBVIOUS
  <2>5. In(SubSeq(r, j, Len(r))) \subseteq In(r)
    BY <2>3, <2>4, Zenon DEF In
  <2> QED BY <2>2, <2>3, <2>5, Zenon
\* trimReplayToOffset drops what is acknowledged.
<1>BufferTrim.
    ASSUME NEW e \in Session, Buffer(e), NEW n \in Boundaries(e), e.acked <= n
    PROVE  /\ Trim(e, n) = [e EXCEPT !.acked = n, !.replay = Trim(e, n).replay]
           /\ Trim(e, n) \in Session /\ Buffer(Trim(e, n))
           /\ Trim(e, n).send = e.send /\ Trim(e, n).acked = n
           /\ Trim(e, n).st = e.st /\ Trim(e, n).opened = e.opened /\ Trim(e, n).gen = e.gen
           /\ Trim(e, n).recv = e.recv /\ Trim(e, n).susp = e.susp /\ Trim(e, n).paused = e.paused
           /\ In(Trim(e, n).replay) \subseteq In(e.replay)
  <2> USE <1>BufferTrim
  <2> DEFINE r == e.replay
             K == {i \in DOMAIN r : ChunkEnd(r[i]) > n}
             f == Trim(e, n)
             q == From(r, K)
  <2>1. /\ r \in Seq(Chunk) /\ Len(r) \in Nat /\ DOMAIN r = 1..Len(r)
        /\ e.send \in Nat /\ e.acked \in Nat
    BY SessionFields, Zenon
  <2>2. n \in Nat /\ n <= e.send
    BY BufferFacts, Zenon
  <2>3. ASSUME NEW i \in 1..Len(r)
        PROVE  /\ r[i].off \in Nat /\ Len(r[i].data) \in Nat /\ Len(r[i].data) >= 1
               /\ ChunkEnd(r[i]) = r[i].off + Len(r[i].data)
               /\ Len(r[i].data) \in Sizes /\ ChunkEnd(r[i]) <= e.send
    <3>1. r[i] \in In(r)
      BY Zenon DEF In
    <3>2. r[i] \in Chunk /\ Len(r[i].data) \in Sizes /\ ChunkEnd(r[i]) <= e.send
      BY <3>1, BufferFacts, Zenon
    <3> QED BY <3>2, ChunkFields, StreamConstants
  <2>4. K \in SUBSET (1..Len(r))
    BY <2>1
  <2>9. ASSUME n # e.send
        PROVE  \E j \in K : n = r[j].off /\ \A i \in K : j <= i
    <3>1. PICK j \in 1..Len(r) : n = r[j].off
      BY <2>1, <2>9 DEF Boundaries
    <3>2. j \in K
      <4>1. /\ r[j].off \in Nat /\ Len(r[j].data) \in Nat /\ Len(r[j].data) >= 1
            /\ ChunkEnd(r[j]) = r[j].off + Len(r[j].data)
        BY <2>3, Zenon
      <4>2. \A a, b \in Nat : b >= 1 => a + b > a
        OBVIOUS
      <4>3. ChunkEnd(r[j]) > n
        BY <3>1, <4>1, <4>2, Zenon
      <4> QED BY <2>1, <4>3, Zenon
    <3>3. \A i \in 1..Len(r) : i < j => ChunkEnd(r[i]) <= n
      BY <3>1, Zenon DEF Buffer
    <3>4. \A i \in K : j <= i
      <4>1. ASSUME NEW i \in K PROVE j <= i
        <5>1. i \in 1..Len(r) /\ ChunkEnd(r[i]) > n
          BY <2>1, Zenon
        <5>2. ChunkEnd(r[i]) \in Nat
          BY <2>3, <5>1
        <5>3. ~(ChunkEnd(r[i]) <= n)
          BY <2>2, <5>1, <5>2
        <5>4. ~(i < j)
          BY <3>3, <5>1, <5>3, Zenon
        <5> QED BY <5>1, <5>4
      <4> QED BY <4>1, Zenon
    <3> QED BY <3>1, <3>2, <3>4, Zenon
  <2>10. ASSUME n = e.send
         PROVE  K = {}
    <3> SUFFICES ASSUME NEW i \in K PROVE FALSE
      BY Zenon
    <3>1. i \in 1..Len(r) /\ ChunkEnd(r[i]) > n
      BY <2>1, Zenon
    <3>2. ChunkEnd(r[i]) <= n /\ ChunkEnd(r[i]) \in Nat
      <4>1. /\ r[i].off \in Nat /\ Len(r[i].data) \in Nat
            /\ ChunkEnd(r[i]) = r[i].off + Len(r[i].data) /\ ChunkEnd(r[i]) <= e.send
        BY <2>3, <3>1, Zenon
      <4>2. \A a, b \in Nat : a + b \in Nat
        OBVIOUS
      <4> QED BY <2>10, <4>1, <4>2, Zenon
    <3> QED BY <2>2, <3>1, <3>2
  <2>5. q \in Seq(Chunk) /\ In(q) \subseteq In(r)
    <3> HIDE DEF K
    <3>1. CASE n = e.send
      BY <2>10, <3>1 DEF From, In
    <3>2. CASE n # e.send
      BY <2>1, <2>4, <2>9, <3>2, <1>FromSuffix, Zenon
    <3> QED BY <3>1, <3>2, Zenon
  <2>6. /\ f = [e EXCEPT !.acked = n, !.replay = q] /\ f \in Session
        /\ f.replay = q /\ f.send = e.send /\ f.acked = n
        /\ f.st = e.st /\ f.opened = e.opened /\ f.gen = e.gen
        /\ f.recv = e.recv /\ f.susp = e.susp /\ f.paused = e.paused
    <3>1. f = [e EXCEPT !.acked = n, !.replay = q]
      BY DEF Trim
    <3> HIDE DEF q, f
    <3> QED BY <3>1, <2>2, <2>5, Zenon DEF Session
  <2> HIDE DEF f
  <2>7. Buffer(f)
    <3>1. CASE n = e.send
      <4>2. q = <<>>
        BY <2>10, <3>1, Zenon DEF From
      <4> HIDE DEF q
      <4> QED BY <2>1, <2>6, <3>1, <4>2, StreamConstants DEF Buffer
    <3>2. CASE n # e.send
      <4> HIDE DEF K
      <4>1. PICK j \in K : n = r[j].off /\ \A i \in K : j <= i
        BY <2>9, <3>2, Zenon
      <4>2. j \in 1..Len(r)
        BY <2>4, <4>1, Zenon
      <4>7. /\ Len(q) = Len(r) - j + 1
            /\ \A i \in 1..(Len(r) - j + 1) : q[i] = r[i + j - 1]
        BY <2>1, <2>4, <4>1, <1>FromSuffix, Zenon
      <4> HIDE DEF q
      <4>8. \A i \in 1..Len(q) : i + j - 1 \in 1..Len(r) /\ q[i] = r[i + j - 1]
        BY <2>1, <4>2, <4>7
      <4>9. Len(q) \in Nat /\ Len(q) > 0
        BY <2>1, <4>2, <4>7
      <4>10. f.acked <= f.send /\ f.send - f.acked <= MaxReplay
        BY <2>1, <2>2, <2>6, StreamConstants DEF Buffer
      <4>11. \A i \in 1..Len(q) : Len(q[i].data) \in Sizes
        BY <2>3, <4>8, Zenon
      <4>12. q[1].off = n
        BY <2>1, <4>1, <4>2, <4>7, <4>9
      <4>13. ChunkEnd(q[Len(q)]) = f.send
        <5>1. Len(q) \in 1..Len(q) /\ Len(q) + j - 1 = Len(r) /\ Len(r) > 0
          BY <2>1, <4>2, <4>7, <4>9
        <5>2. q[Len(q)] = r[Len(r)]
          BY <4>8, <5>1, Zenon
        <5> QED BY <2>6, <5>1, <5>2, Zenon DEF Buffer
      <4>14. ASSUME NEW i \in 1..Len(q) - 1
             PROVE  ChunkEnd(q[i]) = q[i + 1].off
        <5>1. i + j - 1 \in 1..Len(r) - 1 /\ (i + j - 1) + 1 = (i + 1) + j - 1
          BY <2>1, <4>2, <4>7
        <5>2. ChunkEnd(r[i + j - 1]) = r[(i + j - 1) + 1].off
          BY <5>1, Zenon DEF Buffer
        <5>3. i \in 1..Len(q) /\ i + 1 \in 1..Len(q)
          BY <4>9
        <5>4. q[i] = r[i + j - 1] /\ q[i + 1] = r[(i + 1) + j - 1]
          BY <4>8, <5>3, Zenon
        <5> QED BY <5>1, <5>2, <5>4, Zenon
      <4>15. ASSUME NEW i \in 1..Len(q), NEW k \in 1..Len(q), i < k
             PROVE  ChunkEnd(q[i]) <= q[k].off
        <5>1. i + j - 1 < k + j - 1
          BY <4>2, <4>15
        <5> QED BY <4>8, <5>1, Zenon DEF Buffer
      <4>16. ~(Len(q) = 0)
        BY <4>9
      <4> QED BY <2>6, <4>10, <4>11, <4>12, <4>13, <4>14, <4>15, <4>16, Zenon DEF Buffer
    <3> QED BY <3>1, <3>2
  <2>8. f = [e EXCEPT !.acked = n, !.replay = f.replay] /\ In(f.replay) \subseteq In(r)
    BY <2>5, <2>6, Zenon
  <2> QED BY <2>6, <2>7, <2>8, Zenon DEF f
\* The chunks to replay are chunks of the buffer.
<1>RestIn.
    ASSUME NEW e \in Session, Buffer(e), NEW n \in Boundaries(e)
    PROVE  Rest(e, n) \in Seq(Chunk) /\ In(Rest(e, n)) \subseteq In(e.replay)
  <2> USE <1>RestIn
  <2> DEFINE r == e.replay
             K == {i \in DOMAIN r : r[i].off >= n}
  <2>1. /\ r \in Seq(Chunk) /\ Len(r) \in Nat /\ DOMAIN r = 1..Len(r) /\ e.send \in Nat
    BY SessionFields, Zenon
  <2>2. ASSUME NEW i \in 1..Len(r)
        PROVE  r[i].off \in Nat /\ ChunkEnd(r[i]) \in Nat /\ r[i].off < ChunkEnd(r[i])
               /\ ChunkEnd(r[i]) <= e.send
    <3>1. r[i] \in In(r)
      BY Zenon DEF In
    <3>2. r[i] \in Chunk /\ Len(r[i].data) \in Sizes /\ ChunkEnd(r[i]) <= e.send
      BY <3>1, BufferFacts, Zenon
    <3> QED BY <3>2, ChunkFields, StreamConstants
  <2>3. K \in SUBSET (1..Len(r)) /\ Rest(e, n) = From(r, K)
    BY <2>1 DEF Rest
  <2>4. CASE n = e.send
    <3>1. K = {}
      BY <2>1, <2>2, <2>4
    <3> HIDE DEF K
    <3> QED BY <2>3, <3>1 DEF From, In
  <2>5. CASE n # e.send
    <3>1. PICK j \in 1..Len(r) : n = r[j].off
      BY <2>1, <2>5 DEF Boundaries
    <3>2. j \in K
      BY <2>1, <2>2, <3>1
    <3>3. \A i \in 1..Len(r) : i < j => ChunkEnd(r[i]) <= n
      BY <3>1, Zenon DEF Buffer
    <3>4. \A i \in K : j <= i
      BY <2>1, <2>2, <3>1, <3>3
    <3> HIDE DEF K
    <3> QED BY <2>1, <2>3, <3>2, <3>4, <1>FromSuffix, Zenon
  <2> QED BY <2>4, <2>5, Zenon
\* A session whose buffer was trimmed to what the other process has.
<1>LiveTrim.
    ASSUME NEW x \in Ends, NEW e \in Session, Live(e, x), NEW n \in Boundaries(e), e.acked <= n,
           n <= Len(got[Peer(x)]), NEW f, f.send = e.send, f.acked = n, f.recv = e.recv,
           f.replay = Trim(e, n).replay, f.opened = e.opened, e.paused => f.paused \/ f.opened
    PROVE  Live(f, x)
  <2> USE <1>LiveTrim
  <2> DEFINE t == Trim(e, n)
  <2>1. Buffer(e)
    BY Zenon DEF Live
  <2>2. Buffer(t) /\ t.send = e.send /\ t.acked = n /\ In(t.replay) \subseteq In(e.replay)
    BY <2>1, <1>BufferTrim, Zenon
  <2> HIDE DEF t
  <2>3. Buffer(f)
    BY <2>2, <1>BufferSame, Zenon DEF t
  <2>4. Agrees(f, x)
    BY Zenon DEF Live, Agrees
  <2>5. In(f.replay) \subseteq In(e.replay)
    BY <2>2, Zenon DEF t
  <2> QED BY <2>3, <2>4, <2>5, Zenon DEF Live
\* receiveAcknowledgement
<1>OnAckKeeps.
    ASSUME IInv, NEW x \in Ends, Receipt(x), Exists(x), Head(down[x]).t = "ack",
           OnAck(x, Head(down[x])), UNCHANGED got
    PROVE  Kept
  <2> USE <1>OnAckKeeps
  <2> DEFINE m == Head(down[x])
             f == Trim(s[x], m.n)
             e == [f EXCEPT !.paused = @ /\ ~(f.opened /\ ~f.susp /\ ReplayBytes(f) <= LowWater)]
  <2>1. /\ m \in Message /\ Tells(x, m)
        /\ down' = [down EXCEPT ![x] = Tail(down[x])] /\ Goes(down[x], Tail(down[x]), {})
        /\ UNCHANGED <<h, world>> /\ read' = read /\ Types
    BY ReceiptKeeps, Zenon
  <2>2. /\ s[x] \in Session /\ Live(s[x], x) /\ s[x].st \in {"connecting", "open"} /\ s[x].st # "none"
        /\ Buffer(s[x])
    BY LiveFacts, Zenon
  <2>3. m.n \in Nat /\ m.n <= Len(got[Peer(x)])
    <3>1. m.n \in Nat
      BY <2>1, MessageFields
    <3>2. m.n <= Len(got[Peer(x)])
      BY <2>1 DEF Tells
    <3> QED BY <3>1, <3>2
  <2>4. ASSUME Ignore(x) PROVE Kept
    BY <2>4, <1>IgnoreKeeps, Zenon
  <2>5. ASSUME Fail(x) PROVE Kept
    BY <2>1, <2>5, <1>FailKeeps, Zenon
  <2>6. ASSUME ~(m.n <= s[x].acked), m.n \in Boundaries(s[x]), s' = [s EXCEPT ![x] = e],
               UNCHANGED <<up, how>>
        PROVE  Kept
    <3> HIDE DEF m
    <3>1. s[x].acked <= m.n
      <4>1. s[x].acked \in Nat
        BY <2>2, SessionFields, Zenon
      <4>2. \A a, b \in Nat : ~(b <= a) => a <= b
        OBVIOUS
      <4> QED BY <2>3, <2>6, <4>1, <4>2, Zenon
    <3>2. /\ f \in Session /\ f.send = s[x].send /\ f.acked = m.n /\ f.recv = s[x].recv
          /\ f.opened = s[x].opened /\ f.paused = s[x].paused /\ f.st = s[x].st
      BY <2>2, <2>6, <3>1, <1>BufferTrim, Zenon
    <3> HIDE DEF f
    <3>3. /\ e \in Session /\ e.st = f.st /\ e.send = f.send /\ e.acked = f.acked
          /\ e.recv = f.recv /\ e.replay = f.replay /\ e.opened = f.opened
          /\ e.paused = (f.paused /\ ~(f.opened /\ ~f.susp /\ ReplayBytes(f) <= LowWater))
      <4> DEFINE p == f.paused /\ ~(f.opened /\ ~f.susp /\ ReplayBytes(f) <= LowWater)
      <4>1. p \in BOOLEAN /\ e = [f EXCEPT !.paused = p]
        BY Zenon
      <4> HIDE DEF p, e
      <4>2. /\ e \in Session /\ e.st = f.st /\ e.send = f.send /\ e.acked = f.acked
            /\ e.recv = f.recv /\ e.replay = f.replay /\ e.opened = f.opened /\ e.paused = p
        BY <3>2, <4>1, Zenon DEF Session
      <4> QED BY <4>2, Zenon DEF p
    <3> HIDE DEF e
    <3>4. Live(e, x)
      <4>1. s[x].paused => e.paused \/ e.opened
        BY <3>2, <3>3, Zenon
      <4>2. e.replay = Trim(s[x], m.n).replay /\ e.send = s[x].send /\ e.acked = m.n
            /\ e.recv = s[x].recv /\ e.opened = s[x].opened
        BY <3>2, <3>3, Zenon DEF f
      <4> QED BY <2>2, <2>3, <2>6, <3>1, <4>1, <4>2, <1>LiveTrim, Zenon
    <3>5. up[x] \in Seq(Message) /\ up = [up EXCEPT ![x] = up[x]] /\ up[x] \o <<>> = up[x]
      <4>1. up[x] \in Seq(Message) /\ up = [up EXCEPT ![x] = up[x]]
        BY <2>1, Zenon DEF Types
      <4> QED BY <4>1
    <3>6. SendEnvelopes(x, <<>>)
      BY <2>6, <3>5, Zenon DEF SendEnvelopes
    <3>7. <<>> \in Seq(Message) /\ ~Opens(<<>>) /\ In(<<>>) \subseteq Told(Peer(x))'
      BY ShortList, Zenon
    <3>8. UNCHANGED <<h, world, read, got, how>> /\ (s[x].opened => e.opened) /\ e.st = s[x].st
      BY <2>1, <2>6, <3>2, <3>3, Zenon
    <3> QED BY <2>1, <2>2, <2>6, <3>3, <3>4, <3>6, <3>7, <3>8, <1>TunnelKeepsBytes, Zenon
  <2> QED BY <2>4, <2>5, <2>6, Zenon DEF OnAck
\* The chunks that are replayed are told truly.
<1>RestTells.
    ASSUME Types, NEW x \in Ends, NEW e \in Session, Live(e, x), NEW r \in Seq(Chunk), In(r) \subseteq In(e.replay),
           NEW f \in Session, f.recv = Len(got'[x]), read' = read
    PROVE  LET ms == [i \in DOMAIN r |-> Data(f.gen, r[i])] \o <<Ack(f.gen, f.recv)>> IN
           ms \in Seq(Message) /\ ~Opens(ms) /\ In(ms) \subseteq Told(Peer(x))'
  <2> USE <1>RestTells
  <2> DEFINE p == [i \in DOMAIN r |-> Data(f.gen, r[i])]
             m == Ack(f.gen, f.recv)
             ms == p \o <<m>>
  <2>1. f.gen \in Gens /\ f.recv \in Nat /\ Buffer(e) /\ e.send <= read[x] /\ e.send \in Nat
    BY SessionFields, Zenon DEF Live, Agrees
  <2>2. r \in Seq(Chunk) /\ DOMAIN r = 1..Len(r) /\ Len(r) \in Nat
    OBVIOUS
  <2>3. read[x] = read'[x]
    BY Zenon
  <2>4. ASSUME NEW i \in 1..Len(r)
        PROVE  /\ Data(f.gen, r[i]) \in Message /\ Data(f.gen, r[i]).t # "open"
               /\ Data(f.gen, r[i]) \in Told(Peer(x))'
    <3>1. r[i] \in In(e.replay)
      BY Zenon DEF In
    <3>2. r[i] \in Chunk /\ Len(r[i].data) \in Sizes /\ ChunkEnd(r[i]) <= e.send
      BY <2>1, <3>1, BufferFacts, Zenon
    <3>3. Pipes => Genuine(r[i])
      BY <3>1, Zenon DEF Live
    <3>4. ChunkEnd(r[i]) <= read'[x]
      <4>1. ChunkEnd(r[i]) \in Nat /\ read[x] \in Nat
        BY <3>2, ChunkFields, TypesFacts, Zenon
      <4>2. \A a, b, c \in Nat : a <= b /\ b <= c => a <= c
        OBVIOUS
      <4> QED BY <2>1, <2>3, <3>2, <4>1, <4>2, Zenon
    <3>5. Data(f.gen, r[i]) \in Told(Peer(x))'
      BY <2>1, <3>2, <3>3, <3>4, TunnelTells, Zenon
    <3>6. Data(f.gen, r[i]) \in Message /\ Data(f.gen, r[i]).t = "data"
      BY <2>1, <3>2, BytesMade, Zenon
    <3> QED BY <3>5, <3>6
  <2>5. p \in Seq(Message) /\ Len(p) = Len(r) /\ \A i \in 1..Len(r) : p[i] = Data(f.gen, r[i])
    BY <2>2, <2>4
  <2>6. In(p) \subseteq Told(Peer(x))' /\ \A n \in In(p) : n.t # "open"
    <3> HIDE DEF p
    <3> QED BY <2>4, <2>5, Zenon DEF In
  <2>7. m \in Message /\ m.t # "open" /\ m \in Told(Peer(x))'
    <3>1. m \in Message /\ m.t = "ack"
      BY <2>1, MessagesMade, Zenon
    <3>2. f.recv <= Len(got'[x])
      BY <2>1
    <3>3. m \in Told(Peer(x))'
      BY <2>1, <3>2, TunnelTells, Zenon
    <3> QED BY <3>1, <3>3
  <2> HIDE DEF p, m
  <2>8. PICK q : q = <<m>>
    BY Zenon
  <2>9. p \o q \in Seq(Message) /\ In(p \o q) = In(p) \union {m}
    BY <2>5, <2>7, <2>8, InOneMore
  <2>10. ms = p \o q
    BY <2>8, Zenon
  <2> HIDE DEF ms
  <2>11. ms \in Seq(Message) /\ ~Opens(ms) /\ In(ms) \subseteq Told(Peer(x))'
    BY <2>6, <2>7, <2>9, <2>10, Zenon DEF Opens
  <2> QED BY <2>11, Zenon DEF ms, p, m
\* What is acknowledged ends where a chunk begins.
<1>AckedBoundary.
    ASSUME NEW e \in Session, Buffer(e)
    PROVE  e.acked \in Boundaries(e)
  <2> USE <1>AckedBoundary
  <2>1. Len(e.replay) \in Nat /\ DOMAIN e.replay = 1..Len(e.replay)
    BY SessionFields, Zenon
  <2>2. CASE Len(e.replay) = 0
    BY <2>2, Zenon DEF Buffer, Boundaries
  <2>3. CASE Len(e.replay) # 0
    <3>1. Len(e.replay) > 0 /\ 1 \in DOMAIN e.replay
      BY <2>1, <2>3
    <3> QED BY <3>1, Zenon DEF Buffer, Boundaries
  <2> QED BY <2>2, <2>3, Zenon
\* resumeSession
<1>OnResumedKeeps.
    ASSUME IInv, NEW x \in Ends, Receipt(x), Exists(x), Head(down[x]).t = "resumed",
           OnResumed(x, Head(down[x])), UNCHANGED got
    PROVE  Kept
  <2> USE <1>OnResumedKeeps
  <2> DEFINE m == Head(down[x])
             e == s[x]
             new == IF e.gen = m.gen THEN e ELSE [Trim(e, m.n) EXCEPT !.gen = m.gen]
             rest == Rest(new, m.n)
             cut == rest # <<>> /\ ~CanSend(x)
             f == [new EXCEPT !.susp = cut, !.paused = cut \/ (@ /\ ReplayBytes(new) > LowWater)]
             ms == [i \in DOMAIN rest |-> Data(new.gen, rest[i])] \o <<Ack(new.gen, new.recv)>>
  <2>1. /\ m \in Message /\ Tells(x, m)
        /\ down' = [down EXCEPT ![x] = Tail(down[x])] /\ Goes(down[x], Tail(down[x]), {})
        /\ UNCHANGED <<h, world>> /\ read' = read /\ Types
    BY ReceiptKeeps, Zenon
  <2>2. /\ e \in Session /\ Live(e, x) /\ e.st \in {"connecting", "open"} /\ e.st # "none"
        /\ Buffer(e)
    BY LiveFacts, Zenon
  <2>3. ASSUME Fail(x) PROVE Kept
    BY <2>1, <2>3, <1>FailKeeps, Zenon
  <2>4. ASSUME ~(m.n < BufferedFrom(e)), m.n \in Boundaries(e), s' = [s EXCEPT ![x] = f],
               SendEnvelopes(x, ms), UNCHANGED how
        PROVE  Kept
    <3>1. m.gen \in Gens /\ m.n <= Len(got[Peer(x)]) /\ (Pipes => s["source"].opened)
      <4>1. m.gen \in Gens
        BY <2>1, MessageFields
      <4>2. m.n <= Len(got[Peer(x)]) /\ (Pipes => s["source"].opened)
        BY <2>1 DEF Tells, Recovery
      <4> QED BY <4>1, <4>2
    <3>2. Pipes => e.opened
      <4>1. e.opened \/ x = "source"
        BY <2>2, Zenon DEF Live
      <4> QED BY <3>1, <4>1, Zenon
    <3> HIDE DEF m, e
    <3>3. e.acked <= m.n /\ m.n \in Nat
      <4>1. BufferedFrom(e) = e.acked /\ m.n \in Nat
        BY <2>2, <2>4, BufferFacts, Zenon
      <4>2. e.acked \in Nat
        BY <2>2, SessionFields, Zenon
      <4>3. \A a, b \in Nat : ~(b < a) => a <= b
        OBVIOUS
      <4> QED BY <2>4, <4>1, <4>2, <4>3, Zenon
    <3>4. /\ new \in Session /\ new.st = e.st /\ new.send = e.send /\ new.recv = e.recv
          /\ new.opened = e.opened /\ In(new.replay) \subseteq In(e.replay)
          /\ \/ new.acked = e.acked /\ new.replay = e.replay
             \/ new.acked = m.n /\ new.replay = Trim(e, m.n).replay
      <4>1. CASE e.gen = m.gen
        BY <2>2, <4>1, Zenon
      <4>2. CASE e.gen # m.gen
        <5> DEFINE u == Trim(e, m.n)
        <5>1. /\ u \in Session /\ u.send = e.send /\ u.acked = m.n /\ u.recv = e.recv
              /\ u.opened = e.opened /\ u.st = e.st /\ In(u.replay) \subseteq In(e.replay)
          BY <2>2, <2>4, <3>3, <1>BufferTrim, Zenon
        <5>2. new = [u EXCEPT !.gen = m.gen]
          BY <4>2, Zenon
        <5> HIDE DEF u, new
        <5>3. /\ new \in Session /\ new.st = u.st /\ new.send = u.send /\ new.recv = u.recv
              /\ new.opened = u.opened /\ new.acked = u.acked /\ new.replay = u.replay
          BY <3>1, <5>1, <5>2, Zenon DEF Session
        <5> QED BY <5>1, <5>3, Zenon DEF u
      <4> QED BY <4>1, <4>2, Zenon
    <3> HIDE DEF new
    <3>5. rest \in Seq(Chunk) /\ In(rest) \subseteq In(new.replay)
      <4>1. CASE new.acked = e.acked /\ new.replay = e.replay
        <5>1. Buffer(new) /\ m.n \in Boundaries(new)
          BY <2>2, <2>4, <3>4, <4>1, <1>BufferSame, Zenon DEF Boundaries
        <5> QED BY <3>4, <5>1, <1>RestIn, Zenon DEF rest
      <4>2. CASE new.acked = m.n /\ new.replay = Trim(e, m.n).replay
        <5>1. Buffer(Trim(e, m.n)) /\ Trim(e, m.n).send = e.send /\ Trim(e, m.n).acked = m.n
          BY <2>2, <2>4, <3>3, <1>BufferTrim, Zenon
        <5>2. Buffer(new)
          BY <3>4, <4>2, <5>1, <1>BufferSame, Zenon
        <5>3. m.n \in Boundaries(new)
          BY <3>4, <4>2, <5>2, <1>AckedBoundary, Zenon
        <5> QED BY <3>4, <5>2, <5>3, <1>RestIn, Zenon DEF rest
      <4> QED BY <3>4, <4>1, <4>2, Zenon
    <3> HIDE DEF rest
    <3>6. /\ f \in Session /\ f.st = new.st /\ f.send = new.send /\ f.acked = new.acked
          /\ f.recv = new.recv /\ f.replay = new.replay /\ f.opened = new.opened
      <4> DEFINE c == cut
                 p == cut \/ (new.paused /\ ReplayBytes(new) > LowWater)
      <4>1. c \in BOOLEAN /\ p \in BOOLEAN /\ f = [new EXCEPT !.susp = c, !.paused = p]
        BY Zenon
      <4> HIDE DEF p, f, c
      <4> QED BY <3>4, <4>1, Zenon DEF Session
    <3>7. ms \in Seq(Message) /\ ~Opens(ms) /\ In(ms) \subseteq Told(Peer(x))'
      <4>1. new.recv = Len(got'[x])
        BY <2>2, <3>4, Zenon DEF Live, Agrees
      <4>2. In(rest) \subseteq In(e.replay)
        BY <3>4, <3>5, Zenon
      <4> QED BY <2>1, <2>2, <3>4, <3>5, <4>1, <4>2, <1>RestTells, Zenon
    <3> HIDE DEF f, ms
    <3>8. Live(f, x)
      <4>1. CASE Pipes
        <5>1. f.opened /\ e.opened
          BY <3>2, <3>4, <3>6, <4>1, Zenon
        <5>2. e.paused => f.paused \/ f.opened
          BY <5>1, Zenon
        <5>3. CASE new.acked = e.acked /\ new.replay = e.replay
          BY <2>2, <3>4, <3>6, <5>2, <5>3, <1>LiveSame, Zenon
        <5>4. CASE new.acked = m.n /\ new.replay = Trim(e, m.n).replay
          BY <2>2, <2>4, <3>1, <3>3, <3>4, <3>6, <5>2, <5>4, <1>LiveTrim, Zenon
        <5> QED BY <3>4, <5>3, <5>4, Zenon
      <4>2. CASE ~Pipes
        <5>1. Buffer(f) /\ f.acked <= Len(got[Peer(x)])
          <6>1. CASE new.acked = e.acked /\ new.replay = e.replay
            BY <2>2, <3>4, <3>6, <6>1, <1>BufferSame, Zenon DEF Live, Agrees
          <6>2. CASE new.acked = m.n /\ new.replay = Trim(e, m.n).replay
            <7>1. Buffer(Trim(e, m.n)) /\ Trim(e, m.n).send = e.send /\ Trim(e, m.n).acked = m.n
              BY <2>2, <2>4, <3>3, <1>BufferTrim, Zenon
            <7>2. f.send = Trim(e, m.n).send /\ f.acked = Trim(e, m.n).acked
                  /\ f.replay = Trim(e, m.n).replay
              BY <3>4, <3>6, <6>2, <7>1, Zenon
            <7> QED BY <3>1, <3>6, <6>2, <7>1, <7>2, <1>BufferSame, Zenon
          <6> QED BY <3>4, <6>1, <6>2, Zenon
        <5>2. Agrees(f, x)
          BY <2>2, <3>4, <3>6, <5>1, Zenon DEF Live, Agrees
        <5> QED BY <2>2, <3>4, <3>6, <4>2, <5>1, <5>2, Zenon DEF Live
      <4> QED BY <4>1, <4>2, Zenon
    <3>9. UNCHANGED <<h, world, read, got, how>> /\ (s[x].opened => f.opened) /\ f.st = s[x].st
      BY <2>1, <2>4, <3>4, <3>6, Zenon DEF e
    <3> QED BY <2>1, <2>2, <2>4, <3>6, <3>7, <3>8, <3>9, <1>TunnelKeepsBytes, Zenon DEF e
  <2> QED BY <2>3, <2>4, Zenon DEF OnResumed
\* receiveEnd and receiveError
<1>OnEndKeeps.
    ASSUME IInv, NEW x \in Ends, Receipt(x), Exists(x),
           OnEnd(x, Head(down[x])) \/ OnError(x, Head(down[x])), UNCHANGED got
    PROVE  Kept
  <2> USE <1>OnEndKeeps
  <2>1. /\ down' = [down EXCEPT ![x] = Tail(down[x])] /\ Goes(down[x], Tail(down[x]), {})
        /\ UNCHANGED <<h, world, read, got>>
    BY ReceiptKeeps, Zenon
  <2>2. ASSUME Fail(x) PROVE Kept
    BY <2>1, <2>2, <1>FailKeeps, Zenon
  <2>3. ASSUME NEW w \in {"end", "ended", "error"}, CloseSession(x, w, <<>>)
        PROVE  Kept
    <3>1. PICK ms : ms = <<>>
      BY Zenon
    <3>2. ms \in Seq(Message) /\ In(ms) \subseteq Told(Peer(x))' /\ ~Opens(ms)
      BY <3>1, ShortList, Zenon
    <3>3. CloseSession(x, w, ms)
      BY <2>3, <3>1, Zenon
    <3> QED BY <2>1, <3>2, <3>3, <1>CloseKeeps, Zenon
  <2> QED BY <2>2, <2>3, Zenon DEF OnEnd, OnError
\* The tunnel receives a message of the hub.
<1>TunnelReceivesKeeps.
    ASSUME IInv, NEW x \in Ends, TunnelReceives(x)
    PROVE  Kept
  <2> USE <1>TunnelReceivesKeeps
  <2> DEFINE m == Head(down[x])
  <2>1. Receipt(x)
    BY Zenon DEF TunnelReceives, Receipt
  <2>2. \/ m.t = "open" /\ OnOpen(x, m) /\ UNCHANGED got
        \/ Ignore(x) /\ UNCHANGED got
        \/ Exists(x) /\ m.t = "data" /\ OnData(x, m)
        \/ Exists(x) /\ OnOpened(x, m) /\ UNCHANGED got
        \/ Exists(x) /\ m.t = "ack" /\ OnAck(x, m) /\ UNCHANGED got
        \/ Exists(x) /\ m.t = "suspend" /\ OnSuspend(x, m) /\ UNCHANGED got
        \/ Exists(x) /\ m.t = "resumed" /\ OnResumed(x, m) /\ UNCHANGED got
        \/ Exists(x) /\ (OnEnd(x, m) \/ OnError(x, m)) /\ UNCHANGED got
    BY Zenon DEF TunnelReceives
  <2> QED BY Zenon, <2>1, <2>2, <1>OnOpenKeeps, <1>IgnoreKeeps, <1>OnDataKeeps, <1>OnOpenedKeeps, <1>OnAckKeeps,
             <1>OnSuspendKeeps, <1>OnResumedKeeps, <1>OnEndKeeps
<1> QED BY Zenon, <1>OpenOutgoingKeeps, <1>TargetConnectsKeeps, <1>ReadSocketKeeps,
           <1>SocketEndsKeeps, <1>SocketFailsKeeps, <1>TunnelReceivesKeeps, <1>WorkerClosesKeeps

-----------------------------------------------------------------------------
(* The steps of the hub and of the WebSockets *)

\* What is told stays so when nothing changes that it is about.
LEMMA ToldSame ==
    ASSUME s' = s, read' = read, got' = got, how' = how, NEW z \in Ends, NEW n \in Told(z)
    PROVE  n \in Told(z)'
<1>1. n \in Message /\ Tells(z, n)
  BY Zenon DEF Told
<1>2. Tells(z, n)'
  BY <1>1, Zenon DEF Tells
<1> QED BY <1>1, <1>2, Zenon DEF Told

\* The fields of the hub's session, a stream the hub has given up, and one with
\* the reports forgotten.
LEMMA HubFields ==
    ASSUME IInv
    PROVE  /\ Types /\ h \in Hub /\ h.st \in {"none", "live", "gone"} /\ h.gen \in Gens
           /\ h.opened \in BOOLEAN /\ h.susp \in BOOLEAN /\ down \in [Ends -> Seq(Message)]
           /\ h.fwd \in [Ends -> Nat] /\ h.reports \in [Ends -> Report]
           /\ \A x \in Ends : /\ Goes(down[x], down[x], {}) /\ Goes(down[x], down[x], Told(x))
                              /\ h.fwd[x] <= read[x] /\ read[x] \in Nat /\ Len(got[x]) \in Nat
                              /\ h.reports[x] = NoReport \/ h.reports[x].recv \in 0..Len(got[x])
<1>1. Types /\ Relay
  BY Zenon DEF IInv
<1>2. h \in Hub /\ down \in [Ends -> Seq(Message)]
  BY <1>1, Zenon DEF Types
<1>3. /\ h.st \in {"none", "live", "gone"} /\ h.gen \in Gens /\ h.opened \in BOOLEAN
      /\ h.susp \in BOOLEAN /\ h.fwd \in [Ends -> Nat] /\ h.reports \in [Ends -> Report]
  BY <1>2, Zenon DEF Hub
<1>4. \A x \in Ends : Goes(down[x], down[x], {})
  BY <1>1, TypesFacts, GoesFacts, Zenon
<1>5. \A x \in Ends : Goes(down[x], down[x], Told(x))
  BY <1>4, Zenon DEF Goes
<1>6. \A x \in Ends : read[x] \in Nat /\ Len(got[x]) \in Nat
  BY <1>1, TypesFacts, Zenon
<1>7. \A x \in Ends : /\ h.fwd[x] <= read[x]
                      /\ h.reports[x] = NoReport \/ h.reports[x].recv \in 0..Len(got[x])
  BY <1>1, Zenon DEF Relay
<1> QED BY Zenon, <1>1, <1>2, <1>3, <1>4, <1>5, <1>6, <1>7

LEMMA NoReports ==
    [x \in Ends |-> NoReport] \in [Ends -> Report] /\ NoReport \in Report
<1>1. NoReport \in Report
  BY DEF NoReport, Report
<1> QED BY <1>1, Zenon

LEMMA NewHub ==
    ASSUME NEW st \in {"none", "live", "gone"}, NEW g \in Gens, NEW k, k = HubSession(st, g)
    PROVE  /\ k \in Hub /\ k.st = st /\ k.gen = g /\ ~k.opened /\ ~k.susp
           /\ \A x \in Ends : k.fwd[x] = 0 /\ k.reports[x] = NoReport
<1>1. [x \in Ends |-> 0] \in [Ends -> Nat]
  OBVIOUS
<1> QED BY <1>1, NoReports, Zenon DEF HubSession, Hub

\* The steps of the hub and of the WebSockets keep it too.
LEMMA HubSteps ==
    /\ IInv /\ RecoveryTimeout => Kept
    /\ \A x \in Ends :
         IInv /\ (\/ HubReceives(x) \/ WorkerClosing(x) \/ SendGoodbye(x) \/ HubClosing(x)
                  \/ HubCloses(x) \/ Hello(x) \/ ServerReady(x)) => Kept
\* What hub.send does to the channels.
<1>PostEffect.
    ASSUME NEW d \in [Ends -> Seq(Message)], NEW x \in Ends, NEW ms \in Seq(Message), ~Opens(ms)
    PROVE  /\ Post(d, x, ms) \in [Ends -> Seq(Message)]
           /\ \A y \in Ends : Goes(d[y], Post(d, x, ms)[y], IF y = x THEN In(ms) ELSE {})
  <2> USE <1>PostEffect
  <2> DEFINE p == [d EXCEPT ![x] = d[x] \o ms]
             N(y) == IF y = x THEN In(ms) ELSE {}
  <2>1. \A y \in Ends : d[y] \in Seq(Message)
    BY Zenon
  <2>2. \A y \in Ends : Goes(d[y], d[y], {}) /\ Goes(d[y], d[y] \o ms, In(ms))
    BY <2>1, GoesFacts, Zenon
  <2>3. \A y \in Ends : Goes(d[y], d[y], N(y))
    BY <2>2, Zenon DEF Goes
  <2>4. d[x] \o ms \in Seq(Message)
    BY <2>1, InConcat, Zenon
  <2>5. p \in [Ends -> Seq(Message)] /\ p[x] = d[x] \o ms /\ \A y \in Ends \ {x} : p[y] = d[y]
    BY <2>4, Zenon
  <2>6. \A y \in Ends : Goes(d[y], p[y], N(y))
    BY <2>2, <2>3, <2>5, Zenon
  <2>7. Post(d, x, ms) = p \/ Post(d, x, ms) = d
    BY Zenon DEF Post
  <2> HIDE DEF p
  <2> QED BY <2>3, <2>5, <2>6, <2>7, Zenon
\* What is posted to one side, and to both.
<1>PostOne.
    ASSUME NEW d \in [Ends -> Seq(Message)], NEW x \in Ends, NEW ms \in Seq(Message),
           ~Opens(ms), In(ms) \subseteq Told(x)
    PROVE  /\ Post(d, x, ms) \in [Ends -> Seq(Message)]
           /\ \A y \in Ends : Goes(d[y], Post(d, x, ms)[y], Told(y))
  <2> USE <1>PostOne
  <2>1. /\ Post(d, x, ms) \in [Ends -> Seq(Message)]
        /\ \A y \in Ends : Goes(d[y], Post(d, x, ms)[y], IF y = x THEN In(ms) ELSE {})
    BY <1>PostEffect, Zenon
  <2>2. ASSUME NEW y \in Ends PROVE Goes(d[y], Post(d, x, ms)[y], Told(y))
    <3>1. PICK N : N = IF y = x THEN In(ms) ELSE {}
      BY Zenon
    <3>2. N \subseteq Told(y)
      BY <3>1, Zenon
    <3>3. Goes(d[y], Post(d, x, ms)[y], N)
      BY <2>1, <3>1, Zenon
    <3> QED BY <3>2, <3>3, GoesMore, Zenon
  <2> QED BY <2>1, <2>2, Zenon
\* The messages the hub makes are told truly.
<1>HubTells.
    ASSUME NEW x \in Ends
    PROVE  /\ \A m \in Message : m.t \in {"open", "opened", "error"} => m \in Told(x)
           /\ \A m \in Message :
                m.t \in {"suspend", "heartbeat", "goodbye"} /\ (Pipes => s["source"].opened)
                => m \in Told(x)
           /\ \A g \in Gens : \A n \in Int :
                n <= Len(got[Peer(x)]) /\ (Pipes => s["source"].opened) => Resumed(g, n) \in Told(x)
  <2> USE <1>HubTells
  <2>1. ASSUME NEW m \in Message, m.t \in {"open", "opened", "error"} PROVE m \in Told(x)
    BY <2>1 DEF Told, Tells, Recovery
  <2>2. ASSUME NEW m \in Message, m.t \in {"suspend", "heartbeat", "goodbye"},
               Pipes => s["source"].opened
        PROVE  m \in Told(x)
    BY <2>2 DEF Told, Tells, Recovery
  <2>3. ASSUME NEW g \in Gens, NEW n \in Int, n <= Len(got[Peer(x)]), Pipes => s["source"].opened
        PROVE  Resumed(g, n) \in Told(x)
    <3> DEFINE m == Resumed(g, n)
    <3>1. m \in Message /\ m.t = "resumed" /\ m.n = n
      BY MessagesMade, Zenon
    <3> HIDE DEF m
    <3>2. Tells(x, m)
      BY <2>3, <3>1 DEF Tells, Recovery
    <3> QED BY <3>1, <3>2, Zenon DEF Told, m
  <2> QED BY Zenon, <2>1, <2>2, <2>3
\* runtime.stream.open at the hub, and startRuntimeRelay
<1>HubOnOpenKeeps.
    ASSUME IInv, NEW x \in Ends, HubReceives(x), Head(up[x]).t = "open"
    PROVE  Kept
  <2> USE <1>HubOnOpenKeeps
  <2> DEFINE m == Head(up[x])
             y == "destination"
  <2>1. /\ up[x] # <<>> /\ UNCHANGED <<s, ws, conn, faults, read, got, how>>
        /\ up' = [up EXCEPT ![x] = Tail(up[x])] /\ HubOnOpen(m)
    <3>1. m.t \notin {"goodbye", "heartbeat", "resume", "opened", "data", "ack", "end", "error"}
      OBVIOUS
    <3>2. up[x] # <<>> /\ up' = [up EXCEPT ![x] = IF m.t = "goodbye" THEN <<>> ELSE Tail(up[x])]
          /\ UNCHANGED <<s, ws, faults, read, got, how>>
      BY Zenon DEF HubReceives
    <3>3. conn' = conn /\ HubOnOpen(m)
      BY <3>1, Zenon DEF HubReceives
    <3>4. m.t # "goodbye"
      BY <3>1
    <3> HIDE DEF m
    <3> QED BY <3>2, <3>3, <3>4, Zenon
  <2>2. /\ m \in Message /\ m \in In(up[x]) /\ Goes(up[x], Tail(up[x]), {}) /\ m.gen \in Gens
    <3>1. m \in Message /\ m \in In(up[x]) /\ Goes(up[x], Tail(up[x]), {})
      BY <2>1, ReceiptFacts, Zenon
    <3> QED BY <3>1, MessageFields
  <2>3. Types /\ OpenedOnce /\ Sessions /\ Underway /\ Relay
    BY Zenon DEF IInv
  <2>4. x = "source"
    <3>1. Opens(up[x])
      BY <2>2, Zenon DEF Opens
    <3> QED BY <2>3, <3>1 DEF OpenedOnce, Ends
  <2>5. /\ "source" \in Ends /\ y \in Ends /\ "source" # y /\ \A z \in Ends : z = "source" \/ z = y
        /\ Peer("source") = y /\ Peer(y) = "source"
    BY DEF Ends, Peer
  <2>6. /\ h.st = "none" /\ s["source"].st # "none" /\ s[y].st = "none" /\ ~Opens(down[y])
        /\ Once(down[y]) /\ ~Opens(down["source"]) /\ ~Opens(up[y])
    <3>1. Opens(up["source"])
      BY <2>2, <2>4, Zenon DEF Opens
    <3> QED BY <2>3, <3>1, Zenon DEF OpenedOnce
  <2>7. /\ h \in Hub /\ down \in [Ends -> Seq(Message)] /\ up \in [Ends -> Seq(Message)]
        /\ \A z \in Ends : /\ up[z] \in Seq(Message) /\ down[z] \in Seq(Message) /\ read[z] \in Nat
                           /\ Goes(down[z], down[z], Told(z))
    BY <2>3, HubFields, TypesFacts, Zenon DEF Types
  <2> HIDE DEF y
  <2>8. /\ up' \in [Ends -> Seq(Message)] /\ up'[y] = up[y] /\ Once(up'["source"])
        /\ ~Opens(up'["source"]) /\ \A z \in Ends : In(up'[z]) \subseteq In(up[z])
    <3>1. Once(up["source"])
      BY <2>3, Zenon DEF OpenedOnce
    <3>2. Tail(up[x]) \in Seq(Message) /\ In(Tail(up[x])) \subseteq In(up[x])
      BY <2>2, Zenon DEF Goes
    <3>3. Once(Tail(up[x])) /\ ~Opens(Tail(up[x]))
      BY <2>1, <2>4, <2>7, <3>1, OnceKept, Zenon
    <3>4. up'[x] = Tail(up[x]) /\ up'[y] = up[y] /\ up' \in [Ends -> Seq(Message)]
      BY <2>1, <2>4, <2>5, <2>7, <3>2, Zenon
    <3> QED BY <2>4, <2>5, <3>2, <3>3, <3>4, Zenon
  <2>9. ASSUME NEW k \in Gens \union {-1}, down' = Post(down, "source", <<Msg("error", k)>>)
        PROVE  /\ down' \in [Ends -> Seq(Message)] /\ \A z \in Ends : Goes(down[z], down'[z], Told(z))
               /\ Once(down'[y]) /\ ~Opens(down'[y]) /\ ~Opens(down'["source"])
    <3> DEFINE n == Msg("error", k)
    <3>1. n \in Message /\ n.t = "error"
      BY MessagesMade
    <3>2. down' = Post(down, "source", <<n>>)
      BY <2>9, Zenon
    <3> HIDE DEF n
    <3>3. PICK ms : ms = <<n>>
      BY Zenon
    <3>4. ms \in Seq(Message) /\ In(ms) = {n} /\ ~Opens(ms)
      BY <3>1, <3>3, ShortList
    <3>5. n \in Told("source")
      BY <2>5, <3>1, <1>HubTells, Zenon
    <3>6. In(ms) \subseteq Told("source") /\ down' = Post(down, "source", ms)
      BY <3>2, <3>3, <3>4, <3>5, Zenon
    <3>7. down' \in [Ends -> Seq(Message)] /\ \A z \in Ends : Goes(down[z], down'[z], Told(z))
      BY <2>5, <2>7, <3>4, <3>6, <1>PostOne, Zenon
    <3> QED BY <2>5, <2>6, <3>7, Zenon DEF Goes
  <2>10. ASSUME h' \in Hub, \A z \in Ends : h'.fwd[z] = h.fwd[z] \/ h'.fwd[z] = 0,
                \A z \in Ends : h'.reports[z] = h.reports[z] \/ h'.reports[z] = NoReport,
                down' \in [Ends -> Seq(Message)], \A z \in Ends : In(down'[z]) \subseteq In(down[z]) \union Told(z)
         PROVE  Types' /\ Sessions' /\ Underway' /\ Relay'
    <3>1. Types'
      BY <2>1, <2>3, <2>8, <2>10, Zenon DEF Types
    <3>2. \A z \in Ends : Local(z)' = Local(z)
      BY <2>1, Zenon DEF Local, Live, Agrees, Exists
    <3>3. Sessions'
      BY <2>3, <3>2, Zenon DEF Sessions
    <3>4. \A z \in Ends : \A n \in Told(z) : n \in Told(z)'
      BY <2>1, ToldSame, Zenon
    <3>5. \A z \in Ends : In(down[z]) \subseteq Told(z) /\ In(up[z]) \subseteq Told(Peer(z)) /\ Peer(z) \in Ends
      BY <2>3, PeerFacts, Zenon DEF Underway
    <3>6. \A z \in Ends : In(down'[z]) \subseteq Told(z)' /\ In(up'[z]) \subseteq Told(Peer(z))'
      BY <2>8, <2>10, <3>4, <3>5, Zenon
    <3>7. Underway'
      BY <3>6, Zenon DEF Underway
    <3>8. \A z \in Ends : 0 <= read[z]
      BY <2>7
    <3>9. Relay'
      BY <2>1, <2>3, <2>10, <3>8, Zenon DEF Relay
    <3> QED BY <3>1, <3>3, <3>7, <3>9
  <2>11. ASSUME h' = h, down' = Post(down, "source", <<Msg("error", -1)>>)
         PROVE  Kept
    <3>1. PICK k \in Gens \union {-1} : k = -1
      OBVIOUS
    <3>2. /\ down' \in [Ends -> Seq(Message)] /\ \A z \in Ends : Goes(down[z], down'[z], Told(z))
          /\ Once(down'[y]) /\ ~Opens(down'[y]) /\ ~Opens(down'["source"])
      <4>1. down' = Post(down, "source", <<Msg("error", k)>>)
        BY <2>11, <3>1, Zenon
      <4> QED BY <2>9, <4>1, Zenon
    <3>3. Types' /\ Sessions' /\ Underway' /\ Relay'
      BY <2>7, <2>10, <2>11, <3>2, Zenon DEF Goes
    <3>4. OpenedOnce'
      BY <2>1, <2>6, <2>8, <2>11, <3>2, Zenon DEF OpenedOnce, y
    <3> QED BY <3>3, <3>4, Zenon DEF Kept
  <2>12. ASSUME h' = Gone, down' = Post(down, "source", <<Msg("error", m.gen)>>)
         PROVE  Kept
    <3>1. m.gen \in Gens \union {-1} /\ 0 \in Gens /\ "gone" \in {"none", "live", "gone"}
      BY <2>2, StreamConstants DEF Gens
    <3> HIDE DEF m
    <3>2. /\ down' \in [Ends -> Seq(Message)] /\ \A z \in Ends : Goes(down[z], down'[z], Told(z))
          /\ Once(down'[y]) /\ ~Opens(down'[y]) /\ ~Opens(down'["source"])
      BY <2>9, <2>12, <3>1, Zenon
    <3>3. h' \in Hub /\ h'.st = "gone" /\ \A z \in Ends : h'.fwd[z] = 0 /\ h'.reports[z] = NoReport
      BY <2>12, <3>1, NewHub DEF Gone
    <3>4. Types' /\ Sessions' /\ Underway' /\ Relay'
      BY <2>10, <3>2, <3>3, Zenon DEF Goes
    <3>5. h'.st # "none"
      BY <3>3
    <3>6. OpenedOnce'
      BY <2>1, <2>6, <2>8, <3>2, <3>5, Zenon DEF OpenedOnce, y
    <3> QED BY <3>4, <3>6, Zenon DEF Kept
  <2>13. ASSUME h' = HubSession("live", m.gen), down' = Post(down, y, <<Msg("open", m.gen)>>)
         PROVE  Kept
    <3> DEFINE n == Msg("open", m.gen)
               q == down[y] \o <<n>>
    <3>1. n \in Message /\ n.t = "open" /\ "live" \in {"none", "live", "gone"}
      BY <2>2, PlainMade, Zenon
    <3>2. h' \in Hub /\ h'.st = "live" /\ \A z \in Ends : h'.fwd[z] = 0 /\ h'.reports[z] = NoReport
      <4>1. PICK st \in {"none", "live", "gone"} : st = "live"
        BY Zenon
      <4>2. m.gen \in Gens /\ h' = HubSession(st, m.gen)
        BY <2>2, <2>13, <4>1, Zenon
      <4>3. PICK k : k = h'
        BY Zenon
      <4>4. k \in Hub /\ k.st = st /\ \A z \in Ends : k.fwd[z] = 0 /\ k.reports[z] = NoReport
        <5>1. k = HubSession(st, m.gen) /\ m.gen \in Gens
          BY <4>2, <4>3, Zenon
        <5>2. PICK g \in Gens : g = m.gen
          BY <5>1, Zenon
        <5>3. k = HubSession(st, g)
          BY <5>1, <5>2, Zenon
        <5> QED BY <5>3, NewHub
      <4> QED BY <4>1, <4>3, <4>4, Zenon
    <3>3. down' = down \/ down' = [down EXCEPT ![y] = q]
      BY <2>13, Zenon DEF Post
    <3> HIDE DEF n, m
    <3>4. q \in Seq(Message) /\ In(q) = In(down[y]) \union {n} /\ Once(q)
      <4>1. PICK r : r = <<n>>
        BY Zenon
      <4>2. down[y] \o r \in Seq(Message) /\ In(down[y] \o r) = In(down[y]) \union {n}
        BY <2>5, <2>7, <3>1, <4>1, InOneMore
      <4>3. Once(q)
        BY <2>5, <2>6, <2>7, <3>1, OnceKept, Zenon
      <4> QED BY <4>1, <4>2, <4>3, Zenon
    <3>5. n \in Told(y)
      BY <2>5, <3>1, <1>HubTells, Zenon
    <3> HIDE DEF q
    <3>6. /\ down' \in [Ends -> Seq(Message)] /\ down'["source"] = down["source"] /\ Once(down'[y])
          /\ \A z \in Ends : In(down'[z]) \subseteq In(down[z]) \union Told(z)
      <4>1. /\ down' \in [Ends -> Seq(Message)] /\ down'["source"] = down["source"]
            /\ (down'[y] = down[y] \/ down'[y] = q)
        BY <2>5, <2>7, <3>3, <3>4, Zenon
      <4> QED BY <2>5, <2>6, <3>4, <3>5, <4>1, Zenon
    <3>7. Types' /\ Sessions' /\ Underway' /\ Relay'
      BY <2>10, <3>2, <3>6, Zenon
    <3>8. h'.st # "none"
      BY <3>2
    <3>9. OpenedOnce'
      BY <2>1, <2>6, <2>8, <3>6, <3>8, Zenon DEF OpenedOnce, y
    <3> QED BY <3>7, <3>9, Zenon DEF Kept
  <2> QED BY <2>1, <2>11, <2>12, <2>13, Zenon DEF HubOnOpen, y
<1>GoesOn.
    ASSUME NEW p, NEW q, NEW r, NEW M, NEW N, Goes(p, q, M), Goes(q, r, N)
    PROVE  Goes(p, r, M \union N)
  BY <1>GoesOn, Zenon DEF Goes
<1>PostBoth.
    ASSUME NEW d \in [Ends -> Seq(Message)], NEW a \in Seq(Message), NEW b \in Seq(Message),
           ~Opens(a), ~Opens(b), In(a) \subseteq Told("source"), In(b) \subseteq Told("destination"),
           NEW p, p = Post(Post(d, "source", a), "destination", b)
    PROVE  p \in [Ends -> Seq(Message)] /\ \A y \in Ends : Goes(d[y], p[y], Told(y))
  <2> USE <1>PostBoth
  <2> DEFINE q == Post(d, "source", a)
  <2>0. "source" \in Ends /\ "destination" \in Ends
    BY DEF Ends
  <2>1. q \in [Ends -> Seq(Message)] /\ \A y \in Ends : Goes(d[y], q[y], Told(y))
    BY <2>0, <1>PostOne, Zenon
  <2> HIDE DEF q
  <2>2. /\ Post(q, "destination", b) \in [Ends -> Seq(Message)]
        /\ \A y \in Ends : Goes(q[y], Post(q, "destination", b)[y], Told(y))
    BY <2>0, <2>1, <1>PostOne, Zenon
  <2>3. p = Post(q, "destination", b)
    BY Zenon DEF q
  <2>4. ASSUME NEW y \in Ends PROVE Goes(d[y], p[y], Told(y))
    <3>1. Goes(d[y], q[y], Told(y)) /\ Goes(q[y], p[y], Told(y))
      BY <2>1, <2>2, <2>3, Zenon
    <3>2. Goes(d[y], p[y], Told(y) \union Told(y))
      BY <3>1, <1>GoesOn, Zenon
    <3>3. Told(y) \union Told(y) \subseteq Told(y)
      BY Zenon
    <3> QED BY <3>2, <3>3, GoesMore, Zenon
  <2> QED BY <2>2, <2>3, <2>4, Zenon
\* terminateRuntimeStream
<1>TerminateHandled.
    ASSUME IInv, h.st = "live", Terminate
    PROVE  Handled
  <2> USE <1>TerminateHandled
  <2> DEFINE m == Msg("error", h.gen)
  <2>1. h \in Hub /\ h.gen \in Gens /\ down \in [Ends -> Seq(Message)]
        /\ \A x \in Ends : read[x] \in Nat
    BY HubFields, Zenon
  <2>2. m \in Message /\ m.t = "error"
    BY <2>1, MessagesMade, Zenon
  <2>3. h' = HubSession("gone", 0)
        /\ down' = Post(Post(down, "source", <<m>>), "destination", <<m>>)
    BY Zenon DEF Terminate, Gone
  <2> HIDE DEF m
  <2>4. "source" \in Ends /\ "destination" \in Ends
    BY DEF Ends
  <2>5. m \in Told("source") /\ m \in Told("destination")
    BY <2>2, <2>4, <1>HubTells, Zenon
  <2>6. PICK ms : ms = <<m>>
    BY Zenon
  <2>7. ms \in Seq(Message) /\ In(ms) = {m} /\ ~Opens(ms)
    BY <2>2, <2>6, ShortList
  <2>8. In(ms) \subseteq Told("source") /\ In(ms) \subseteq Told("destination")
    BY <2>5, <2>7, Zenon
  <2>9. down' = Post(Post(down, "source", ms), "destination", ms)
    BY <2>3, <2>6, Zenon
  <2>10. down' \in [Ends -> Seq(Message)] /\ \A y \in Ends : Goes(down[y], down'[y], Told(y))
    BY <2>1, <2>7, <2>8, <2>9, <1>PostBoth, Zenon
  <2>11. 0 \in Gens /\ \A n \in Nat : 0 <= n
    BY StreamConstants DEF Gens
  <2>12. h' \in Hub /\ h'.st = "gone" /\ \A x \in Ends : h'.fwd[x] = 0 /\ h'.reports[x] = NoReport
    <3>1. "gone" \in {"none", "live", "gone"}
      OBVIOUS
    <3> QED BY <2>3, <2>11, <3>1, NewHub
  <2>13. h'.st # "none" /\ h.st # "none"
    BY <2>12
  <2> QED BY <2>1, <2>10, <2>11, <2>12, <2>13, Zenon DEF Handled
\* tryResumeRuntimeStream
<1>TryResumeHandled.
    ASSUME IInv, h.st = "live", Pipes => s["source"].opened, NEW r \in [Ends -> Report],
           \A x \in Ends : r[x] = NoReport \/ r[x].recv \in 0..Len(got[x]), TryResume(r)
    PROVE  Handled
  <2> USE <1>TryResumeHandled
  <2>1. /\ h \in Hub /\ h.gen \in Gens /\ down \in [Ends -> Seq(Message)]
        /\ \A y \in Ends : /\ Goes(down[y], down[y], Told(y)) /\ h.fwd[y] <= read[y]
                           /\ read[y] \in Nat /\ Len(got[y]) \in Nat
    BY HubFields, Zenon
  <2>2. ASSUME h' = [h EXCEPT !.reports = r], down' = down PROVE Handled
    <3>1. h' \in Hub /\ h'.st = h.st /\ h'.fwd = h.fwd /\ h'.reports = r
      BY <2>1, <2>2, Zenon DEF Hub
    <3> QED BY <2>1, <2>2, <3>1, Zenon DEF Handled
  <2>3. ASSUME ~(\E x \in Ends : r[x] = NoReport), ~(h.gen + 1 > MaxGeneration),
               NEW told, told = [x \in Ends |-> <<Resumed(h.gen + 1, SendFrom(r, x))>>],
               NEW failed, failed = [x \in Ends |->
                 IF \A y \in Ends : Reaches(y) THEN <<>> ELSE <<Msg("error", h.gen + 1)>>],
               h' = IF \A y \in Ends : Reaches(y) THEN Resumption(r) ELSE Gone,
               down' = Post(Post(down, "source", told["source"] \o failed["source"]),
                            "destination", told["destination"] \o failed["destination"])
        PROVE  Handled
    <3>1. h.gen + 1 \in Gens
      BY <2>1, <2>3, StreamConstants DEF Gens
    <3>2. ASSUME NEW x \in Ends
          PROVE  /\ SendFrom(r, x) \in Nat /\ SendFrom(r, x) <= Len(got[Peer(x)])
                 /\ SendFrom(r, x) <= read[x]
      <4>1. Peer(x) \in Ends /\ Peer(Peer(x)) = x
        BY PeerFacts, Zenon
      <4>2. SendFrom(r, x) \in 0..Len(got[Peer(x)])
        BY <2>3, <4>1, Zenon DEF SendFrom
      <4>3. Len(got[Peer(x)]) <= read[x]
        BY <4>1, Zenon DEF IInv, Sessions, Local
      <4>4. Len(got[Peer(x)]) \in Nat /\ read[x] \in Nat
        BY <2>1, <4>1, Zenon
      <4> QED BY <4>2, <4>3, <4>4
    <3>3. ASSUME NEW x \in Ends
          PROVE  /\ told[x] \o failed[x] \in Seq(Message) /\ ~Opens(told[x] \o failed[x])
                 /\ In(told[x] \o failed[x]) \subseteq Told(x)
      <4> DEFINE n == Resumed(h.gen + 1, SendFrom(r, x))
                 k == Msg("error", h.gen + 1)
      <4>1. n \in Message /\ n.t = "resumed" /\ k \in Message /\ k.t = "error"
        <5>1. SendFrom(r, x) \in Int
          BY <3>2
        <5>2. n \in Message /\ n.t = "resumed"
          BY <3>1, <5>1, ResumedMade, Zenon
        <5>3. k \in Message /\ k.t = "error"
          BY <3>1, PlainMade, Zenon
        <5> QED BY <5>2, <5>3
      <4>2. n \in Told(x) /\ k \in Told(x)
        <5>1. SendFrom(r, x) \in Int
          BY <3>2
        <5>2. n \in Told(x)
          BY <3>1, <3>2, <5>1, <1>HubTells, Zenon
        <5>3. k \in Told(x)
          BY <4>1, <1>HubTells, Zenon
        <5> QED BY <5>2, <5>3
      <4>3. told[x] = <<n>> /\ (failed[x] = <<>> \/ failed[x] = <<k>>)
        BY <2>3, Zenon
      <4> HIDE DEF n, k
      <4>4. told[x] \in Seq(Message) /\ In(told[x]) = {n} /\ ~Opens(told[x])
        BY <4>1, <4>3, ShortList
      <4>5. failed[x] \in Seq(Message) /\ In(failed[x]) \subseteq {k} /\ ~Opens(failed[x])
        <5>1. CASE failed[x] = <<>>
          BY <5>1, ShortList, Zenon
        <5>2. CASE failed[x] = <<k>>
          <6>1. failed[x] \in Seq(Message) /\ In(failed[x]) = {k} /\ ~Opens(failed[x])
            BY <4>1, <5>2, ShortList
          <6> QED BY <6>1, Zenon
        <5> QED BY <4>3, <5>1, <5>2, Zenon
      <4>6. /\ told[x] \o failed[x] \in Seq(Message)
            /\ In(told[x] \o failed[x]) = In(told[x]) \union In(failed[x])
        <5>1. PICK p \in Seq(Message), q \in Seq(Message) : p = told[x] /\ q = failed[x]
          BY <4>4, <4>5, Zenon
        <5>2. p \o q \in Seq(Message) /\ In(p \o q) = In(p) \union In(q)
          BY InConcat, Zenon
        <5> QED BY <5>1, <5>2, Zenon
      <4> QED BY <4>2, <4>4, <4>5, <4>6, Zenon DEF Opens
    <3>4. PICK a, b : a = told["source"] \o failed["source"] /\ b = told["destination"] \o failed["destination"]
      BY Zenon
    <3>5. "source" \in Ends /\ "destination" \in Ends
      BY DEF Ends
    <3>6. /\ a \in Seq(Message) /\ b \in Seq(Message) /\ ~Opens(a) /\ ~Opens(b)
          /\ In(a) \subseteq Told("source") /\ In(b) \subseteq Told("destination")
          /\ down' = Post(Post(down, "source", a), "destination", b)
      BY <2>3, <3>3, <3>4, <3>5, Zenon
    <3>7. down' \in [Ends -> Seq(Message)] /\ \A y \in Ends : Goes(down[y], down'[y], Told(y))
      BY <2>1, <3>6, <1>PostBoth, Zenon
    <3>8. CASE h' = Resumption(r)
      <4> DEFINE f == [x \in Ends |-> SendFrom(r, x)]
                 none == [x \in Ends |-> NoReport]
      <4>1. f \in [Ends -> Nat] /\ \A x \in Ends : f[x] <= read[x]
        BY <3>2, Zenon
      <4>2. none \in [Ends -> Report] /\ \A x \in Ends : none[x] = NoReport
        BY NoReports, Zenon
      <4>3. h' = [h EXCEPT !.gen = @ + 1, !.susp = FALSE, !.reports = none, !.fwd = f]
        BY <3>8, Zenon DEF Resumption
      <4> HIDE DEF f, none
      <4>4. PICK g \in Gens : g = h.gen + 1
        BY <3>1, Zenon
      <4>5. h' = [h EXCEPT !.gen = g, !.susp = FALSE, !.reports = none, !.fwd = f]
        BY <4>3, <4>4, Zenon
      <4>6. h' \in Hub /\ h'.st = h.st /\ h'.fwd = f /\ h'.reports = none
        BY <2>1, <4>1, <4>2, <4>5, Zenon DEF Hub
      <4> QED BY <3>7, <4>1, <4>2, <4>6, Zenon DEF Handled
    <3>9. CASE h' = Gone
      <4>1. 0 \in Gens /\ "gone" \in {"none", "live", "gone"} /\ \A n \in Nat : 0 <= n
        BY StreamConstants DEF Gens
      <4>2. h' \in Hub /\ h'.st = "gone" /\ \A x \in Ends : h'.fwd[x] = 0 /\ h'.reports[x] = NoReport
        BY <3>9, <4>1, NewHub DEF Gone
      <4>3. h'.st # "none" /\ h.st # "none"
        BY <4>2
      <4> QED BY <2>1, <3>7, <4>1, <4>2, <4>3, Zenon DEF Handled
    <3> QED BY <2>3, <3>8, <3>9, Zenon
  <2> QED BY <2>2, <2>3, <1>TerminateHandled, Zenon DEF TryResume
\* handleRuntimeStreamResume
<1>HubOnResumeHandled.
    ASSUME IInv, NEW x \in Ends, NEW m \in Message, m.t = "resume", Tells(Peer(x), m),
           HubOnResume(x, m)
    PROVE  Handled
  <2> USE <1>HubOnResumeHandled
  <2>1. /\ h \in Hub /\ down \in [Ends -> Seq(Message)] /\ h.reports \in [Ends -> Report]
        /\ \A y \in Ends : /\ Goes(down[y], down[y], Told(y)) /\ h.fwd[y] <= read[y]
                           /\ h.reports[y] = NoReport \/ h.reports[y].recv \in 0..Len(got[y])
    BY HubFields, Zenon
  <2>2. m.report \in Report /\ m.gen \in Gens
    BY MessageFields
  <2>3. m.report.recv \in 0..Len(got[x]) /\ (Pipes => s["source"].opened)
    <3>1. Peer(Peer(x)) = x
      BY PeerFacts, Zenon
    <3> QED BY <3>1 DEF Tells, Recovery
  <2>4. ASSUME Expired(x, m), h' = h PROVE Handled
    <3> DEFINE n == Msg("error", m.gen)
    <3>1. n \in Message /\ n.t = "error"
      BY <2>2, PlainMade, Zenon
    <3>2. down' = Post(down, x, <<n>>)
      BY <2>4, Zenon DEF Expired
    <3> HIDE DEF n
    <3>3. PICK ms : ms = <<n>>
      BY Zenon
    <3>4. ms \in Seq(Message) /\ In(ms) = {n} /\ ~Opens(ms)
      BY <3>1, <3>3, ShortList
    <3>5. n \in Told(x)
      BY <3>1, <1>HubTells, Zenon
    <3>6. In(ms) \subseteq Told(x) /\ down' = Post(down, x, ms)
      BY <3>2, <3>3, <3>4, <3>5, Zenon
    <3>7. down' \in [Ends -> Seq(Message)] /\ \A y \in Ends : Goes(down[y], down'[y], Told(y))
      BY <2>1, <3>4, <3>6, <1>PostOne, Zenon
    <3> QED BY <2>1, <2>4, <3>7, Zenon DEF Handled
  <2>5. ASSUME h.st = "live", TryResume([h.reports EXCEPT ![x] = m.report]) PROVE Handled
    <3> DEFINE r == [h.reports EXCEPT ![x] = m.report]
    <3>1. r \in [Ends -> Report] /\ \A y \in Ends : r[y] = NoReport \/ r[y].recv \in 0..Len(got[y])
      BY <2>1, <2>2, <2>3, Zenon
    <3>2. TryResume(r)
      BY <2>5, Zenon
    <3> HIDE DEF r
    <3> QED BY <2>3, <2>5, <3>1, <3>2, <1>TryResumeHandled, Zenon
  <2> QED BY <2>4, <2>5, <1>TerminateHandled, Zenon DEF HubOnResume
\* runtime.stream.opened at the hub
<1>HubOnOpenedHandled.
    ASSUME IInv, h.st = "live", NEW x \in Ends, NEW m, HubOnOpened(x, m)
    PROVE  Handled
  <2> USE <1>HubOnOpenedHandled
  <2>1. /\ h \in Hub /\ h.gen \in Gens /\ down \in [Ends -> Seq(Message)]
        /\ \A y \in Ends : /\ Goes(down[y], down[y], Told(y)) /\ h.fwd[y] <= read[y]
                           /\ h.reports[y] = NoReport \/ h.reports[y].recv \in 0..Len(got[y])
    BY HubFields, Zenon
  <2>2. ASSUME UNCHANGED <<h, down>> PROVE Handled
    BY <2>1, <2>2, Zenon DEF Handled
  <2>3. ASSUME h' = [h EXCEPT !.opened = TRUE],
               down' = Post(down, "source", <<Msg("opened", h.gen)>>)
        PROVE  Handled
    <3> DEFINE n == Msg("opened", h.gen)
    <3>1. n \in Message /\ n.t = "opened"
      BY <2>1, PlainMade, Zenon
    <3>2. down' = Post(down, "source", <<n>>)
      BY <2>3, Zenon
    <3> HIDE DEF n
    <3>3. PICK ms : ms = <<n>>
      BY Zenon
    <3>4. ms \in Seq(Message) /\ In(ms) = {n} /\ ~Opens(ms)
      BY <3>1, <3>3, ShortList
    <3>5. "source" \in Ends
      BY DEF Ends
    <3>6. n \in Told("source")
      BY <3>1, <3>5, <1>HubTells, Zenon
    <3>7. In(ms) \subseteq Told("source") /\ down' = Post(down, "source", ms)
      BY <3>2, <3>3, <3>4, <3>6, Zenon
    <3>8. down' \in [Ends -> Seq(Message)] /\ \A y \in Ends : Goes(down[y], down'[y], Told(y))
      BY <2>1, <3>4, <3>5, <3>7, <1>PostOne, Zenon
    <3>9. h' \in Hub /\ h'.st = h.st /\ h'.fwd = h.fwd /\ h'.reports = h.reports
      BY <2>1, <2>3, Zenon DEF Hub
    <3> QED BY <2>1, <3>8, <3>9, Zenon DEF Handled
  <2> QED BY <2>2, <2>3, <1>TerminateHandled, Zenon DEF HubOnOpened
\* suspendRuntimeStream
<1>SuspendHandled.
    ASSUME IInv, NEW r \in Hub, r.st = h.st, r.reports = h.reports,
           \A x \in Ends : r.fwd[x] <= read[x], Pipes => s["source"].opened, Suspend(r)
    PROVE  Handled
  <2> USE <1>SuspendHandled
  <2>1. /\ down \in [Ends -> Seq(Message)] /\ \A x \in Ends : Goes(down[x], down[x], Told(x))
        /\ \A x \in Ends : h.reports[x] = NoReport \/ h.reports[x].recv \in 0..Len(got[x])
    BY HubFields, Zenon
  <2>2. CASE r.susp
    <3>1. h' = r /\ down' = down
      BY <2>2, Zenon DEF Suspend
    <3> QED BY <2>1, <3>1, Zenon DEF Handled
  <2>3. CASE ~r.susp
    <3> DEFINE m == Msg("suspend", r.gen)
               none == [x \in Ends |-> NoReport]
    <3>1. r.gen \in Gens
      BY Zenon DEF Hub
    <3>2. m \in Message /\ m.t = "suspend"
      BY <3>1, PlainMade, Zenon
    <3>3. /\ h' = [r EXCEPT !.susp = TRUE, !.reports = none]
          /\ down' = Post(Post(down, "source", <<m>>), "destination", <<m>>)
      BY <2>3, Zenon DEF Suspend
    <3>4. none \in [Ends -> Report] /\ \A x \in Ends : none[x] = NoReport
      BY NoReports, Zenon
    <3> HIDE DEF m, none
    <3>5. "source" \in Ends /\ "destination" \in Ends
      BY DEF Ends
    <3>6. m \in Told("source") /\ m \in Told("destination")
      BY <3>2, <3>5, <1>HubTells, Zenon
    <3>7. PICK ms : ms = <<m>>
      BY Zenon
    <3>8. ms \in Seq(Message) /\ In(ms) = {m} /\ ~Opens(ms)
      BY <3>2, <3>7, ShortList
    <3>9. In(ms) \subseteq Told("source") /\ In(ms) \subseteq Told("destination")
      BY <3>6, <3>8, Zenon
    <3>10. down' = Post(Post(down, "source", ms), "destination", ms)
      BY <3>3, <3>7, Zenon
    <3>11. down' \in [Ends -> Seq(Message)] /\ \A y \in Ends : Goes(down[y], down'[y], Told(y))
      BY <2>1, <3>8, <3>9, <3>10, <1>PostBoth, Zenon
    <3>12. h' \in Hub /\ h'.st = r.st /\ h'.fwd = r.fwd /\ h'.reports = none
      BY <3>3, <3>4, Zenon DEF Hub
    <3> QED BY <3>4, <3>11, <3>12, Zenon DEF Handled
  <2> QED BY <2>2, <2>3, Zenon
\* What the source does not know to be open has not been lost.
<1>NotReached.
    ASSUME IInv, NEW x \in Ends, ~Reaches(x)
    PROVE  Pipes => s["source"].opened
  BY <1>NotReached, Zenon DEF IInv, Quiet, Reaches
\* handleRecoverableRuntimeData
<1>HubOnDataHandled.
    ASSUME IInv, h.st = "live", NEW x \in Ends, NEW m \in Message, m.t = "data",
           Tells(Peer(x), m), HubOnData(x, m)
    PROVE  Handled
  <2> USE <1>HubOnDataHandled
  <2> DEFINE r == Forward(x, m)
  <2>1. /\ h \in Hub /\ down \in [Ends -> Seq(Message)] /\ h.fwd \in [Ends -> Nat]
        /\ \A y \in Ends : /\ Goes(down[y], down[y], Told(y)) /\ h.fwd[y] <= read[y]
                           /\ h.reports[y] = NoReport \/ h.reports[y].recv \in 0..Len(got[y])
    BY HubFields, Zenon
  <2>2. Peer(x) \in Ends /\ Peer(Peer(x)) = x
    BY PeerFacts, Zenon
  <2>3. ASSUME UNCHANGED <<h, down>> PROVE Handled
    BY <2>1, <2>3, Zenon DEF Handled
  <2>4. ASSUME ~(m.off # h.fwd[x])
        PROVE  /\ r \in Hub /\ r.st = h.st /\ r.reports = h.reports
               /\ \A y \in Ends : r.fwd[y] <= read[y]
    <3>1. Len(m.data) \in Nat /\ ChunkEnd(m) = m.off + Len(m.data) /\ ChunkEnd(m) <= read[x]
      <4>1. ChunkEnd(m) <= read[x]
        BY <2>2, Zenon DEF Tells
      <4> QED BY <4>1, MessageFields
    <3>2. h.fwd[x] \in Nat /\ h.fwd[x] + Len(m.data) = ChunkEnd(m)
      BY <2>1, <2>4, <3>1, Zenon
    <3>3. h.fwd[x] + Len(m.data) \in Nat
      BY <3>1, <3>2
    <3> DEFINE f == [h.fwd EXCEPT ![x] = @ + Len(m.data)]
    <3>4. f \in [Ends -> Nat] /\ \A y \in Ends : f[y] <= read[y]
      BY <2>1, <3>1, <3>2, <3>3, Zenon
    <3>5. r = [h EXCEPT !.fwd = f]
      BY <2>1 DEF Forward, Hub
    <3> HIDE DEF r, f
    <3>6. r \in Hub /\ r.st = h.st /\ r.reports = h.reports /\ r.fwd = f
      BY <2>1, <3>4, <3>5, Zenon DEF Hub
    <3> QED BY <3>4, <3>6, Zenon
  <2> HIDE DEF r
  <2>5. ASSUME ~(m.off # h.fwd[x]), h' = r, down' = down PROVE Handled
    BY <2>1, <2>4, <2>5, Zenon DEF Handled
  <2>6. ASSUME ~(m.off # h.fwd[x]), h' = r, down' = Post(down, Peer(x), <<m>>) PROVE Handled
    <3>1. PICK ms : ms = <<m>>
      BY Zenon
    <3>2. ms \in Seq(Message) /\ In(ms) = {m} /\ ~Opens(ms)
      BY <3>1, ShortList
    <3>3. m \in Told(Peer(x))
      BY Zenon DEF Told
    <3>4. In(ms) \subseteq Told(Peer(x)) /\ down' = Post(down, Peer(x), ms)
      BY <2>6, <3>1, <3>2, <3>3, Zenon
    <3>5. down' \in [Ends -> Seq(Message)] /\ \A y \in Ends : Goes(down[y], down'[y], Told(y))
      BY <2>1, <2>2, <3>2, <3>4, <1>PostOne, Zenon
    <3> QED BY <2>1, <2>4, <2>6, <3>5, Zenon DEF Handled
  <2>7. ASSUME ~(m.off # h.fwd[x]), ~Reaches(Peer(x)), Suspend(r) PROVE Handled
    <3>1. Pipes => s["source"].opened
      BY <2>2, <2>7, <1>NotReached, Zenon
    <3> QED BY <2>4, <2>7, <3>1, <1>SuspendHandled, Zenon
  <2> QED BY <2>3, <2>5, <2>6, <2>7, <1>TerminateHandled, Zenon DEF HubOnData, r
\* handleRuntimeStreamAcknowledgement
<1>HubOnAckHandled.
    ASSUME IInv, h.st = "live", NEW x \in Ends, NEW m \in Message, m.t = "ack",
           Tells(Peer(x), m), HubOnAck(x, m)
    PROVE  Handled
  <2> USE <1>HubOnAckHandled
  <2>1. /\ h \in Hub /\ down \in [Ends -> Seq(Message)]
        /\ \A y \in Ends : /\ Goes(down[y], down[y], Told(y)) /\ h.fwd[y] <= read[y]
                           /\ h.reports[y] = NoReport \/ h.reports[y].recv \in 0..Len(got[y])
    BY HubFields, Zenon
  <2>2. Peer(x) \in Ends
    BY PeerFacts, Zenon
  <2>3. ASSUME UNCHANGED <<h, down>> PROVE Handled
    BY <2>1, <2>3, Zenon DEF Handled
  <2>4. ASSUME h' = h, down' = Post(down, Peer(x), <<m>>) PROVE Handled
    <3>1. PICK ms : ms = <<m>>
      BY Zenon
    <3>2. ms \in Seq(Message) /\ In(ms) = {m} /\ ~Opens(ms)
      BY <3>1, ShortList
    <3>3. m \in Told(Peer(x))
      BY Zenon DEF Told
    <3>4. In(ms) \subseteq Told(Peer(x)) /\ down' = Post(down, Peer(x), ms)
      BY <2>4, <3>1, <3>2, <3>3, Zenon
    <3>5. down' \in [Ends -> Seq(Message)] /\ \A y \in Ends : Goes(down[y], down'[y], Told(y))
      BY <2>1, <2>2, <3>2, <3>4, <1>PostOne, Zenon
    <3> QED BY <2>1, <2>4, <3>5, Zenon DEF Handled
  <2>5. ASSUME ~Reaches(Peer(x)), Suspend(h) PROVE Handled
    <3>1. Pipes => s["source"].opened
      BY <2>2, <2>5, <1>NotReached, Zenon
    <3> QED BY <2>1, <2>5, <3>1, <1>SuspendHandled, Zenon
  <2> QED BY <2>3, <2>4, <2>5, <1>TerminateHandled, Zenon DEF HubOnAck
<1>ForwardHandled.
    ASSUME IInv, h.st = "live", NEW y \in Ends, NEW m \in Told(y), m.t # "open",
           TerminateAndForward(y, m)
    PROVE  Handled
  <2> USE <1>ForwardHandled
  <2>1. h \in Hub /\ down \in [Ends -> Seq(Message)] /\ \A x \in Ends : read[x] \in Nat
    BY HubFields, Zenon
  <2>2. m \in Message
    BY Zenon DEF Told
  <2>3. h' = HubSession("gone", 0) /\ down' = Post(down, y, <<m>>)
    BY Zenon DEF TerminateAndForward, Gone
  <2>6. PICK ms : ms = <<m>>
    BY Zenon
  <2>7. ms \in Seq(Message) /\ In(ms) = {m} /\ ~Opens(ms)
    BY <2>2, <2>6, ShortList, Zenon
  <2>8. In(ms) \subseteq Told(y) /\ down' = Post(down, y, ms)
    BY <2>3, <2>6, <2>7, Zenon
  <2>10. down' \in [Ends -> Seq(Message)] /\ \A z \in Ends : Goes(down[z], down'[z], Told(z))
    BY <2>1, <2>7, <2>8, <1>PostOne, Zenon
  <2>11. 0 \in Gens /\ \A n \in Nat : 0 <= n
    BY StreamConstants DEF Gens
  <2>12. h' \in Hub /\ h'.st = "gone" /\ \A x \in Ends : h'.fwd[x] = 0 /\ h'.reports[x] = NoReport
    <3>1. "gone" \in {"none", "live", "gone"}
      OBVIOUS
    <3> QED BY <2>3, <2>11, <3>1, NewHub
  <2>13. h'.st # "none" /\ h.st # "none"
    BY <2>12
  <2> QED BY <2>1, <2>10, <2>11, <2>12, <2>13, Zenon DEF Handled
\* A step of the hub, or of a WebSocket, that leaves the tunnels alone.
<1>HubKeeps.
    ASSUME IInv, UNCHANGED <<s, read, got, how>>, h' \in Hub, h'.st = "none" <=> h.st = "none",
           ws' \in [Ends -> {"up", "closing", "down", "joining"}],
           conn' \in [Ends -> {"pending", "ready", "closing", "down"}], faults' \in 0..Faults,
           up' \in [Ends -> Seq(Message)], down' \in [Ends -> Seq(Message)],
           \A x \in Ends : Goes(up[x], up'[x], Told(Peer(x))) /\ Goes(down[x], down'[x], Told(x)),
           \A x \in Ends : /\ h'.fwd[x] <= read[x]
                           /\ h'.reports[x] = NoReport \/ h'.reports[x].recv \in 0..Len(got[x])
    PROVE  Kept
  <2> USE <1>HubKeeps
  <2>1. Types /\ OpenedOnce /\ Sessions /\ Underway /\ Relay
    BY Zenon DEF IInv
  <2>2. Types'
    BY <2>1, Zenon DEF Types
  <2>3. \A x \in Ends : read[x] <= read[x] /\ Len(got[x]) <= Len(got[x])
    BY <2>1, TypesFacts
  <2>4. \A x \in Ends : Peer(x) \in Ends
    BY PeerFacts, Zenon
  <2>5. Grows
    BY <2>3, Zenon DEF Grows
  <2>6. \A x \in Ends : Told(x) \subseteq Told(x)'
    BY <2>1, <2>2, <2>4, <2>5, TellsKept, Zenon DEF Grows
  <2>7. Flows
    BY <2>4, <2>6, Zenon DEF Flows, Goes
  <2>8. Underway'
    BY <2>1, <2>2, <2>5, <2>7, UnderwayKept, Zenon
  <2>9. OpenedOnce'
    BY <2>1, <2>7, OpenedOnceKept, Zenon
  <2>10. Sessions'
    <3>1. \A x \in Ends : Local(x)' = Local(x)
      BY Zenon DEF Local, Live, Agrees, Exists
    <3> QED BY <2>1, <3>1, Zenon DEF Sessions
  <2>11. Relay'
    BY Zenon DEF Relay
  <2> QED BY Zenon, <2>2, <2>8, <2>9, <2>10, <2>11 DEF Kept
\* The hub takes a message of worker x, unless it opens the stream.
<1>HubReceivesKeeps.
    ASSUME IInv, NEW x \in Ends, HubReceives(x), Head(up[x]).t # "open"
    PROVE  Kept
  <2> USE <1>HubReceivesKeeps
  <2> DEFINE m == Head(up[x])
             q == IF m.t = "goodbye" THEN <<>> ELSE Tail(up[x])
  <2>1. /\ up[x] # <<>> /\ up' = [up EXCEPT ![x] = q] /\ UNCHANGED <<s, ws, faults, read, got, how>>
        /\ \/ UNCHANGED <<h, down>> /\ conn' = [conn EXCEPT ![x] = IF @ = "pending" THEN "ready" ELSE @]
           \/ UNCHANGED <<h, down>> /\ conn' = [conn EXCEPT ![x] = "down"]
           \/ conn' = conn
    BY Zenon DEF HubReceives
  <2>2. /\ m \in Message /\ Tells(Peer(x), m) /\ Goes(up[x], Tail(up[x]), {}) /\ Peer(x) \in Ends
    BY <2>1, ReceiptFacts, PeerFacts, Zenon
  <2>3. Types /\ up \in [Ends -> Seq(Message)] /\ down \in [Ends -> Seq(Message)]
        /\ \A y \in Ends : up[y] \in Seq(Message) /\ Goes(up[y], up[y], {}) /\ Goes(up[y], <<>>, {})
    <3>1. Types
      BY Zenon DEF IInv
    <3> QED BY <3>1, GoesFacts, TypesFacts, Zenon DEF Types
  <2>4. Goes(up[x], q, {})
    BY <2>2, <2>3, Zenon
  <2> HIDE DEF q
  <2>5. up' \in [Ends -> Seq(Message)]
    <3>1. q \in Seq(Message)
      BY <2>4, Zenon DEF Goes
    <3> QED BY <2>1, <2>3, <3>1, Zenon
  <2>6. \A y \in Ends : Goes(up[y], up'[y], Told(Peer(y)))
    <3>1. \A y \in Ends : Goes(up[y], up'[y], {})
      BY <2>1, <2>3, <2>4, Zenon
    <3> QED BY <3>1, Zenon DEF Goes
  <2>7. ws' \in [Ends -> {"up", "closing", "down", "joining"}] /\ faults' \in 0..Faults
        /\ UNCHANGED <<s, read, got, how>>
    BY <2>1, <2>3, Zenon DEF Types
  <2>8. conn' \in [Ends -> {"pending", "ready", "closing", "down"}]
    <3>1. conn \in [Ends -> {"pending", "ready", "closing", "down"}]
      BY <2>3, Zenon DEF Types
    <3> QED BY <2>1, <3>1
  <2>9. ASSUME UNCHANGED <<h, down>> PROVE Handled
    BY <2>9, HubFields, Zenon DEF Handled
  <2>10. ASSUME h.st = "live", m.t \in {"end", "error"},
                IF m.gen = h.gen THEN TerminateAndForward(Peer(x), m) ELSE Terminate
         PROVE  Handled
    <3>1. m \in Told(Peer(x)) /\ m.t # "open"
      BY <2>2, Zenon DEF Told
    <3> QED BY <2>2, <2>10, <3>1, <1>ForwardHandled, <1>TerminateHandled, Zenon
  <2>11. Handled
    <3>1. \/ UNCHANGED <<h, down>>
          \/ m.t = "open" /\ HubOnOpen(m)
          \/ m.t = "resume" /\ HubOnResume(x, m)
          \/ m.t = "opened" /\ h.st = "live" /\ HubOnOpened(x, m)
          \/ m.t = "data" /\ h.st = "live" /\ HubOnData(x, m)
          \/ m.t = "ack" /\ h.st = "live" /\ HubOnAck(x, m)
          \/ /\ m.t \in {"end", "error"} /\ h.st = "live"
             /\ IF m.gen = h.gen THEN TerminateAndForward(Peer(x), m) ELSE Terminate
      BY Zenon DEF HubReceives
    <3> HIDE DEF m
    <3>2. m.t # "open"
      BY Zenon DEF m
    <3> QED BY Zenon, <2>2, <2>9, <2>10, <3>1, <3>2, <1>HubOnResumeHandled, <1>HubOnOpenedHandled,
               <1>HubOnDataHandled, <1>HubOnAckHandled
  <2> QED BY <2>5, <2>6, <2>7, <2>8, <2>11, <1>HubKeeps, Zenon DEF Handled
\* The recovery grace runs out.
<1>RecoveryTimeoutKeeps.
    ASSUME IInv, RecoveryTimeout
    PROVE  Kept
  <2> USE <1>RecoveryTimeoutKeeps
  <2>1. h.st = "live" /\ Terminate /\ UNCHANGED <<s, world, up, read, got, how>>
    BY Zenon DEF RecoveryTimeout
  <2>2. Types /\ up \in [Ends -> Seq(Message)] /\ \A y \in Ends : Goes(up[y], up[y], {})
    <3>1. Types
      BY Zenon DEF IInv
    <3> QED BY <3>1, GoesFacts, TypesFacts, Zenon DEF Types
  <2>3. \A y \in Ends : Goes(up[y], up'[y], Told(Peer(y)))
    BY <2>1, <2>2, Zenon DEF Goes
  <2>4. Handled
    BY <2>1, <1>TerminateHandled, Zenon
  <2>5. /\ ws' \in [Ends -> {"up", "closing", "down", "joining"}] /\ faults' \in 0..Faults
        /\ conn' \in [Ends -> {"pending", "ready", "closing", "down"}]
        /\ up' \in [Ends -> Seq(Message)] /\ UNCHANGED <<s, read, got, how>>
    BY <2>1, <2>2, Zenon DEF Types, world
  <2> QED BY <2>3, <2>4, <2>5, <1>HubKeeps, Zenon DEF Handled
\* A step that changes at most one channel from a worker.
<1>SocketKeeps.
    ASSUME IInv, NEW x \in Ends, NEW q, UNCHANGED <<s, read, got, how>>, Handled,
           up' = [up EXCEPT ![x] = q], Goes(up[x], q, Told(Peer(x))),
           ws' \in [Ends -> {"up", "closing", "down", "joining"}],
           conn' \in [Ends -> {"pending", "ready", "closing", "down"}], faults' \in 0..Faults
    PROVE  Kept
  <2> USE <1>SocketKeeps
  <2>1. Types /\ up \in [Ends -> Seq(Message)] /\ q \in Seq(Message)
    BY Zenon DEF IInv, Types, Goes
  <2>2. \A y \in Ends : Goes(up[y], up[y], {})
    BY <2>1, GoesFacts, Zenon
  <2>3. \A y \in Ends : Goes(up[y], up[y], Told(Peer(y)))
    BY <2>2, Zenon DEF Goes
  <2>4. up' \in [Ends -> Seq(Message)] /\ \A y \in Ends : Goes(up[y], up'[y], Told(Peer(y)))
    BY <2>1, <2>3, Zenon
  <2> QED BY <2>4, <1>HubKeeps, Zenon DEF Handled
\* server.ready and transportConnected
<1>ServerReadyKeeps.
    ASSUME IInv, NEW x \in Ends, ServerReady(x)
    PROVE  Kept
  <2> USE <1>ServerReadyKeeps
  <2> DEFINE b == <<Heartbeat>>
             n == ResumeState(s[x])
             c == IF Exists(x) /\ s[x].susp THEN <<n>> ELSE <<>>
  <2>1. /\ ws[x] = "joining" /\ ws' = [ws EXCEPT ![x] = "up"]
        /\ UNCHANGED <<s, h, conn, down, faults, read, got, how>>
        /\ up' = up \/ up' = [up EXCEPT ![x] = up[x] \o b \o c]
    BY Zenon DEF ServerReady
  <2>2. /\ Types /\ ws \in [Ends -> {"up", "closing", "down", "joining"}]
        /\ conn \in [Ends -> {"pending", "ready", "closing", "down"}] /\ faults \in 0..Faults
        /\ up \in [Ends -> Seq(Message)] /\ up[x] \in Seq(Message) /\ Peer(x) \in Ends
    BY PeerFacts, Zenon DEF IInv, Types
  <2>3. Pipes => s["source"].opened
    BY <2>1 DEF IInv, Quiet
  <2>4. Handled
    BY <2>1, HubFields, Zenon DEF Handled
  <2>5. b \in Seq(Message) /\ In(b) \subseteq Told(Peer(x)) /\ ~Opens(b)
    <3>1. Heartbeat \in Message /\ Heartbeat.t = "heartbeat"
      BY MessagesMade, Zenon
    <3>2. Heartbeat \in Told(Peer(x))
      BY <2>2, <2>3, <3>1, <1>HubTells
    <3>3. b \in Seq(Message) /\ In(b) = {Heartbeat} /\ ~Opens(b)
      BY <3>1, ShortList
    <3> QED BY <3>2, <3>3, Zenon
  <2>6. c \in Seq(Message) /\ In(c) \subseteq Told(Peer(x)) /\ ~Opens(c)
    <3>1. CASE c = <<>>
      <4> HIDE DEF c
      <4> QED BY <3>1, ShortList, Zenon
    <3>2. CASE Exists(x)
      <4>1. s[x] \in Session /\ Buffer(s[x]) /\ s[x].recv = Len(got[x])
        BY <3>2, LiveFacts, Zenon DEF Live, Agrees
      <4>2. s[x].recv = Len(got'[x]) /\ (Pipes => s'["source"].opened)
        BY <2>1, <2>3, <4>1, Zenon
      <4>3. n \in Told(Peer(x))' /\ n.t = "resume"
        BY <4>1, <4>2, ResumeStateTells, Zenon
      <4> HIDE DEF n
      <4>4. n \in Told(Peer(x))
        BY <2>1, <4>3, Zenon DEF Told, Tells
      <4>5. n \in Message
        BY <4>4, Zenon DEF Told
      <4>6. PICK r : r = <<n>>
        BY Zenon
      <4>7. r \in Seq(Message) /\ In(r) = {n} /\ ~Opens(r)
        BY <4>3, <4>5, <4>6, ShortList
      <4>8. c = r \/ c = <<>>
        BY <4>6, Zenon
      <4> HIDE DEF c
      <4> QED BY <3>1, <4>4, <4>7, <4>8, Zenon
    <3>3. c = <<>> \/ Exists(x)
      BY Zenon
    <3> HIDE DEF c
    <3> QED BY <3>1, <3>2, <3>3, Zenon
  <2> HIDE DEF b, c
  <2>7. Goes(up[x], up[x], Told(Peer(x))) /\ Goes(up[x], up[x] \o b \o c, Told(Peer(x)))
    <3>1. Goes(up[x], up[x], {}) /\ Goes(up[x], up[x] \o b, In(b))
      BY <2>2, <2>5, GoesFacts, Zenon
    <3>2. up[x] \o b \in Seq(Message)
      BY <3>1, Zenon DEF Goes
    <3>3. Goes(up[x] \o b, (up[x] \o b) \o c, In(c))
      BY <2>6, <3>2, GoesFacts, Zenon
    <3>4. Goes(up[x], up[x] \o b \o c, In(b) \union In(c))
      BY <3>1, <3>3, <1>GoesOn, Zenon
    <3>5. In(b) \union In(c) \subseteq Told(Peer(x)) /\ {} \subseteq Told(Peer(x))
      BY <2>5, <2>6, Zenon
    <3>6. PICK q : q = up[x] \o b \o c
      BY Zenon
    <3>7. Goes(up[x], q, In(b) \union In(c))
      BY <3>4, <3>6, Zenon
    <3>8. Goes(up[x], up[x], Told(Peer(x)))
      BY <3>1, Zenon DEF Goes
    <3>9. Goes(up[x], q, Told(Peer(x)))
      BY <3>5, <3>7, Zenon DEF Goes
    <3> QED BY <3>6, <3>8, <3>9, Zenon
  <2>8. PICK q : up' = [up EXCEPT ![x] = q] /\ Goes(up[x], q, Told(Peer(x)))
    <3>1. up = [up EXCEPT ![x] = up[x]]
      BY <2>2, Zenon
    <3> QED BY <2>1, <2>7, <3>1, Zenon
  <2>9. ws' \in [Ends -> {"up", "closing", "down", "joining"}]
    BY <2>1, <2>2
  <2>10. conn' \in [Ends -> {"pending", "ready", "closing", "down"}] /\ faults' \in 0..Faults
         /\ UNCHANGED <<s, read, got, how>>
    BY <2>1, <2>2, Zenon
  <2> QED BY <2>4, <2>8, <2>9, <2>10, <1>SocketKeeps, Zenon
<1>StartsFaults.
    ASSUME Types, NEW first, Starts(first)
    PROVE  faults' \in 0..Faults
  <2> USE <1>StartsFaults
  <2>1. faults \in 0..Faults /\ Faults \in Nat
    BY StreamConstants, Zenon DEF Types
  <2>2. faults' = faults \/ (faults > 0 /\ faults' = faults - 1)
    BY Zenon DEF Starts
  <2> QED BY <2>1, <2>2
\* handleClose
<1>HubClosesKeeps.
    ASSUME IInv, NEW x \in Ends, HubCloses(x)
    PROVE  Kept
  <2> USE <1>HubClosesKeeps
  <2>1. /\ conn' = [conn EXCEPT ![x] = "down"] /\ up' = [up EXCEPT ![x] = <<>>]
        /\ conn[x] # "down" /\ Starts(conn[x] # "closing" /\ ws[x] \in {"up", "joining"})
        /\ UNCHANGED <<s, ws, read, got, how>>
    BY Zenon DEF HubCloses
  <2>2. PICK q \in Prefixes(down[x]) :
          LET d == [down EXCEPT ![x] = q] IN
          IF h.st = "live" /\ ~h.susp
          THEN /\ h' = [h EXCEPT !.susp = TRUE, !.reports = [y \in Ends |-> NoReport]]
               /\ down' = Post(d, Peer(x), <<Msg("suspend", h.gen)>>)
          ELSE down' = d /\ UNCHANGED h
    BY Zenon DEF HubCloses
  <2>3. /\ Types /\ h \in Hub /\ h.gen \in Gens /\ down \in [Ends -> Seq(Message)]
        /\ \A y \in Ends : /\ Goes(down[y], down[y], {}) /\ h.fwd[y] <= read[y]
                           /\ h.reports[y] = NoReport \/ h.reports[y].recv \in 0..Len(got[y])
    BY HubFields, Zenon
  <2>4. /\ ws \in [Ends -> {"up", "closing", "down", "joining"}]
        /\ conn \in [Ends -> {"pending", "ready", "closing", "down"}]
        /\ Peer(x) \in Ends /\ up[x] \in Seq(Message) /\ down[x] \in Seq(Message)
    BY <2>3, PeerFacts, TypesFacts, Zenon DEF Types
  <2> DEFINE d == [down EXCEPT ![x] = q]
  <2>5. d \in [Ends -> Seq(Message)] /\ \A y \in Ends : Goes(down[y], d[y], {})
    <3>1. Goes(down[x], q, {}) /\ q \in Seq(Message)
      BY <2>2, <2>4, GoesFacts, Zenon DEF Goes
    <3> QED BY <2>3, <3>1, Zenon
  <2>6. Pipes => s["source"].opened
    <3>1. CASE conn[x] # "closing" /\ ws[x] \in {"up", "joining"}
      BY <2>1, <3>1, Zenon DEF Starts, Pipes
    <3>2. CASE conn[x] = "closing" \/ ws[x] \notin {"up", "joining"}
      BY <3>2 DEF IInv, Quiet
    <3> QED BY <3>1, <3>2, Zenon
  <2>7. ASSUME down' = d, h' = h PROVE Handled
    <3>1. \A y \in Ends : Goes(down[y], down'[y], Told(y))
      BY <2>5, <2>7, Zenon DEF Goes
    <3> QED BY <2>3, <2>5, <2>7, <3>1, Zenon DEF Handled
  <2>8. ASSUME h' = [h EXCEPT !.susp = TRUE, !.reports = [y \in Ends |-> NoReport]],
               down' = Post(d, Peer(x), <<Msg("suspend", h.gen)>>)
        PROVE  Handled
    <3> HIDE DEF d
    <3> DEFINE m == Msg("suspend", h.gen)
               none == [y \in Ends |-> NoReport]
    <3>1. m \in Message /\ m.t = "suspend"
      BY <2>3, PlainMade, Zenon
    <3>2. down' = Post(d, Peer(x), <<m>>) /\ h' = [h EXCEPT !.susp = TRUE, !.reports = none]
      BY <2>8, Zenon
    <3>3. none \in [Ends -> Report] /\ \A y \in Ends : none[y] = NoReport
      BY NoReports, Zenon
    <3> HIDE DEF m, none
    <3>4. PICK ms : ms = <<m>>
      BY Zenon
    <3>5. ms \in Seq(Message) /\ In(ms) = {m} /\ ~Opens(ms)
      BY <3>1, <3>4, ShortList
    <3>6. m \in Told(Peer(x))
      BY <2>4, <2>6, <3>1, <1>HubTells
    <3>7. In(ms) \subseteq Told(Peer(x)) /\ down' = Post(d, Peer(x), ms)
      BY <3>2, <3>4, <3>5, <3>6, Zenon
    <3>8. down' \in [Ends -> Seq(Message)] /\ \A y \in Ends : Goes(d[y], down'[y], Told(y))
      BY <2>4, <2>5, <3>5, <3>7, <1>PostOne, Zenon
    <3>9. \A y \in Ends : Goes(down[y], down'[y], Told(y))
      BY <2>5, <3>8, Zenon DEF Goes
    <3>10. h' \in Hub /\ h'.st = h.st /\ h'.fwd = h.fwd /\ h'.reports = none
      BY <2>3, <3>2, <3>3, Zenon DEF Hub
    <3> QED BY <2>3, <3>3, <3>8, <3>9, <3>10, Zenon DEF Handled
  <2>9. Handled
    BY <2>2, <2>7, <2>8, Zenon
  <2>10. Goes(up[x], <<>>, Told(Peer(x)))
    <3>1. Goes(up[x], <<>>, {})
      BY <2>4, GoesFacts, Zenon
    <3> QED BY <3>1, Zenon DEF Goes
  <2>11. conn' \in [Ends -> {"pending", "ready", "closing", "down"}]
    BY <2>1, <2>4
  <2>12. ws' \in [Ends -> {"up", "closing", "down", "joining"}] /\ faults' \in 0..Faults
         /\ UNCHANGED <<s, read, got, how>>
    BY <2>1, <2>3, <2>4, <1>StartsFaults, Zenon
  <2>13. PICK p : p = <<>>
    BY Zenon
  <2>14. up' = [up EXCEPT ![x] = p] /\ Goes(up[x], p, Told(Peer(x)))
    BY <2>1, <2>10, <2>13, Zenon
  <2> QED BY <2>9, <2>11, <2>12, <2>14, <1>SocketKeeps, Zenon
\* sendGoodbye
<1>SendGoodbyeKeeps.
    ASSUME IInv, NEW x \in Ends, SendGoodbye(x)
    PROVE  Kept
  <2> USE <1>SendGoodbyeKeeps
  <2>1. UNCHANGED <<s, h, conn, down, read, got, how>> /\ ws' = [ws EXCEPT ![x] = "closing"]
        /\ Starts(TRUE) /\ SendEnvelopes(x, <<Goodbye>>)
    BY Zenon DEF SendGoodbye
  <2>2. /\ Types /\ ws \in [Ends -> {"up", "closing", "down", "joining"}]
        /\ conn \in [Ends -> {"pending", "ready", "closing", "down"}]
    BY Zenon DEF IInv, Types
  <2>3. Handled
    BY <2>1, HubFields, Zenon DEF Handled
  <2>4. Goodbye \in Message /\ Goodbye.t = "goodbye" /\ Peer(x) \in Ends
    BY MessagesMade, PeerFacts, Zenon
  <2>5. Pipes => s["source"].opened
    BY <2>1, Zenon DEF Starts, Pipes
  <2>6. Goodbye \in Told(Peer(x))
    BY <2>4, <2>5, <1>HubTells
  <2>7. PICK ms : ms = <<Goodbye>>
    BY Zenon
  <2>8. ms \in Seq(Message) /\ In(ms) = {Goodbye} /\ ~Opens(ms)
    BY <2>4, <2>7, ShortList
  <2>9. SendEnvelopes(x, ms)
    BY <2>1, <2>7, Zenon
  <2>10. PICK q : up' = [up EXCEPT ![x] = q] /\ Goes(up[x], q, In(ms))
    BY <2>2, <2>8, <2>9, SendEffect, Zenon
  <2>11. Goes(up[x], q, Told(Peer(x)))
    <3>1. In(ms) \subseteq Told(Peer(x))
      BY <2>6, <2>8, Zenon
    <3> QED BY <2>10, <3>1, GoesMore, Zenon
  <2>12. /\ ws' \in [Ends -> {"up", "closing", "down", "joining"}]
         /\ conn' \in [Ends -> {"pending", "ready", "closing", "down"}]
    <3>1. ws' \in [Ends -> {"up", "closing", "down", "joining"}]
      BY <2>1, <2>2
    <3> QED BY <2>1, <2>2, <3>1, Zenon
  <2>13. faults' \in 0..Faults /\ UNCHANGED <<s, read, got, how>>
    BY <2>1, <2>2, <1>StartsFaults, Zenon
  <2> QED BY <2>3, <2>10, <2>11, <2>12, <2>13, <1>SocketKeeps, Zenon
<1>WorkerClosingKeeps.
    ASSUME IInv, NEW x \in Ends, WorkerClosing(x) \/ HubClosing(x) \/ Hello(x)
    PROVE  Kept
  <2> USE <1>WorkerClosingKeeps
  <2>1. UNCHANGED <<s, h, up, down, read, got, how>>
    BY Zenon DEF WorkerClosing, HubClosing, Hello
  <2>2. /\ Types /\ ws \in [Ends -> {"up", "closing", "down", "joining"}]
        /\ conn \in [Ends -> {"pending", "ready", "closing", "down"}] /\ faults \in 0..Faults
        /\ up \in [Ends -> Seq(Message)] /\ Goes(up[x], up[x], {})
    <3>1. Types
      BY Zenon DEF IInv
    <3> QED BY <3>1, GoesFacts, TypesFacts, Zenon DEF Types
  <2>3. Handled
    BY <2>1, HubFields, Zenon DEF Handled
  <2>4. up' = [up EXCEPT ![x] = up[x]] /\ Goes(up[x], up[x], Told(Peer(x)))
    BY <2>1, <2>2, Zenon DEF Goes
  <2>5. /\ ws' \in [Ends -> {"up", "closing", "down", "joining"}]
        /\ conn' \in [Ends -> {"pending", "ready", "closing", "down"}]
    <3>1. ws' = ws \/ ws' = [ws EXCEPT ![x] = "closing"] \/ ws' = [ws EXCEPT ![x] = "joining"]
      BY Zenon DEF WorkerClosing, HubClosing, Hello
    <3>2. conn' = conn \/ conn' = [conn EXCEPT ![x] = "closing"] \/ conn' = [conn EXCEPT ![x] = "pending"]
      BY Zenon DEF WorkerClosing, HubClosing, Hello
    <3>3. ws' \in [Ends -> {"up", "closing", "down", "joining"}]
      BY <2>2, <3>1
    <3>4. conn' \in [Ends -> {"pending", "ready", "closing", "down"}]
      BY <2>2, <3>2
    <3> QED BY <3>3, <3>4
  <2>6. faults' \in 0..Faults
    BY <2>2, <1>StartsFaults, Zenon DEF WorkerClosing, HubClosing, Hello
  <2>7. UNCHANGED <<s, read, got, how>>
    BY <2>1, Zenon
  <2> QED BY <2>3, <2>4, <2>5, <2>6, <2>7, <1>SocketKeeps, Zenon
<1> QED BY Zenon, <1>RecoveryTimeoutKeeps, <1>HubReceivesKeeps, <1>HubOnOpenKeeps,
           <1>WorkerClosingKeeps, <1>SendGoodbyeKeeps, <1>HubClosesKeeps, <1>ServerReadyKeeps

-----------------------------------------------------------------------------
(* Nothing is lost before the source knows that the stream is open *)

LEMMA SourceIsEnd == "source" \in Ends /\ "destination" \in Ends
BY DEF Ends

LEMMA QuietKept ==
    ASSUME IInv, s["source"].opened => s'["source"].opened, h'.susp = h.susp, ws' = ws, conn' = conn
    PROVE  Quiet'
BY Zenon DEF IInv, Quiet

\* A session that is changed, and not opened anew, stays opened.
LEMMA OpenedStays ==
    ASSUME Types, NEW x \in Ends, NEW e, s' = [s EXCEPT ![x] = e], s[x].opened => e.opened
    PROVE  s["source"].opened => s'["source"].opened
BY SourceIsEnd, Zenon DEF Types

LEMMA CloseOpened ==
    ASSUME Types, NEW x \in Ends, NEW w, NEW ms, CloseSession(x, w, ms)
    PROVE  s["source"].opened => s'["source"].opened
<1> DEFINE e == NewSession("closed", s[x].opened, 0, TRUE)
<1>1. s' = [s EXCEPT ![x] = e] /\ e.opened = s[x].opened
  BY Zenon DEF CloseSession, NewSession
<1> HIDE DEF e
<1> QED BY <1>1, OpenedStays, Zenon

LEMMA FailOpened ==
    ASSUME Types, NEW x \in Ends, Fail(x)
    PROVE  s["source"].opened => s'["source"].opened
BY CloseOpened, Zenon DEF Fail

LEMMA TunnelOpened ==
    ASSUME Types, NEW x \in Ends, TunnelReceives(x)
    PROVE  s["source"].opened => s'["source"].opened
<1> DEFINE m == Head(down[x])
<1>1. s \in [Ends -> Session] /\ s[x] \in Session
  BY Zenon DEF Types
<1>2. ASSUME OnOpen(x, m) PROVE s["source"].opened => s'["source"].opened
  <2>1. CASE s' = s
    BY <2>1, Zenon
  <2>2. CASE s' = [s EXCEPT ![x] = NewSession("connecting", TRUE, m.gen, FALSE)]
    <3> DEFINE e == NewSession("connecting", TRUE, m.gen, FALSE)
    <3>1. e.opened = TRUE /\ s' = [s EXCEPT ![x] = e]
      BY <2>2, Zenon DEF NewSession
    <3> HIDE DEF e
    <3> QED BY <3>1, OpenedStays, Zenon
  <2> QED BY <1>2, <2>1, <2>2, Zenon DEF OnOpen
<1>3. ASSUME OnOpened(x, m) PROVE s["source"].opened => s'["source"].opened
  <2>1. CASE s' = [s EXCEPT ![x].opened = TRUE, ![x].paused = @ /\ s[x].susp]
    <3> DEFINE e == [s[x] EXCEPT !.opened = TRUE, !.paused = @ /\ s[x].susp]
    <3>1. s' = [s EXCEPT ![x] = e] /\ e.opened = TRUE
      BY <1>1, <2>1, Zenon DEF Session
    <3> HIDE DEF e
    <3> QED BY <3>1, OpenedStays, Zenon
  <2> QED BY <1>3, <2>1, FailOpened, Zenon DEF OnOpened, Ignore
<1>4. ASSUME OnData(x, m) PROVE s["source"].opened => s'["source"].opened
  <2>1. CASE s' = [s EXCEPT ![x] = [s[x] EXCEPT !.recv = ChunkEnd(m)]]
    <3> DEFINE e == [s[x] EXCEPT !.recv = ChunkEnd(m)]
    <3>1. s' = [s EXCEPT ![x] = e] /\ e.opened = s[x].opened
      BY <1>1, <2>1, Zenon DEF Session
    <3> HIDE DEF e
    <3> QED BY <3>1, OpenedStays, Zenon
  <2> QED BY <1>4, <2>1, FailOpened, Zenon DEF OnData, Ignore
<1>5. \A n : Trim(s[x], n).opened = s[x].opened
  BY <1>1, Zenon DEF Trim, Session
<1>6. ASSUME OnAck(x, m) PROVE s["source"].opened => s'["source"].opened
  <2> DEFINE t == Trim(s[x], m.n)
             e == [t EXCEPT !.paused = @ /\ ~(t.opened /\ ~t.susp /\ ReplayBytes(t) <= LowWater)]
  <2>1. t.opened = s[x].opened /\ t = [s[x] EXCEPT !.acked = t.acked, !.replay = t.replay]
    BY <1>1, <1>5, Zenon DEF Trim, Session
  <2>2. CASE s' = [s EXCEPT ![x] = e]
    <3>1. e.opened = s[x].opened
      <4> HIDE DEF t
      <4> QED BY <1>1, <2>1 DEF Session
    <3> HIDE DEF e
    <3> QED BY <2>2, <3>1, OpenedStays, Zenon
  <2> QED BY <1>6, <2>2, FailOpened, Zenon DEF OnAck, Ignore
<1>7. ASSUME OnSuspend(x, m) PROVE s["source"].opened => s'["source"].opened
  <2>1. CASE s' = [s EXCEPT ![x].susp = TRUE, ![x].paused = TRUE]
    <3> DEFINE e == [s[x] EXCEPT !.susp = TRUE, !.paused = TRUE]
    <3>1. s' = [s EXCEPT ![x] = e] /\ e.opened = s[x].opened
      BY <1>1, <2>1, Zenon DEF Session
    <3> HIDE DEF e
    <3> QED BY <3>1, OpenedStays, Zenon
  <2> QED BY <1>7, <2>1, FailOpened, Zenon DEF OnSuspend
<1>8. ASSUME OnResumed(x, m) PROVE s["source"].opened => s'["source"].opened
  <2> DEFINE t == Trim(s[x], m.n)
             new == IF s[x].gen = m.gen THEN s[x] ELSE [t EXCEPT !.gen = m.gen]
             cut == Rest(new, m.n) # <<>> /\ ~CanSend(x)
             e == [new EXCEPT !.susp = cut, !.paused = cut \/ (@ /\ ReplayBytes(new) > LowWater)]
  <2>1. t.opened = s[x].opened /\ t = [s[x] EXCEPT !.acked = t.acked, !.replay = t.replay]
    BY <1>1, <1>5, Zenon DEF Trim, Session
  <2>2. CASE s' = [s EXCEPT ![x] = e]
    <3>1. /\ new.opened = s[x].opened
          /\ new = [s[x] EXCEPT !.acked = new.acked, !.replay = new.replay, !.gen = new.gen]
      <4> HIDE DEF t
      <4> QED BY <1>1, <2>1, Zenon DEF Session
    <3>2. e.opened = s[x].opened
      <4> DEFINE c == cut
                 p == cut \/ (new.paused /\ ReplayBytes(new) > LowWater)
      <4>1. e = [new EXCEPT !.susp = c, !.paused = p]
        BY Zenon
      <4> HIDE DEF new, e, c, p
      <4> QED BY <1>1, <3>1, <4>1 DEF Session
    <3> HIDE DEF e
    <3> QED BY <2>2, <3>2, OpenedStays, Zenon
  <2> QED BY <1>8, <2>2, FailOpened, Zenon DEF OnResumed
<1>9. ASSUME OnEnd(x, m) \/ OnError(x, m) PROVE s["source"].opened => s'["source"].opened
  BY <1>9, CloseOpened, FailOpened, Zenon DEF OnEnd, OnError
<1>10. ASSUME Ignore(x) PROVE s["source"].opened => s'["source"].opened
  BY <1>10, Zenon DEF Ignore
<1> QED BY Zenon, <1>2, <1>3, <1>4, <1>6, <1>7, <1>8, <1>9, <1>10 DEF TunnelReceives

\* The steps of the workers keep the quiet.
LEMMA WorkerQuiet ==
    ASSUME IInv, NEW x \in Ends,
           \/ TargetConnects(x) \/ (\E n \in Sizes : ReadSocket(x, n)) \/ SocketEnds(x)
           \/ SocketFails(x) \/ TunnelReceives(x) \/ OpenOutgoing
    PROVE  Quiet'
<1>1. Types /\ s \in [Ends -> Session] /\ s[x] \in Session
  BY Zenon DEF IInv, Types
<1>2. UNCHANGED <<h, world>>
  BY Zenon DEF TargetConnects, ReadSocket, SocketEnds, SocketFails, TunnelReceives, OpenOutgoing
<1>3. s["source"].opened => s'["source"].opened
  <2>1. ASSUME TargetConnects(x) PROVE s["source"].opened => s'["source"].opened
    <3> DEFINE e == [s[x] EXCEPT !.st = "open"]
    <3>1. s' = [s EXCEPT ![x] = e] /\ e.opened = s[x].opened
      BY <1>1, <2>1 DEF TargetConnects, Session
    <3> HIDE DEF e
    <3> QED BY <1>1, <3>1, OpenedStays, Zenon
  <2>2. ASSUME NEW n \in Sizes, ReadSocket(x, n) PROVE s["source"].opened => s'["source"].opened
    <3>1. CASE s' = s
      BY <3>1, Zenon
    <3>2. ASSUME NEW data, SendSocketChunk(x, data)
          PROVE  s["source"].opened => s'["source"].opened
      <4> DEFINE c == [off |-> s[x].send, data |-> data]
                 e == [s[x] EXCEPT !.send = @ + Len(data), !.replay = Append(@, c)]
                 f == IF e.susp \/ ~transportAvailable(x)
                      THEN [e EXCEPT !.paused = @ \/ ReplayBytes(e) >= HighWater]
                      ELSE [e EXCEPT !.susp = ~CanSend(x),
                                     !.paused = @ \/ ReplayBytes(e) >= HighWater \/ ~CanSend(x)]
      <4>1. s' = [s EXCEPT ![x] = f]
        BY <3>2, Zenon DEF SendSocketChunk
      <4>2. e.opened = s[x].opened
            /\ DOMAIN e = {"st", "opened", "gen", "send", "acked", "recv", "replay", "susp", "paused"}
        BY <1>1, Zenon DEF Session
      <4>3. f.opened = e.opened
        <5> HIDE DEF e
        <5>1. "opened" \in DOMAIN e /\ "opened" # "paused" /\ "opened" # "susp"
          BY <4>2
        <5>2. \A p : [e EXCEPT !.paused = p].opened = e.opened
          BY <5>1
        <5>3. \A p, q : [e EXCEPT !.susp = q, !.paused = p].opened = e.opened
          BY <5>1
        <5> QED BY <5>2, <5>3, Zenon
      <4> HIDE DEF f
      <4> QED BY <1>1, <4>1, <4>2, <4>3, OpenedStays, Zenon
    <3> QED BY <1>1, <2>2, <3>1, <3>2, FailOpened, Zenon DEF ReadSocket
  <2>3. ASSUME SocketEnds(x) \/ SocketFails(x) PROVE s["source"].opened => s'["source"].opened
    BY <1>1, <2>3, CloseOpened, FailOpened, Zenon DEF SocketEnds, SocketFails
  <2>4. ASSUME OpenOutgoing PROVE s["source"].opened => s'["source"].opened
    BY <2>4, SourceIsEnd, Zenon DEF OpenOutgoing, IInv, Sessions, Local
  <2> QED BY <1>1, <2>1, <2>2, <2>3, <2>4, TunnelOpened, Zenon
<1>4. h'.susp = h.susp /\ ws' = ws /\ conn' = conn
  BY <1>2, Zenon DEF world
<1> QED BY <1>3, <1>4, QuietKept, Zenon

\* The hub suspends nothing while both workers are within reach.
LEMMA HubQuiet ==
    ASSUME IInv, NEW x \in Ends, HubReceives(x)
    PROVE  Quiet'
<1> DEFINE m == Head(up[x])
<1>1. s' = s /\ ws' = ws /\ up[x] # <<>>
  BY Zenon DEF HubReceives
<1>2. SUFFICES ASSUME Pipes, ~s["source"].opened
               PROVE  ~h'.susp /\ \A y \in Ends : ws'[y] = "up" /\ conn'[y] = "ready"
  BY <1>1, Zenon DEF Quiet
<1>3. ~h.susp /\ \A y \in Ends : ws[y] = "up" /\ conn[y] = "ready"
  BY <1>2, Zenon DEF IInv, Quiet
<1>4. Peer(x) \in Ends /\ Tells(Peer(x), m)
  BY <1>1, PeerFacts, ReceiptFacts, Zenon
<1>5. m.t \notin {"heartbeat", "goodbye", "suspend", "resume", "resumed"}
  BY <1>2, <1>4, Zenon DEF Tells, Recovery
<1>6. conn' = conn
  <2>1. m.t # "heartbeat" /\ m.t # "goodbye"
    BY <1>5, Zenon
  <2> QED BY <2>1, Zenon DEF HubReceives
<1>7. \/ h' = h
      \/ m.t = "open" /\ HubOnOpen(m)
      \/ HubOnOpened(x, m) \/ HubOnData(x, m) \/ HubOnAck(x, m)
      \/ IF m.gen = h.gen THEN TerminateAndForward(Peer(x), m) ELSE Terminate
  <2>1. m.t # "heartbeat" /\ m.t # "goodbye" /\ m.t # "resume"
    BY <1>5, Zenon
  <2> QED BY <2>1, Zenon DEF HubReceives
<1> HIDE DEF m
<1>8. \A st, g : ~HubSession(st, g).susp
  BY Zenon DEF HubSession
<1>9. \A y \in Ends : Reaches(y)
  BY <1>3, Zenon DEF Reaches
<1>10. ~Forward(x, m).susp /\ ~[h EXCEPT !.opened = TRUE].susp
  <2>1. h \in Hub
    BY HubFields, Zenon
  <2> QED BY <1>3, <2>1 DEF Forward, Hub
<1>11. ~Gone.susp
  BY <1>8, Zenon DEF Gone
<1>12. ~h'.susp
  <2>1. ASSUME HubOnOpen(m) PROVE ~h'.susp
    BY <1>3, <1>8, <1>11, <2>1, Zenon DEF HubOnOpen
  <2>2. ASSUME HubOnOpened(x, m) PROVE ~h'.susp
    BY <1>3, <1>10, <1>11, <2>2, Zenon DEF HubOnOpened, Terminate
  <2>3. ASSUME HubOnData(x, m) PROVE ~h'.susp
    BY <1>3, <1>4, <1>9, <1>10, <1>11, <2>3, Zenon DEF HubOnData, Terminate
  <2>4. ASSUME HubOnAck(x, m) PROVE ~h'.susp
    BY <1>3, <1>4, <1>9, <1>11, <2>4, Zenon DEF HubOnAck, Terminate
  <2>5. ASSUME IF m.gen = h.gen THEN TerminateAndForward(Peer(x), m) ELSE Terminate PROVE ~h'.susp
    BY <1>11, <2>5, Zenon DEF TerminateAndForward, Terminate
  <2> QED BY <1>3, <1>7, <2>1, <2>2, <2>3, <2>4, <2>5, Zenon
<1> QED BY <1>1, <1>3, <1>6, <1>12, Zenon

\* No WebSocket fails before the source knows.
LEMMA SocketQuiet ==
    ASSUME IInv, NEW x \in Ends,
           \/ WorkerClosing(x) \/ SendGoodbye(x) \/ WorkerCloses(x) \/ HubClosing(x) \/ HubCloses(x)
           \/ Hello(x) \/ ServerReady(x) \/ RecoveryTimeout
    PROVE  Quiet'
<1>1. s["source"].opened => s'["source"].opened
  <2>1. CASE s' = s
    BY <2>1, Zenon
  <2>2. CASE s' = [s EXCEPT ![x].susp = @ \/ Exists(x), ![x].paused = @ \/ Exists(x)]
    <3> DEFINE e == [s[x] EXCEPT !.susp = @ \/ Exists(x), !.paused = @ \/ Exists(x)]
    <3>1. Types /\ s \in [Ends -> Session] /\ s[x] \in Session
      BY Zenon DEF IInv, Types
    <3>2. s' = [s EXCEPT ![x] = e] /\ e.opened = s[x].opened
      BY <2>2, <3>1, Zenon DEF Session
    <3> HIDE DEF e
    <3> QED BY <3>1, <3>2, OpenedStays, Zenon
  <2> QED BY <2>1, <2>2, Zenon DEF WorkerClosing, SendGoodbye, WorkerCloses, HubClosing, HubCloses,
             Hello, ServerReady, RecoveryTimeout
<1>2. SUFFICES ASSUME Pipes, ~s["source"].opened PROVE FALSE
  BY <1>1, Zenon DEF Quiet
<1>3. ~h.susp /\ ws[x] = "up" /\ conn[x] = "ready"
  BY <1>2, Zenon DEF IInv, Quiet
<1>4. ~Starts(TRUE)
  BY <1>2, Zenon DEF Starts, Pipes
<1>5. /\ (conn[x] \in {"ready", "pending"}) = TRUE /\ (ws[x] = "up") = TRUE
      /\ (ws[x] # "closing" /\ conn[x] \in {"ready", "pending"}) = TRUE
      /\ (conn[x] # "closing" /\ ws[x] \in {"up", "joining"}) = TRUE
      /\ ws[x] # "down" /\ ws[x] # "joining"
  BY <1>3
<1> QED BY Zenon, <1>3, <1>4, <1>5 DEF WorkerClosing, SendGoodbye, WorkerCloses, HubClosing, HubCloses,
           Hello, ServerReady, RecoveryTimeout

-----------------------------------------------------------------------------
(* The theorems *)

LEMMA InitIInv == Init => IInv
<1> SUFFICES ASSUME Init PROVE IInv
  OBVIOUS
<1> DEFINE e == NewSession("none", FALSE, 0, TRUE)
           none == [x \in Ends |-> <<>>]
<1>1. /\ s = [x \in Ends |-> e] /\ h = HubSession("none", 0) /\ faults = Faults
      /\ ws = [x \in Ends |-> "up"] /\ conn = [x \in Ends |-> "ready"]
      /\ up = none /\ down = none
      /\ read = [x \in Ends |-> 0] /\ got = none /\ how = [x \in Ends |-> "running"]
  BY Zenon DEF Init
<1>2. /\ e \in Session /\ e.st = "none" /\ ~e.opened /\ e.send = 0 /\ e.acked = 0 /\ e.recv = 0
      /\ e.replay = <<>>
  BY StreamConstants DEF NewSession, Session, Gens
<1> HIDE DEF e
<1>3. /\ h \in Hub /\ h.st = "none" /\ ~h.susp
      /\ \A x \in Ends : h.fwd[x] = 0 /\ h.reports[x] = NoReport
  <2>1. 0 \in Gens /\ "none" \in {"none", "live", "gone"}
    BY StreamConstants DEF Gens
  <2>2. PICK st \in {"none", "live", "gone"} : st = "none"
    BY Zenon
  <2>3. h = HubSession(st, 0)
    BY <1>1, <2>2, Zenon
  <2>4. PICK k : k = h
    BY Zenon
  <2>5. k \in Hub /\ k.st = st /\ ~k.susp /\ \A x \in Ends : k.fwd[x] = 0 /\ k.reports[x] = NoReport
    <3>1. k = HubSession(st, 0)
      BY <2>3, <2>4, Zenon
    <3> QED BY <2>1, <3>1, NewHub
  <2> QED BY <2>2, <2>4, <2>5, Zenon
<1>4. \A x \in Ends : /\ s[x] = e /\ up[x] = <<>> /\ down[x] = <<>> /\ read[x] = 0
                      /\ got[x] = <<>> /\ how[x] = "running" /\ ws[x] = "up" /\ conn[x] = "ready"
  BY <1>1, Zenon
<1>5. Types
  <2>1. s \in [Ends -> Session] /\ ws \in [Ends -> {"up", "closing", "down", "joining"}]
        /\ conn \in [Ends -> {"pending", "ready", "closing", "down"}]
        /\ how \in [Ends -> {"running", "end", "ended", "error"}] /\ read \in [Ends -> Nat]
    BY <1>1, <1>2
  <2>2. <<>> \in Seq(Message) /\ <<>> \in Seq(Nat)
    OBVIOUS
  <2>3. up \in [Ends -> Seq(Message)] /\ down \in [Ends -> Seq(Message)] /\ got \in [Ends -> Seq(Nat)]
    BY <1>1, <2>2, Zenon
  <2>4. faults \in 0..Faults
    BY <1>1, StreamConstants
  <2> QED BY <1>3, <2>1, <2>3, <2>4, Zenon DEF Types
<1>6. In(<<>>) = {} /\ Once(<<>>) /\ ~Opens(<<>>) /\ Len(<<>>) = 0
  BY DEF In, Once, Opens
<1>7. OpenedOnce
  BY <1>2, <1>3, <1>4, <1>6, SourceIsEnd, Zenon DEF OpenedOnce
<1>8. Sessions
  <2>1. ASSUME NEW x \in Ends PROVE Local(x)
    <3>1. Peer(x) \in Ends /\ MaxBytes[x] \in Nat
      BY PeerFacts, StreamConstants, Zenon
    <3>2. Len(got[x]) <= read[Peer(x)] /\ read[x] <= MaxBytes[x]
      <4>1. Len(got[x]) = 0 /\ read[Peer(x)] = 0 /\ read[x] = 0
        BY <1>4, <1>6, <3>1, Zenon
      <4> QED BY <3>1, <4>1
    <3>3. ~Exists(x) /\ Blank(s[x])
      BY <1>2, <1>4 DEF Exists, Blank
    <3> QED BY <1>2, <1>4, <3>2, <3>3, Zenon DEF Local
  <2> QED BY <2>1, Zenon DEF Sessions
<1>9. Underway
  BY <1>4, <1>6, Zenon DEF Underway
<1>10. Relay
  <2>1. \A x \in Ends : h.fwd[x] <= read[x]
    BY <1>3, <1>4
  <2> QED BY <1>3, <2>1, Zenon DEF Relay
<1>11. Quiet
  BY <1>3, <1>4, Zenon DEF Quiet
<1> QED BY <1>5, <1>7, <1>8, <1>9, <1>10, <1>11, Zenon DEF IInv

LEMMA NextIInv == IInv /\ [Next]_vars => IInv'
<1> SUFFICES ASSUME IInv, [Next]_vars PROVE IInv'
  OBVIOUS
<1>1. CASE UNCHANGED vars
  <2>1. UNCHANGED <<s, h, ws, conn, up, down, faults, read, got, how>>
    BY <1>1, Zenon DEF vars
  <2>2. Types' /\ OpenedOnce' /\ Relay' /\ Quiet'
    BY <2>1, Zenon DEF IInv, Types, OpenedOnce, Relay, Quiet
  <2>3. Sessions'
    BY <2>1, Zenon DEF IInv, Sessions, Local, Live, Agrees, Exists
  <2>4. \A x \in Ends : \A m \in Told(x) : m \in Told(x)'
    BY <2>1, ToldSame, Zenon
  <2>5. Underway'
    BY <2>1, <2>4, PeerFacts, Zenon DEF IInv, Underway
  <2> QED BY <2>2, <2>3, <2>5, Zenon DEF IInv
<1>2. ASSUME OpenOutgoing PROVE IInv'
  BY <1>2, WorkerSteps, WorkerQuiet, SourceIsEnd, Zenon DEF IInv, Kept
<1>3. ASSUME RecoveryTimeout PROVE IInv'
  BY <1>3, HubSteps, SocketQuiet, SourceIsEnd, Zenon DEF IInv, Kept
<1>4. ASSUME NEW x \in Ends, Step(x) PROVE IInv'
  <2>1. CASE \/ TargetConnects(x) \/ (\E n \in Sizes : ReadSocket(x, n)) \/ SocketEnds(x)
             \/ SocketFails(x) \/ TunnelReceives(x)
    <3>1. Quiet' /\ Kept
      BY <2>1, WorkerQuiet, WorkerSteps, Zenon
    <3> QED BY <3>1, Zenon DEF IInv, Kept
  <2>2. CASE HubReceives(x)
    <3>1. Quiet' /\ Kept
      BY <2>2, HubQuiet, HubSteps, Zenon
    <3> QED BY <3>1, Zenon DEF IInv, Kept
  <2>3. CASE \/ WorkerClosing(x) \/ SendGoodbye(x) \/ WorkerCloses(x) \/ HubClosing(x)
             \/ HubCloses(x) \/ Hello(x) \/ ServerReady(x)
    <3>1. Quiet' /\ Kept
      BY <2>3, SocketQuiet, WorkerSteps, HubSteps, Zenon
    <3> QED BY <3>1, Zenon DEF IInv, Kept
  <2> QED BY <1>4, <2>1, <2>2, <2>3, Zenon DEF Step
<1> QED BY <1>1, <1>2, <1>3, <1>4, Zenon DEF Next

\* The inductive invariant: what the sessions, the channels and the hub say of
\* the two processes, and of each other, is so in every reachable state.
THEOREM StreamInvariant == Spec => []IInv
<1>1. Init => IInv
  BY InitIInv
<1>2. IInv /\ [Next]_vars => IInv'
  BY NextIInv
<1> QED BY <1>1, <1>2, PTL DEF Spec

\* Every variable keeps its shape, the offsets of a session are ordered and its
\* replay buffer never exceeds its limit (sendSocketChunk).
THEOREM StreamTypes == Spec => []TypeOK
<1>1. IInv => TypeOK
  <2> SUFFICES ASSUME IInv PROVE TypeOK
    OBVIOUS
  <2>1. Types /\ Relay /\ h \in Hub /\ h.st \in {"none", "live", "gone"} /\ h.gen \in Gens
        /\ h.opened \in BOOLEAN /\ h.susp \in BOOLEAN /\ h.fwd \in [Ends -> Nat]
    BY HubFields, Zenon DEF IInv
  <2>2. ASSUME NEW x \in Ends
        PROVE  /\ s[x].st \in {"none", "connecting", "open", "closed"}
               /\ s[x].gen \in 0..MaxGeneration
               /\ {s[x].opened, s[x].susp, s[x].paused} \subseteq BOOLEAN
               /\ 0 <= s[x].acked /\ s[x].acked <= s[x].send /\ s[x].send <= MaxBytes[x]
               /\ s[x].recv \in 0..MaxBytes[Peer(x)]
               /\ ReplayBytes(s[x]) <= MaxReplay
    <3>1. s[x] \in Session /\ Local(x) /\ Peer(x) \in Ends /\ Local(Peer(x))
      BY LiveFacts, PeerFacts, Zenon
    <3>2. /\ s[x].st \in {"none", "connecting", "open", "closed"} /\ s[x].gen \in 0..MaxGeneration
          /\ s[x].opened \in BOOLEAN /\ s[x].susp \in BOOLEAN /\ s[x].paused \in BOOLEAN
          /\ s[x].send \in Nat /\ s[x].acked \in Nat /\ s[x].recv \in Nat
      BY <3>1, SessionFields, Zenon DEF Gens
    <3>3. /\ read[x] \in Nat /\ read[Peer(x)] \in Nat /\ Len(got[x]) \in Nat
          /\ MaxBytes[x] \in Nat /\ MaxBytes[Peer(x)] \in Nat /\ MaxReplay \in Nat
          /\ read[x] <= MaxBytes[x] /\ read[Peer(x)] <= MaxBytes[Peer(x)]
          /\ Len(got[x]) <= read[Peer(x)]
      BY <2>1, <3>1, TypesFacts, StreamConstants, Zenon DEF Local
    <3>4. CASE Exists(x)
      <4>1. Buffer(s[x]) /\ s[x].send <= read[x] /\ s[x].recv = Len(got[x])
        BY <3>1, <3>4, Zenon DEF Local, Live, Agrees
      <4>2. ReplayBytes(s[x]) = s[x].send - s[x].acked
        BY <3>1, <4>1, BufferFacts, Zenon
      <4>3. s[x].acked <= s[x].send /\ s[x].send - s[x].acked <= MaxReplay
        BY <4>1, Zenon DEF Buffer
      <4>4. /\ \A a, b, c \in Nat : a <= b /\ b <= c => a <= c
            /\ \A a, b \in Nat : a <= b => 0 <= a /\ a \in 0..b
        OBVIOUS
      <4>5. 0 <= s[x].acked /\ s[x].send <= MaxBytes[x] /\ s[x].recv \in 0..MaxBytes[Peer(x)]
        <5>1. s[x].recv <= read[Peer(x)]
          BY <3>3, <4>1, Zenon
        <5>2. s[x].recv <= MaxBytes[Peer(x)]
          BY <3>2, <3>3, <4>4, <5>1, Zenon
        <5>3. s[x].send <= MaxBytes[x]
          BY <3>2, <3>3, <4>1, <4>4, Zenon
        <5> QED BY <3>2, <3>3, <4>3, <4>4, <5>2, <5>3, Zenon
      <4>6. {s[x].opened, s[x].susp, s[x].paused} \subseteq BOOLEAN
        BY <3>2, Zenon
      <4>7. ReplayBytes(s[x]) <= MaxReplay
        BY <4>2, <4>3, Zenon
      <4> QED BY <3>2, <4>3, <4>5, <4>6, <4>7, Zenon
    <3>5. CASE ~Exists(x)
      <4>1. s[x].send = 0 /\ s[x].acked = 0 /\ s[x].recv = 0 /\ s[x].replay = <<>>
        BY <3>1, <3>5, Zenon DEF Local, Blank
      <4>2. ReplayBytes(s[x]) = 0
        BY <4>1, Zenon DEF ReplayBytes
      <4> QED BY <3>2, <3>3, <4>1, <4>2
    <3> QED BY <3>4, <3>5, Zenon
  <2>3. ASSUME NEW x \in Ends
        PROVE  /\ ws[x] \in {"up", "closing", "down", "joining"}
               /\ conn[x] \in {"pending", "ready", "closing", "down"}
               /\ h.fwd[x] \in 0..MaxBytes[x]
    <3>1. ws[x] \in {"up", "closing", "down", "joining"}
          /\ conn[x] \in {"pending", "ready", "closing", "down"}
      BY <2>1, Zenon DEF Types
    <3>2. /\ h.fwd[x] \in Nat /\ read[x] \in Nat /\ MaxBytes[x] \in Nat
          /\ h.fwd[x] <= read[x] /\ read[x] <= MaxBytes[x]
      BY <2>1, TypesFacts, LiveFacts, StreamConstants, Zenon DEF Relay, Local
    <3>3. h.fwd[x] \in 0..MaxBytes[x]
      BY <3>2
    <3> QED BY <3>1, <3>3, Zenon
  <2>4. faults \in 0..Faults /\ {h.opened, h.susp} \subseteq BOOLEAN
    BY <2>1, Zenon DEF Types
  <2> QED BY <2>1, <2>2, <2>3, <2>4, Zenon DEF TypeOK, Gens
<1> QED BY <1>1, StreamInvariant, PTL

\* The replay buffer holds exactly what was read and not acknowledged, and only
\* what the other process has is acknowledged, whatever is lost and replayed.
THEOREM StreamReplay == Spec => []ReplayIsExact
<1>1. IInv => ReplayIsExact
  <2> SUFFICES ASSUME IInv, NEW x \in Ends, Exists(x)
               PROVE  LET r == s[x].replay IN
                      /\ s[x].acked <= Len(got[Peer(x)])
                      /\ BufferedFrom(s[x]) = s[x].acked
                      /\ r = <<>> => s[x].acked = s[x].send
                      /\ \A i \in DOMAIN r :
                           ChunkEnd(r[i]) = IF i = Len(r) THEN s[x].send ELSE r[i + 1].off
    BY Zenon DEF ReplayIsExact
  <2> DEFINE r == s[x].replay
  <2>1. s[x] \in Session /\ Buffer(s[x]) /\ s[x].acked <= Len(got[Peer(x)])
    BY LiveFacts, Zenon DEF Live, Agrees
  <2>2. BufferedFrom(s[x]) = s[x].acked
    BY <2>1, BufferFacts, Zenon
  <2>3. DOMAIN r = 1..Len(r) /\ Len(r) \in Nat
    BY <2>1, SessionFields, Zenon
  <2>4. /\ Len(r) = 0 => s[x].acked = s[x].send
        /\ Len(r) > 0 => ChunkEnd(r[Len(r)]) = s[x].send
        /\ \A i \in 1..Len(r) - 1 : ChunkEnd(r[i]) = r[i + 1].off
    BY <2>1, Zenon DEF Buffer
  <2>5. r = <<>> => s[x].acked = s[x].send
    <3>1. Len(<<>>) = 0
      OBVIOUS
    <3> QED BY <2>4, <3>1, Zenon
  <2> HIDE DEF r
  <2>6. ASSUME NEW i \in 1..Len(r)
        PROVE  ChunkEnd(r[i]) = IF i = Len(r) THEN s[x].send ELSE r[i + 1].off
    <3>0. \A k \in Nat : \A j \in 1..k : k > 0 /\ (j # k => j \in 1..k - 1)
      OBVIOUS
    <3>1. Len(r) > 0 /\ (i # Len(r) => i \in 1..Len(r) - 1)
      BY <2>3, <3>0, Zenon
    <3> QED BY <2>4, <3>1, Zenon
  <2> QED BY <2>1, <2>2, <2>3, <2>5, <2>6, Zenon DEF r
<1> QED BY <1>1, StreamInvariant, PTL

-----------------------------------------------------------------------------
(* The two processes see a pipe *)

LEMMA PipeNames ==
    Pipe!Ends = Ends /\ \A x : Pipe!Peer(x) = Peer(x)
BY DEF Pipe!Ends, Ends, Pipe!Peer, Peer

\* closeSession closes one side of the pipe.
LEMMA CloseIsPipe ==
    ASSUME IInv, NEW x \in Ends, NEW w \in {"end", "ended", "error"}, NEW ms, Exists(x),
           CloseSession(x, w, ms), w = "ended" => how[Peer(x)] = "end" /\ Len(got[x]) = read[Peer(x)],
           UNCHANGED <<read, got>>
    PROVE  Pipe!Next
<1>1. how[x] = "running"
  BY LiveFacts, Zenon
<1>2. how' = [how EXCEPT ![x] = w]
  BY Zenon DEF CloseSession
<1>3. Pipe!Close(x, w)
  BY <1>1, <1>2, PipeNames, Zenon DEF Pipe!Close, Pipe!Complete
<1> QED BY <1>3, PipeNames, Zenon DEF Pipe!Next

LEMMA FailIsPipe ==
    ASSUME IInv, NEW x \in Ends, Exists(x), Fail(x), UNCHANGED <<read, got>>
    PROVE  Pipe!Next
<1>1. "error" \in {"end", "ended", "error"} /\ "error" # "ended"
  OBVIOUS
<1> QED BY <1>1, CloseIsPipe, Zenon DEF Fail

\* A piece that is read: it is not dropped.
LEMMA ReadIsPipe ==
    ASSUME IInv, Pipes, NEW x \in Ends, NEW n \in Sizes, ReadSocket(x, n)
    PROVE  Pipe!Next
<1>1. s[x].st = "open" /\ ~s[x].paused /\ read[x] + n <= MaxBytes[x] /\ got' = got
  BY Zenon DEF ReadSocket
<1>2. Exists(x)
  BY <1>1 DEF Exists
<1>3. s[x].opened /\ how[x] = "running"
  BY <1>1, <1>2, LiveFacts, Zenon DEF Live
<1>4. CASE read' = [read EXCEPT ![x] = @ + n] /\ how' = how
  <2>1. Pipe!Read(x, n)
    BY <1>1, <1>3, <1>4, Zenon DEF Pipe!Read
  <2> QED BY <2>1, PipeNames, Zenon DEF Pipe!Next
<1>5. CASE Fail(x) /\ read' = read
  BY <1>1, <1>2, <1>5, FailIsPipe, Zenon
<1> QED BY <1>3, <1>4, <1>5, Zenon DEF ReadSocket

\* A piece that is received: it is what comes next.
LEMMA DataIsPipe ==
    ASSUME IInv, Pipes, NEW x \in Ends, Receipt(x), Exists(x), Head(down[x]).t = "data",
           OnData(x, Head(down[x]))
    PROVE  Pipe!Next \/ UNCHANGED <<read, got, how>>
<1> DEFINE m == Head(down[x])
<1>1. m \in Message /\ Tells(x, m) /\ read' = read
  BY ReceiptKeeps, Zenon
<1>2. CASE UNCHANGED <<how, got>>
  BY <1>1, <1>2, Zenon
<1>3. CASE Fail(x) /\ got' = got
  BY <1>1, <1>3, FailIsPipe, Zenon
<1>4. CASE m.off = s[x].recv /\ got' = [got EXCEPT ![x] = @ \o m.data] /\ how' = how
  <2> DEFINE n == Len(m.data)
  <2>1. how[x] = "running" /\ s[x].recv = Len(got[x])
    BY LiveFacts, Zenon DEF Live, Agrees
  <2>2. n \in Sizes /\ ChunkEnd(m) <= read[Peer(x)] /\ m.data = Pipe!Bytes(m.off, n)
    BY <1>1, Zenon DEF Tells, Genuine
  <2>3. ChunkEnd(m) = m.off + n
    BY Zenon DEF ChunkEnd
  <2>4. Len(got[x]) + n <= read[Peer(x)] /\ m.data = Pipe!Bytes(Len(got[x]), n)
    BY <1>4, <2>1, <2>2, <2>3, Zenon
  <2> HIDE DEF n
  <2>5. got' = [got EXCEPT ![x] = @ \o Pipe!Bytes(Len(@), n)]
    BY <1>4, <2>4, Zenon
  <2>6. Pipe!Deliver(x, n)
    BY <1>1, <1>4, <2>1, <2>4, <2>5, PipeNames, Zenon DEF Pipe!Deliver
  <2> QED BY <2>2, <2>6, PipeNames, Zenon DEF Pipe!Next
<1> QED BY <1>2, <1>3, <1>4, Zenon DEF OnData, Ignore, Continues

LEMMA ReceiveIsPipe ==
    ASSUME IInv, Pipes, NEW x \in Ends, TunnelReceives(x)
    PROVE  Pipe!Next \/ UNCHANGED <<read, got, how>>
<1> DEFINE m == Head(down[x])
<1>1. Receipt(x) /\ read' = read
  BY Zenon DEF TunnelReceives, Receipt
<1>2. m \in Message /\ Tells(x, m)
  BY <1>1, ReceiptKeeps, Zenon
<1>3. CASE Exists(x) /\ m.t = "data" /\ OnData(x, m)
  BY <1>1, <1>3, DataIsPipe, Zenon
<1>4. CASE UNCHANGED <<how, got>>
  BY <1>1, <1>4, Zenon
<1>5. CASE Exists(x) /\ Fail(x) /\ got' = got
  BY <1>1, <1>5, FailIsPipe, Zenon
<1>6. CASE Exists(x) /\ got' = got /\ m.t = "end" /\ OnEnd(x, m)
  <2>1. how[Peer(x)] = "end" /\ m.n = read[Peer(x)]
    BY <1>2, <1>6, Zenon DEF Tells
  <2>2. s[x].recv = Len(got[x])
    BY <1>6, LiveFacts, Zenon DEF Live, Agrees
  <2>3. ASSUME m.n = s[x].recv, CloseSession(x, "ended", <<>>) PROVE Pipe!Next
    <3>1. "ended" \in {"end", "ended", "error"} /\ UNCHANGED <<read, got>>
      BY <1>1, <1>6
    <3>2. Len(got[x]) = read[Peer(x)]
      BY <2>1, <2>2, <2>3, Zenon
    <3> QED BY <1>6, <2>1, <2>3, <3>1, <3>2, CloseIsPipe, Zenon
  <2> QED BY <1>5, <1>6, <2>3, Zenon DEF OnEnd
<1>7. CASE Exists(x) /\ got' = got /\ OnError(x, m)
  <2>1. "error" \in {"end", "ended", "error"} /\ "error" # "ended" /\ UNCHANGED <<read, got>>
    BY <1>1, <1>7
  <2> QED BY <1>7, <2>1, CloseIsPipe, Zenon DEF OnError
<1> QED BY Zenon, <1>3, <1>4, <1>5, <1>6, <1>7 DEF TunnelReceives, OnOpen, Ignore, OnOpened, OnAck,
           OnSuspend, OnResumed

\* A stream is a pipe: the two processes see what BytePipe allows, if no
\* WebSocket fails before the source knows that the stream is open.
THEOREM StreamIsPipe == ASSUME ~LossWhileOpening PROVE Spec => IsPipe
<1>0. Pipes
  BY Zenon DEF Pipes
<1>1. Init => Pipe!Init
  BY PipeNames, Zenon DEF Init, Pipe!Init
<1>2. IInv /\ [Next]_vars => [Pipe!Next]_Pipe!vars
  <2> SUFFICES ASSUME IInv, [Next]_vars PROVE Pipe!Next \/ UNCHANGED <<read, got, how>>
    BY Zenon DEF Pipe!vars
  <2>1. CASE UNCHANGED vars
    BY <2>1, Zenon DEF vars
  <2>2. CASE OpenOutgoing \/ RecoveryTimeout
    BY <2>2, Zenon DEF OpenOutgoing, RecoveryTimeout
  <2>3. ASSUME NEW x \in Ends, Step(x) PROVE Pipe!Next \/ UNCHANGED <<read, got, how>>
    <3>1. CASE \E n \in Sizes : ReadSocket(x, n)
      BY <1>0, <3>1, ReadIsPipe, Zenon
    <3>2. CASE TunnelReceives(x)
      BY <1>0, <3>2, ReceiveIsPipe, Zenon
    <3>3. CASE SocketEnds(x)
      <4>1. "end" \in {"end", "ended", "error"} /\ "end" # "ended"
        OBVIOUS
      <4> QED BY <3>3, <4>1, CloseIsPipe, Zenon DEF SocketEnds
    <3>4. CASE SocketFails(x)
      BY <3>4, FailIsPipe, Zenon DEF SocketFails
    <3>5. CASE TargetConnects(x) \/ HubReceives(x) \/ Hello(x) \/ ServerReady(x)
      BY <3>5, Zenon DEF TargetConnects, HubReceives, Hello, ServerReady
    <3>6. CASE WorkerClosing(x) \/ SendGoodbye(x) \/ WorkerCloses(x) \/ HubClosing(x) \/ HubCloses(x)
      BY <3>6, Zenon DEF WorkerClosing, SendGoodbye, WorkerCloses, HubClosing, HubCloses
    <3> QED BY Zenon, <2>3, <3>1, <3>2, <3>3, <3>4, <3>5, <3>6 DEF Step
  <2> QED BY <2>1, <2>2, <2>3, Zenon DEF Next
<1> QED BY <1>1, <1>2, StreamInvariant, PTL DEF Spec, IsPipe, Pipe!Spec

=============================================================================
