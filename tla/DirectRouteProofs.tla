------------------------- MODULE DirectRouteProofs -------------------------
(***************************************************************************)
(* Proofs about DirectRoute, for any number of bytes and broken            *)
(* WebSockets: types, the order of the two releases, that a stream the     *)
(* relay serves is never released to its direct route, and that the target *)
(* is given the bytes in order.                                            *)
(***************************************************************************)
EXTENDS DirectRoute, WellFoundedInduction, TLAPS

\* A message of kind t is on its way in q.
Has(q, t) == \E i \in DOMAIN q : q[i].t = t

Released == dst \in {"committed", "closed"}
Relaying == mode \in {"relay", "suspended", "ended"}

\* The source is released by a message that follows the destination's answer.
Order ==
  /\ rec = "committed" => Released
  /\ Has(down["source"], "commit") => Released
  /\ Has(up["destination"], "committed") => Released

\* Only a hub that relays makes a session relay, and only one that is direct
\* releases the source.
Exclusion ==
  /\ ses = "relay" => Relaying
  /\ Has(down["source"], "opened") => Relaying
  /\ Has(up["source"], "data") => Relaying
  /\ Has(down["source"], "commit") \/ rec = "committed" => mode \in {"direct", "ended"}
  /\ Has(down["source"], "commit") => ses # "relay" /\ ~Has(down["source"], "opened")
  /\ rec = "committed" => ses \in {"direct", "closed"}
  /\ direct = "committed" <=> mode = "direct"

IInv == TypeOK /\ Order /\ Exclusion

Queues == [Ends -> Seq(Messages)]

\* What the hub knows of a recovery outlives the step, but for the reports.
Kept == opened' = opened /\ gen' = gen /\ reports' \in {reports, {}}

Controls ==
  {"open", "offer", "ready", "connect", "established", "commit", "committed",
   "fallback", "cancel", "closed", "opened", "end", "error", "suspend", "resume"}

-----------------------------------------------------------------------------
(* Queues: what a step adds to them and what it takes.                     *)

LEMMA ControlsAre ==
  /\ "open" \in Controls /\ "offer" \in Controls /\ "connect" \in Controls
  /\ "commit" \in Controls /\ "opened" \in Controls /\ "end" \in Controls
  /\ "error" \in Controls
BY Zenon DEF Controls

\* The control messages of the protocol are messages.
LEMMA MsgType ==
  ASSUME NEW t \in Controls
  PROVE  Msg(t) \in Messages /\ Msg(t).t = t
BY Zenon DEF Msg, Messages, Controls

LEMMA NoteType ==
  ASSUME NEW t \in Controls, NEW g \in Nat
  PROVE  Note(t, g) \in Messages /\ Note(t, g).t = t
BY Zenon DEF Note, Messages, Controls

\* A resumption is of a new generation.
LEMMA ResumedType ==
  ASSUME NEW g \in Nat
  PROVE  g + 1 \in Nat /\ Note("resumed", g + 1) \in Messages /\ Note("resumed", g + 1).t = "resumed"
<1>1. g + 1 \in Nat /\ g + 1 \in Nat \ {0}
  OBVIOUS
<1> QED BY Zenon, <1>1 DEF Note, Messages

LEMMA ResumedIsNew ==
  ASSUME NEW m \in Messages, m.t = "resumed"
  PROVE  m.n # 0
BY DEF Messages

LEMMA GenTypes ==
  ASSUME TypeOK
  PROVE  gen \in Nat /\ sgen \in Nat /\ dgen \in Nat
BY Zenon DEF TypeOK

\* Appending adds only the message that is appended.
LEMMA AppendHas ==
  ASSUME NEW q \in Seq(Messages), NEW m \in Messages
  PROVE  /\ Append(q, m) \in Seq(Messages)
         /\ \A t : Has(Append(q, m), t) => Has(q, t) \/ m.t = t
BY DEF Has

\* The rest of a queue holds nothing new.
LEMMA TailHas ==
  ASSUME NEW q \in Seq(Messages), q # <<>>
  PROVE  /\ Tail(q) \in Seq(Messages) /\ Head(q) \in Messages
         /\ Has(q, Head(q).t)
         /\ \A t : Has(Tail(q), t) => Has(q, t)
<1>1. Tail(q) \in Seq(Messages) /\ Head(q) \in Messages /\ Len(q) > 0
  OBVIOUS
<1>2. Has(q, Head(q).t)
  BY <1>1 DEF Has
<1>3. \A t : Has(Tail(q), t) => Has(q, t)
  <2> SUFFICES ASSUME NEW t, NEW i \in DOMAIN Tail(q), Tail(q)[i].t = t PROVE Has(q, t)
    BY Zenon DEF Has
  <2>1. i + 1 \in DOMAIN q /\ q[i + 1] = Tail(q)[i]
    BY <1>1
  <2> QED BY Zenon, <2>1 DEF Has
<1> QED BY Zenon, <1>1, <1>2, <1>3

\* A concatenation holds what its parts hold.
LEMMA ConcatHas ==
  ASSUME NEW q \in Seq(Messages), NEW r \in Seq(Messages)
  PROVE  /\ q \o r \in Seq(Messages)
         /\ \A t : Has(q \o r, t) => Has(q, t) \/ Has(r, t)
<1>1. \A t : Has(q \o r, t) => Has(q, t) \/ Has(r, t)
  <2> SUFFICES ASSUME NEW t, NEW i \in DOMAIN (q \o r), (q \o r)[i].t = t
               PROVE  Has(q, t) \/ Has(r, t)
    BY Zenon DEF Has
  <2>1. CASE i <= Len(q)
    BY <2>1 DEF Has
  <2>2. CASE i > Len(q)
    <3>1. i - Len(q) \in DOMAIN r /\ r[i - Len(q)] = (q \o r)[i]
      BY <2>2
    <3> QED BY Zenon, <3>1 DEF Has
  <2> QED BY <2>1, <2>2
<1> QED BY <1>1

\* A prefix holds nothing new.
LEMMA PrefixHas ==
  ASSUME NEW q \in Seq(Messages), NEW p \in Prefixes(q)
  PROVE  /\ p \in Seq(Messages)
         /\ \A t : Has(p, t) => Has(q, t)
<1>1. PICK k \in 0..Len(q) : p = SubSeq(q, 1, k)
  BY Zenon DEF Prefixes
<1>2. p \in Seq(Messages) /\ DOMAIN p = 1..k /\ \A i \in 1..k : p[i] = q[i] /\ i \in DOMAIN q
  BY <1>1
<1> QED BY Zenon, <1>2 DEF Has

\* What the hub sends is in the queue it was sent to.
LEMMA QueueHas ==
  ASSUME NEW d \in Queues, NEW x \in Ends, NEW m \in Messages
  PROVE  /\ Queue(d, x, m) \in Queues
         /\ \A y \in Ends : \A t : Has(Queue(d, x, m)[y], t) => Has(d[y], t) \/ (y = x /\ m.t = t)
<1>1. CASE conn[x] = "up"
  <2>1. Append(d[x], m) \in Seq(Messages)
        /\ \A t : Has(Append(d[x], m), t) => Has(d[x], t) \/ m.t = t
    BY Zenon, AppendHas DEF Queues
  <2> DEFINE e == [d EXCEPT ![x] = Append(@, m)]
  <2>2. e \in Queues /\ e[x] = Append(d[x], m) /\ \A y \in Ends : y # x => e[y] = d[y]
    BY Zenon, <2>1 DEF Queues
  <2>3. Queue(d, x, m) = e
    BY Zenon, <1>1 DEF Queue
  <2> HIDE DEF e
  <2> QED BY <2>1, <2>2, <2>3, Zenon
<1>2. CASE conn[x] # "up"
  BY Zenon, <1>2 DEF Queue
<1> QED BY Zenon, <1>1, <1>2

\* The same for one control message.
LEMMA SentHas ==
  ASSUME NEW d \in Queues, NEW x \in Ends,
         NEW m \in Controls
  PROVE  /\ Queue(d, x, Msg(m)) \in Queues
         /\ \A y \in Ends : \A t : Has(Queue(d, x, Msg(m))[y], t) => Has(d[y], t) \/ (y = x /\ t = m)
<1>1. Msg(m) \in Messages /\ Msg(m).t = m
  BY Zenon, MsgType
<1> DEFINE n == Msg(m)
<1> HIDE DEF n
<1>2. n \in Messages /\ n.t = m
  BY Zenon, <1>1 DEF n
<1>3. /\ Queue(d, x, n) \in Queues
      /\ \A y \in Ends : \A t : Has(Queue(d, x, n)[y], t) => Has(d[y], t) \/ (y = x /\ n.t = t)
  BY Zenon, <1>2, QueueHas
<1> QED BY Zenon, <1>2, <1>3 DEF n

\* The same for a message to both workers.
LEMMA BothHas ==
  ASSUME NEW d \in Queues, NEW m \in Messages
  PROVE  /\ Both(d, m) \in Queues
         /\ \A y \in Ends : \A t : Has(Both(d, m)[y], t) => Has(d[y], t) \/ m.t = t
<1> DEFINE c == Queue(d, "source", m)
<1>1. c \in Queues /\ \A y \in Ends : \A t : Has(c[y], t) => Has(d[y], t) \/ m.t = t
  BY QueueHas, Zenon DEF Ends
<1> HIDE DEF c
<1>2. /\ Queue(c, "destination", m) \in Queues
      /\ \A y \in Ends : \A t : Has(Queue(c, "destination", m)[y], t) => Has(c[y], t) \/ m.t = t
  BY <1>1, QueueHas, Zenon DEF Ends
<1>3. Both(d, m) = Queue(c, "destination", m)
  BY Zenon DEF Both, c
<1> QED BY <1>1, <1>2, <1>3, Zenon

\* What a worker sends is in its queue or lost.
LEMMA PostHas ==
  ASSUME up \in Queues, NEW x \in Ends, NEW ms \in Seq(Messages), Post(x, ms)
  PROVE  /\ up' \in Queues
         /\ \A y \in Ends : \A t : Has(up'[y], t) => Has(up[y], t) \/ (y = x /\ Has(ms, t))
<1>1. CASE ws[x] = "up"
  <2>1. up[x] \o ms \in Seq(Messages) /\ \A t : Has(up[x] \o ms, t) => Has(up[x], t) \/ Has(ms, t)
    BY Zenon, ConcatHas DEF Queues
  <2>2. up' \in Queues /\ up'[x] = up[x] \o ms /\ \A y \in Ends : y # x => up'[y] = up[y]
    BY Zenon, <1>1, <2>1 DEF Post, Queues
  <2> QED BY <2>1, <2>2, Zenon
<1>2. CASE ws[x] # "up"
  BY Zenon, <1>2 DEF Post
<1> QED BY Zenon, <1>1, <1>2

\* Taking a message leaves nothing new, and it was there.
LEMMA FromWorkerHas ==
  ASSUME up \in Queues, NEW x \in Ends, NEW t, FromWorker(x, t)
  PROVE  /\ up' \in Queues /\ Has(up[x], t)
         /\ Head(up[x]) \in Messages /\ Head(up[x]).t = t
         /\ \A y \in Ends : \A u : Has(up'[y], u) => Has(up[y], u)
<1>1. up[x] \in Seq(Messages) /\ up[x] # <<>> /\ Head(up[x]).t = t
  BY Zenon DEF FromWorker, Queues
<1>2. /\ Tail(up[x]) \in Seq(Messages) /\ Head(up[x]) \in Messages /\ Has(up[x], Head(up[x]).t)
      /\ \A u : Has(Tail(up[x]), u) => Has(up[x], u)
  BY Zenon, <1>1, TailHas
<1>3. up' \in Queues /\ up'[x] = Tail(up[x]) /\ \A y \in Ends : y # x => up'[y] = up[y]
  BY Zenon, <1>2 DEF FromWorker, Queues
<1> QED BY <1>1, <1>2, <1>3, Zenon

\* The same for what the hub sent.
LEMMA FromHubHas ==
  ASSUME down \in Queues, NEW x \in Ends, NEW t, FromHub(x, t)
  PROVE  /\ down' \in Queues /\ Has(down[x], t)
         /\ Head(down[x]) \in Messages /\ Head(down[x]).t = t
         /\ \A y \in Ends : \A u : Has(down'[y], u) => Has(down[y], u)
<1>1. down[x] \in Seq(Messages) /\ down[x] # <<>> /\ Head(down[x]).t = t
  BY Zenon DEF FromHub, Queues
<1>2. /\ Tail(down[x]) \in Seq(Messages) /\ Head(down[x]) \in Messages
      /\ Has(down[x], Head(down[x]).t)
      /\ \A u : Has(Tail(down[x]), u) => Has(down[x], u)
  BY Zenon, <1>1, TailHas
<1>3. down' \in Queues /\ down'[x] = Tail(down[x]) /\ \A y \in Ends : y # x => down'[y] = down[y]
  BY Zenon, <1>2 DEF FromHub, Queues
<1> QED BY <1>1, <1>2, <1>3, Zenon

\* One message, and none.
LEMMA SingleHas ==
  ASSUME NEW m \in Messages
  PROVE  /\ <<m>> \in Seq(Messages) /\ <<>> \in Seq(Messages)
         /\ \A t : (Has(<<m>>, t) => m.t = t) /\ ~Has(<<>>, t)
BY DEF Has

\* The messages of a one-message notice.
LEMMA NoticeHas ==
  ASSUME NEW m \in Controls
  PROVE  /\ <<Msg(m)>> \in Seq(Messages) /\ <<>> \in Seq(Messages)
         /\ \A t : (Has(<<Msg(m)>>, t) => t = m) /\ ~Has(<<>>, t)
<1>1. Msg(m) \in Messages /\ Msg(m).t = m
  BY Zenon, MsgType
<1> QED BY <1>1, SingleHas, Zenon

-----------------------------------------------------------------------------
(* The parts of the handlers.                                              *)

LEMMA TerminateHas ==
  ASSUME NEW d \in Queues, NEW w \in BOOLEAN, Terminate(d, w)
  PROVE  /\ mode' = "ended" /\ direct' = "null" /\ Kept /\ down' \in Queues
         /\ \A y \in Ends : \A t : Has(down'[y], t) => Has(d[y], t) \/ t \in {"cancel", "error"}
<1> DEFINE c == IF direct # "null" THEN Both(d, Msg("cancel")) ELSE d
<1>1. /\ Msg("cancel") \in Messages /\ Msg("cancel").t = "cancel"
      /\ Msg("error") \in Messages /\ Msg("error").t = "error"
  BY Zenon, MsgType DEF Controls
<1>2. c \in Queues /\ \A y \in Ends : \A t : Has(c[y], t) => Has(d[y], t) \/ t = "cancel"
  <2>1. CASE direct # "null"
    <3>1. c = Both(d, Msg("cancel"))
      BY Zenon, <2>1
    <3> HIDE DEF c
    <3> QED BY <1>1, <3>1, BothHas, Zenon
  <2>2. CASE direct = "null"
    BY Zenon, <2>2
  <2> QED BY Zenon, <2>1, <2>2
<1>3. /\ mode' = "ended" /\ direct' = "null" /\ Kept
      /\ down' = IF w /\ mode \in {"relay", "suspended"} THEN Both(c, Msg("error")) ELSE c
  BY Zenon DEF Terminate, Kept
<1> HIDE DEF c
<1>4. CASE w /\ mode \in {"relay", "suspended"}
  <2>1. down' = Both(c, Msg("error"))
    BY Zenon, <1>3, <1>4
  <2>2. /\ Both(c, Msg("error")) \in Queues
        /\ \A y \in Ends : \A t : Has(Both(c, Msg("error"))[y], t) => Has(c[y], t) \/ t = "error"
    BY <1>1, <1>2, BothHas, Zenon
  <2> QED BY <1>2, <1>3, <2>1, <2>2, Zenon
<1>5. CASE ~(w /\ mode \in {"relay", "suspended"})
  <2>1. down' = c
    BY Zenon, <1>3, <1>5
  <2> QED BY <1>2, <1>3, <2>1, Zenon
<1> QED BY Zenon, <1>4, <1>5

LEMMA StartRelayHas ==
  ASSUME NEW d \in Queues, StartRelay(d)
  PROVE  /\ mode' \in {"relay", "ended"} /\ direct' = "null" /\ Kept
         /\ down' \in Queues
         /\ \A y \in Ends : \A t : Has(down'[y], t) => Has(d[y], t) \/ t \in {"open", "error"}
<1>1. /\ Msg("open") \in Messages /\ Msg("open").t = "open"
      /\ Msg("error") \in Messages /\ Msg("error").t = "error"
  BY Zenon, MsgType DEF Controls
<1>2. CASE Sends("destination")
  <2>1. /\ mode' = "relay" /\ direct' = "null" /\ Kept
        /\ down' = Queue(d, "destination", Msg("open"))
    BY Zenon, <1>2 DEF StartRelay, Kept
  <2>2. "destination" \in Ends
    BY Zenon DEF Ends
  <2>3. /\ Queue(d, "destination", Msg("open")) \in Queues
        /\ \A y \in Ends : \A t : Has(Queue(d, "destination", Msg("open"))[y], t)
             => Has(d[y], t) \/ (y = "destination" /\ t = "open")
    BY <2>2, ControlsAre, SentHas, Zenon
  <2> QED BY Zenon, <2>1, <2>3
<1>3. CASE ~Sends("destination")
  <2>1. /\ mode' = "ended" /\ direct' = "null" /\ Kept
        /\ down' = Both(d, Msg("error"))
    BY Zenon, <1>3 DEF StartRelay, Kept
  <2> QED BY <1>1, <2>1, BothHas, Zenon
<1> QED BY Zenon, <1>2, <1>3

LEMMA FallBackHas ==
  ASSUME down \in Queues, FallBack
  PROVE  /\ mode' \in {"relay", "ended"} /\ direct' = "null" /\ Kept
         /\ direct = "committed" => mode' = "ended"
         /\ down' \in Queues
         /\ \A y \in Ends : \A t :
              Has(down'[y], t) => Has(down[y], t) \/ t \in {"open", "error", "cancel"}
<1>1. CASE direct = "committed"
  <2>1. Terminate(down, TRUE)
    BY Zenon, <1>1 DEF FallBack
  <2>2. /\ mode' = "ended" /\ direct' = "null" /\ Kept /\ down' \in Queues
        /\ \A y \in Ends : \A t : Has(down'[y], t) => Has(down[y], t) \/ t \in {"cancel", "error"}
    BY Zenon, <2>1, TerminateHas
  <2> QED BY <1>1, <2>2, Zenon
<1>2. CASE direct # "committed"
  <2> DEFINE d == Both(down, Msg("cancel"))
  <2>1. Msg("cancel") \in Messages /\ Msg("cancel").t = "cancel"
    BY Zenon, MsgType DEF Controls
  <2>2. d \in Queues /\ \A y \in Ends : \A t : Has(d[y], t) => Has(down[y], t) \/ t = "cancel"
    BY <2>1, BothHas, Zenon
  <2>3. StartRelay(d)
    BY Zenon, <1>2 DEF FallBack
  <2> HIDE DEF d
  <2>4. /\ mode' \in {"relay", "ended"} /\ direct' = "null" /\ Kept
        /\ down' \in Queues
        /\ \A y \in Ends : \A t : Has(down'[y], t) => Has(d[y], t) \/ t \in {"open", "error"}
    BY Zenon, <2>2, <2>3, StartRelayHas
  <2> QED BY <1>2, <2>2, <2>4, Zenon
<1> QED BY Zenon, <1>1, <1>2

LEMMA SuspendHas ==
  ASSUME NEW d \in Queues, gen \in Nat, Suspend(d)
  PROVE  /\ mode' = "suspended" /\ direct' = direct /\ Kept /\ down' \in Queues
         /\ \A y \in Ends : \A t : Has(down'[y], t) => Has(d[y], t) \/ t = "suspend"
<1>1. Note("suspend", gen) \in Messages /\ Note("suspend", gen).t = "suspend"
  BY Zenon, NoteType DEF Controls
<1>2. /\ mode' = "suspended" /\ direct' = direct /\ Kept
      /\ down' = Both(d, Note("suspend", gen))
  BY Zenon DEF Suspend, Kept
<1> QED BY <1>1, <1>2, BothHas, Zenon

\* A socket that is destroyed is reported by one of these.
LEMMA DestroyPosts ==
  ASSUME NEW notice \in Seq(Messages), \A t : Has(notice, t) => t = "end",
         DestroySource(notice)
  PROVE  \E ms \in Seq(Messages) :
           Post("source", ms) /\ \A t : Has(ms, t) => t \in {"closed", "fallback", "end"}
<1> DEFINE a == IF rec = "open" THEN <<Msg("fallback")>> ELSE <<>>
           b == IF task = "awaiting" THEN <<Msg("fallback")>> ELSE <<>>
           n == IF ses = "closed" THEN <<>> ELSE notice
           ms == IF rec = "committed" THEN <<Msg("closed")>> ELSE (a \o b) \o n
<1>1. /\ <<Msg("fallback")>> \in Seq(Messages) /\ <<>> \in Seq(Messages)
      /\ \A t : (Has(<<Msg("fallback")>>, t) => t = "fallback") /\ ~Has(<<>>, t)
  BY Zenon, NoticeHas DEF Controls
<1>2. a \in Seq(Messages) /\ \A t : Has(a, t) => t = "fallback"
  BY Zenon, <1>1
<1>3. b \in Seq(Messages) /\ \A t : Has(b, t) => t = "fallback"
  BY Zenon, <1>1
<1>4. n \in Seq(Messages) /\ \A t : Has(n, t) => t = "end"
  BY Zenon, <1>1
<1>5. <<Msg("closed")>> \in Seq(Messages) /\ \A t : Has(<<Msg("closed")>>, t) => t = "closed"
  BY Zenon, NoticeHas DEF Controls
<1>6. Post("source", ms)
  BY Zenon DEF DestroySource, Rejections
<1> HIDE DEF a, b, n
<1>7. a \o b \in Seq(Messages) /\ \A t : Has(a \o b, t) => t = "fallback"
  BY <1>2, <1>3, ConcatHas, Zenon
<1>8. (a \o b) \o n \in Seq(Messages)
      /\ \A t : Has((a \o b) \o n, t) => t \in {"fallback", "end"}
  BY <1>4, <1>7, ConcatHas, Zenon
<1>9. ms \in Seq(Messages) /\ \A t : Has(ms, t) => t \in {"closed", "fallback", "end"}
  BY Zenon, <1>5, <1>8
<1> HIDE DEF ms
<1> QED BY Zenon, <1>6, <1>9

LEMMA DestroyHas ==
  ASSUME up \in Queues, NEW notice \in Seq(Messages), \A t : Has(notice, t) => t = "end",
         DestroySource(notice)
  PROVE  /\ up' \in Queues
         /\ \A y \in Ends : \A t :
              Has(up'[y], t) => Has(up[y], t) \/ t \in {"closed", "fallback", "end"}
<1>1. PICK ms \in Seq(Messages) :
        Post("source", ms) /\ \A t : Has(ms, t) => t \in {"closed", "fallback", "end"}
  BY Zenon, DestroyPosts
<1>2. "source" \in Ends
  BY Zenon DEF Ends
<1>3. /\ up' \in Queues
      /\ \A y \in Ends : \A t : Has(up'[y], t) => Has(up[y], t) \/ (y = "source" /\ Has(ms, t))
  BY Zenon, <1>1, <1>2, PostHas
<1> QED BY Zenon, <1>1, <1>3

-----------------------------------------------------------------------------
(* Most steps send none of the messages that release a route or move bytes,*)
(* and change the roles only in the direction the invariant allows.        *)

\* down holds no new commit or opened, up no new committed or data.
NothingNew ==
  /\ \A t \in {"commit", "opened"} : Has(down'["source"], t) => Has(down["source"], t)
  /\ Has(up'["destination"], "committed") => Has(up["destination"], "committed")
  /\ Has(up'["source"], "data") => Has(up["source"], "data")

HubCalm ==
  /\ Relaying => mode' \in {"relay", "suspended", "ended"}
  /\ mode \in {"direct", "ended"} => mode' \in {"direct", "ended"}
  /\ direct' = "committed" <=> mode' = "direct"

WorkersCalm ==
  /\ rec' = "committed" => rec = "committed"
  /\ ses' = "relay" => ses = "relay"
  /\ ses \in {"direct", "closed"} => ses' \in {"direct", "closed"}
  /\ Released => dst' \in {"committed", "closed"}

LEMMA CalmSteps ==
  ASSUME IInv, NothingNew, HubCalm, WorkersCalm
  PROVE  Order' /\ Exclusion'
<1>1. Order'
  BY Zenon DEF IInv, Order, NothingNew, WorkersCalm, Released
<1>2. Exclusion'
  BY Zenon DEF IInv, Exclusion, NothingNew, HubCalm, WorkersCalm, Relaying
<1> QED BY Zenon, <1>1, <1>2

LEMMA EndsAre == "source" \in Ends /\ "destination" \in Ends
BY Zenon DEF Ends

LEMMA TypedQueues ==
  ASSUME TypeOK
  PROVE  up \in Queues /\ down \in Queues
BY Zenon DEF TypeOK, Queues

\* What a handler of the hub does to its own state, whichever way it goes.
HubTypes ==
  /\ mode' \in {"none", "negotiating", "relay", "direct", "suspended", "ended"}
  /\ direct' \in {"null", "offered", "ready", "destination-committing", "committed"}
  /\ opened' \in BOOLEAN /\ gen' \in Nat /\ reports' \subseteq Ends
  /\ direct' # "null" <=> mode' \in {"negotiating", "direct"}

LEMMA KeptTypes ==
  ASSUME TypeOK, Kept
  PROVE  opened' \in BOOLEAN /\ gen' \in Nat /\ reports' \subseteq Ends
BY Zenon DEF TypeOK, Kept

\* A step of the hub leaves the workers alone.
HubAlone ==
  /\ UNCHANGED <<source, destination, peers, ws, breaks, bytes>>
  /\ conn' \in [Ends -> {"up", "lost", "down"}]

LEMMA HubOnlyAlone ==
  ASSUME IInv, HubOnly
  PROVE  HubAlone
BY Zenon DEF IInv, TypeOK, HubOnly, HubAlone, links

LEMMA HubHandler ==
  ASSUME IInv, HubAlone, up' \in Queues, down' \in Queues, HubTypes, HubCalm, NothingNew
  PROVE  IInv'
<1>1. TypeOK'
  BY DEF IInv, TypeOK, HubAlone, source, destination, peers, bytes, Queues, HubTypes
<1>2. WorkersCalm
  BY Zenon DEF IInv, TypeOK, HubAlone, source, destination, WorkersCalm, Released
<1> QED BY Zenon, <1>1, <1>2, CalmSteps DEF IInv

\* The ways a handler of the hub ends.
LEMMA HubEnds ==
  ASSUME IInv, HubAlone, up' \in Queues,
         \A y \in Ends : \A t : Has(up'[y], t) => Has(up[y], t),
         \/ UNCHANGED <<hub, down>>
         \/ \E w \in BOOLEAN : Terminate(down, w)
         \/ direct # "null" /\ FallBack
         \/ mode = "relay" /\ Suspend(down)
         \/ /\ direct' \in {"ready", "destination-committing"} /\ direct # "committed"
            /\ direct # "null" /\ mode' = mode /\ Kept
            /\ down' \in Queues
            /\ \A t \in {"commit", "opened"} : Has(down'["source"], t) => Has(down["source"], t)
  PROVE  IInv'
<1> USE EndsAre
<1>1. up \in Queues /\ down \in Queues
  BY Zenon, TypedQueues DEF IInv
<1>2. CASE UNCHANGED <<hub, down>>
  <2>1. HubTypes /\ HubCalm
    BY Zenon, <1>2 DEF IInv, TypeOK, Exclusion, hub, HubTypes, HubCalm, Relaying
  <2>2. NothingNew /\ down' \in Queues
    BY Zenon, <1>1, <1>2 DEF NothingNew
  <2> QED BY Zenon, <2>1, <2>2, HubHandler
<1>3. ASSUME NEW w \in BOOLEAN, Terminate(down, w) PROVE IInv'
  <2>1. /\ mode' = "ended" /\ direct' = "null" /\ Kept /\ down' \in Queues
        /\ \A y \in Ends : \A t : Has(down'[y], t) => Has(down[y], t) \/ t \in {"cancel", "error"}
    BY Zenon, <1>1, <1>3, TerminateHas
  <2>2. HubTypes /\ HubCalm
    BY Zenon, <2>1, KeptTypes DEF IInv, TypeOK, HubTypes, HubCalm
  <2>3. NothingNew
    BY Zenon, <2>1 DEF NothingNew
  <2> QED BY Zenon, <2>1, <2>2, <2>3, HubHandler
<1>4. CASE direct # "null" /\ FallBack
  <2>1. /\ mode' \in {"relay", "ended"} /\ direct' = "null" /\ Kept
        /\ direct = "committed" => mode' = "ended"
        /\ down' \in Queues
        /\ \A y \in Ends : \A t :
             Has(down'[y], t) => Has(down[y], t) \/ t \in {"open", "error", "cancel"}
    BY Zenon, <1>1, <1>4, FallBackHas
  <2>2. HubTypes /\ HubCalm
    BY Zenon, <1>4, <2>1, KeptTypes DEF IInv, TypeOK, Exclusion, HubTypes, HubCalm, Relaying
  <2>3. NothingNew
    BY Zenon, <2>1 DEF NothingNew
  <2> QED BY Zenon, <2>1, <2>2, <2>3, HubHandler
<1>5. CASE mode = "relay" /\ Suspend(down)
  <2>1. /\ mode' = "suspended" /\ direct' = direct /\ Kept /\ down' \in Queues
        /\ \A y \in Ends : \A t : Has(down'[y], t) => Has(down[y], t) \/ t = "suspend"
    BY Zenon, <1>1, <1>5, SuspendHas DEF IInv, TypeOK
  <2>2. HubTypes /\ HubCalm
    BY Zenon, <1>5, <2>1, KeptTypes DEF IInv, TypeOK, Exclusion, HubTypes, HubCalm, Relaying
  <2>3. NothingNew
    BY Zenon, <2>1 DEF NothingNew
  <2> QED BY Zenon, <2>1, <2>2, <2>3, HubHandler
<1>6. CASE /\ direct' \in {"ready", "destination-committing"} /\ direct # "committed"
           /\ direct # "null" /\ mode' = mode /\ Kept
           /\ down' \in Queues
           /\ \A t \in {"commit", "opened"} : Has(down'["source"], t) => Has(down["source"], t)
  <2>1. HubTypes /\ HubCalm
    BY Zenon, <1>6, KeptTypes DEF IInv, TypeOK, Exclusion, HubTypes, HubCalm, Relaying
  <2>2. NothingNew
    BY Zenon, <1>6 DEF NothingNew
  <2> QED BY Zenon, <1>6, <2>1, <2>2, HubHandler
<1> QED BY Zenon, <1>2, <1>3, <1>4, <1>5, <1>6

-----------------------------------------------------------------------------
(* The steps of the hub.                                                   *)

LEMMA OnOpenStep ==
  ASSUME IInv, OnOpen
  PROVE  IInv'
<1> USE EndsAre
<1>1. up \in Queues /\ down \in Queues /\ HubOnly /\ HubAlone
  BY Zenon, TypedQueues, HubOnlyAlone DEF IInv, OnOpen
<1>2. up' \in Queues /\ \A y \in Ends : \A u : Has(up'[y], u) => Has(up[y], u)
  BY Zenon, <1>1, FromWorkerHas DEF OnOpen
<1>3. CASE mode = "none" /\ Sends("destination")
  <2>1. /\ mode' = "negotiating" /\ direct' = "offered" /\ Kept
        /\ down' = Queue(down, "destination", Msg("offer"))
    BY Zenon, <1>3 DEF OnOpen, Kept
  <2>3. /\ down' \in Queues
        /\ \A y \in Ends : \A t : Has(down'[y], t) => Has(down[y], t) \/ (y = "destination" /\ t = "offer")
    BY <1>1, <2>1, ControlsAre, SentHas, Zenon
  <2>4. HubTypes /\ HubCalm
    BY Zenon, <1>3, <2>1, KeptTypes DEF IInv, TypeOK, HubTypes, HubCalm, Relaying
  <2>5. NothingNew
    BY Zenon, <1>2, <2>3 DEF NothingNew
  <2> QED BY Zenon, <1>1, <1>2, <2>3, <2>4, <2>5, HubHandler
<1>4. CASE ~(mode = "none" /\ Sends("destination"))
  <2>1. down' = Queue(down, "source", Msg("error")) /\ UNCHANGED hub
    BY Zenon, <1>4 DEF OnOpen
  <2>3. /\ down' \in Queues
        /\ \A y \in Ends : \A t : Has(down'[y], t) => Has(down[y], t) \/ (y = "source" /\ t = "error")
    BY ZenonT(30), <1>1, <2>1, ControlsAre, SentHas, Zenon
  <2>4. HubTypes /\ HubCalm
    BY Zenon, <2>1 DEF IInv, TypeOK, Exclusion, hub, HubTypes, HubCalm, Relaying
  <2>5. NothingNew
    BY Zenon, <1>2, <2>3 DEF NothingNew
  <2> QED BY Zenon, <1>1, <1>2, <2>3, <2>4, <2>5, HubHandler
<1> QED BY Zenon, <1>3, <1>4

LEMMA OnReadyStep ==
  ASSUME IInv, OnReady
  PROVE  IInv'
<1> USE EndsAre
<1>1. up \in Queues /\ down \in Queues /\ HubOnly /\ HubAlone
  BY Zenon, TypedQueues, HubOnlyAlone DEF IInv, OnReady
<1>2. up' \in Queues /\ \A y \in Ends : \A u : Has(up'[y], u) => Has(up[y], u)
  BY Zenon, <1>1, FromWorkerHas DEF OnReady
<1>3. CASE direct = "offered" /\ Sends("source")
  <2>1. direct' = "ready" /\ mode' = mode /\ Kept
        /\ down' = Queue(down, "source", Msg("connect"))
    BY Zenon, <1>3 DEF OnReady, Dropped, Kept
  <2>3. /\ down' \in Queues
        /\ \A y \in Ends : \A t : Has(down'[y], t) => Has(down[y], t) \/ (y = "source" /\ t = "connect")
    BY <1>1, <2>1, ControlsAre, SentHas, Zenon
  <2> QED BY Zenon, <1>1, <1>2, <1>3, <2>1, <2>3, HubEnds
<1>4. CASE ~(direct = "offered" /\ Sends("source"))
  <2>1. UNCHANGED <<hub, down>> \/ Terminate(down, TRUE) \/ (direct # "null" /\ FallBack)
    BY Zenon, <1>4 DEF OnReady, Dropped
  <2> QED BY Zenon, <1>1, <1>2, <2>1, HubEnds
<1> QED BY Zenon, <1>3, <1>4

LEMMA OnFallbackStep ==
  ASSUME IInv, NEW x \in Ends, OnFallback(x)
  PROVE  IInv'
<1>1. up \in Queues /\ HubOnly /\ HubAlone
  BY Zenon, TypedQueues, HubOnlyAlone DEF IInv, OnFallback
<1>2. up' \in Queues /\ \A y \in Ends : \A u : Has(up'[y], u) => Has(up[y], u)
  BY Zenon, <1>1, FromWorkerHas DEF OnFallback
<1>3. UNCHANGED <<hub, down>> \/ (direct # "null" /\ FallBack)
  BY Zenon DEF OnFallback, Dropped
<1> QED BY Zenon, <1>1, <1>2, <1>3, HubEnds

LEMMA OnEstablishedStep ==
  ASSUME IInv, OnEstablished
  PROVE  IInv'
<1> USE EndsAre
<1>1. up \in Queues /\ down \in Queues /\ HubOnly /\ HubAlone
  BY Zenon, TypedQueues, HubOnlyAlone DEF IInv, OnEstablished
<1>2. up' \in Queues /\ \A y \in Ends : \A u : Has(up'[y], u) => Has(up[y], u)
  BY Zenon, <1>1, FromWorkerHas DEF OnEstablished
<1>3. CASE direct = "ready" /\ Sends("destination")
  <2>1. direct' = "destination-committing" /\ mode' = mode /\ Kept
        /\ down' = Queue(down, "destination", Msg("commit"))
    BY Zenon, <1>3 DEF OnEstablished, Dropped, Kept
  <2>3. /\ down' \in Queues
        /\ \A y \in Ends : \A t : Has(down'[y], t) => Has(down[y], t) \/ (y = "destination" /\ t = "commit")
    BY <1>1, <2>1, ControlsAre, SentHas, Zenon
  <2>4. \A t : Has(down'["source"], t) => Has(down["source"], t)
    BY Zenon, <2>3
  <2> QED BY Zenon, <1>1, <1>2, <1>3, <2>1, <2>3, <2>4, HubEnds
<1>4. CASE ~(direct = "ready" /\ Sends("destination"))
  <2>1. UNCHANGED <<hub, down>> \/ Terminate(down, TRUE)
    BY Zenon, <1>4 DEF OnEstablished, Dropped
  <2> QED BY Zenon, <1>1, <1>2, <2>1, HubEnds
<1> QED BY Zenon, <1>3, <1>4

\* The source is released on the destination's acknowledgement.
LEMMA OnCommittedStep ==
  ASSUME IInv, OnCommitted
  PROVE  IInv'
<1> USE EndsAre
<1>1. up \in Queues /\ down \in Queues /\ HubOnly /\ HubAlone
  BY Zenon, TypedQueues, HubOnlyAlone DEF IInv, OnCommitted
<1>2. /\ up' \in Queues /\ \A y \in Ends : \A u : Has(up'[y], u) => Has(up[y], u)
      /\ Has(up["destination"], "committed")
  BY Zenon, <1>1, FromWorkerHas DEF OnCommitted
<1>3. CASE direct = "destination-committing" /\ Sends("source")
  <2>1. /\ mode' = "direct" /\ direct' = "committed" /\ opened' = TRUE
        /\ UNCHANGED <<gen, reports>>
        /\ down' = Queue(down, "source", Msg("commit"))
    BY Zenon, <1>3 DEF OnCommitted, Dropped
  <2>3. /\ down' \in Queues
        /\ \A y \in Ends : \A t : Has(down'[y], t) => Has(down[y], t) \/ (y = "source" /\ t = "commit")
    BY ZenonT(30), <1>1, <2>1, ControlsAre, SentHas, Zenon
  <2>4. mode = "negotiating" /\ ses' = ses /\ rec' = rec /\ dst' = dst
    BY Zenon, <1>1, <1>3 DEF IInv, TypeOK, Exclusion, HubOnly, source, destination
  <2>5. TypeOK'
    BY SMTT(30), <1>1, <1>2, <2>1, <2>3
    DEF IInv, TypeOK, HubOnly, source, destination, peers, links, bytes, Queues
  <2>6. Order'
    BY Zenon, <1>2, <2>4 DEF IInv, Order, Released
  <2>7. Exclusion'
    BY <1>2, <2>1, <2>3, <2>4 DEF IInv, Exclusion, Relaying
  <2> QED BY Zenon, <2>5, <2>6, <2>7 DEF IInv
<1>4. CASE ~(direct = "destination-committing" /\ Sends("source"))
  <2>1. UNCHANGED <<hub, down>> \/ Terminate(down, TRUE)
    BY Zenon, <1>4 DEF OnCommitted, Dropped
  <2> QED BY Zenon, <1>1, <1>2, <2>1, HubEnds
<1> QED BY Zenon, <1>3, <1>4

LEMMA OnClosedStep ==
  ASSUME IInv, NEW x \in Ends, OnClosed(x)
  PROVE  IInv'
<1>1. up \in Queues /\ HubOnly /\ HubAlone
  BY Zenon, TypedQueues, HubOnlyAlone DEF IInv, OnClosed
<1>2. up' \in Queues /\ \A y \in Ends : \A u : Has(up'[y], u) => Has(up[y], u)
  BY Zenon, <1>1, FromWorkerHas DEF OnClosed
<1>3. UNCHANGED <<hub, down>> \/ Terminate(down, direct # "committed")
  BY Zenon DEF OnClosed, Dropped
<1>4. (direct # "committed") \in BOOLEAN
  BY Zenon
<1> QED BY Zenon, <1>1, <1>2, <1>3, <1>4, HubEnds

LEMMA TimerStep ==
  ASSUME IInv, TimerFires \/ RecoveryTimeout
  PROVE  IInv'
<1>1. up \in Queues /\ up' = up /\ HubAlone
  BY Zenon, TypedQueues, HubOnlyAlone DEF IInv, TimerFires, RecoveryTimeout
<1>2. Terminate(down, TRUE) \/ (direct # "null" /\ FallBack)
  BY Zenon DEF TimerFires, RecoveryTimeout
<1> QED BY Zenon, <1>1, <1>2, HubEnds

LEMMA OnOpenedStep ==
  ASSUME IInv, OnOpened
  PROVE  IInv'
<1> USE EndsAre
<1>1. up \in Queues /\ down \in Queues /\ HubOnly /\ HubAlone
  BY Zenon, TypedQueues, HubOnlyAlone DEF IInv, OnOpened
<1>2. up' \in Queues /\ \A y \in Ends : \A u : Has(up'[y], u) => Has(up[y], u)
  BY Zenon, <1>1, FromWorkerHas DEF OnOpened
<1>3. CASE mode \in {"relay", "suspended"} /\ ~opened /\ Head(up["destination"]).n = gen
  <2> DEFINE m == Note("opened", gen)
  <2>1. /\ mode' = mode /\ direct' = direct /\ opened' = TRUE /\ UNCHANGED <<gen, reports>>
        /\ down' = Queue(down, "source", m)
    BY Zenon, <1>3 DEF OnOpened
  <2>a. m \in Messages /\ m.t = "opened"
    BY Zenon, NoteType DEF IInv, TypeOK, Controls
  <2> HIDE DEF m
  <2>b. /\ down' \in Queues
        /\ \A y \in Ends : \A t : Has(down'[y], t) => Has(down[y], t) \/ (y = "source" /\ m.t = t)
    BY <1>1, <2>1, <2>a, QueueHas, Zenon
  <2>2. /\ down' \in Queues
        /\ \A y \in Ends : \A t : Has(down'[y], t) => Has(down[y], t) \/ (y = "source" /\ t = "opened")
    BY Zenon, <2>a, <2>b
  <2>3. ses' = ses /\ rec' = rec /\ dst' = dst
    BY Zenon, <1>1 DEF HubOnly, source, destination
  <2>4. TypeOK'
    BY <1>1, <1>2, <2>1, <2>2
    DEF IInv, TypeOK, HubOnly, source, destination, peers, links, bytes, Queues
  <2>5. Order'
    BY SMTT(30), <1>2, <2>2, <2>3 DEF IInv, Order, Released
  <2>6. Exclusion'
    BY <1>2, <1>3, <2>1, <2>2, <2>3 DEF IInv, Exclusion, Relaying
  <2> QED BY Zenon, <2>4, <2>5, <2>6 DEF IInv
<1>4. CASE ~(mode \in {"relay", "suspended"} /\ ~opened /\ Head(up["destination"]).n = gen)
  <2>1. UNCHANGED <<hub, down>> \/ Terminate(down, TRUE)
    BY Zenon, <1>4 DEF OnOpened
  <2> QED BY Zenon, <1>1, <1>2, <2>1, HubEnds
<1> QED BY Zenon, <1>3, <1>4

LEMMA OnDataStep ==
  ASSUME IInv, OnData
  PROVE  IInv'
<1> USE EndsAre
<1>1. up \in Queues /\ down \in Queues /\ HubOnly /\ HubAlone
  BY Zenon, TypedQueues, HubOnlyAlone DEF IInv, OnData
<1>2. /\ up' \in Queues /\ \A y \in Ends : \A u : Has(up'[y], u) => Has(up[y], u)
      /\ Has(up["source"], "data") /\ Head(up["source"]) \in Messages
      /\ Head(up["source"]).t = "data"
  BY Zenon, <1>1, FromWorkerHas DEF OnData
<1>3. Relaying
  BY Zenon, <1>2 DEF IInv, Exclusion
<1>4. CASE mode = "relay" /\ gen = 0 /\ Sends("destination")
  <2>1. down' = Queue(down, "destination", Head(up["source"])) /\ UNCHANGED hub
    BY Zenon, <1>4 DEF OnData
  <2> DEFINE m == Head(up["source"])
  <2> HIDE DEF m
  <2>a. m \in Messages /\ m.t = "data" /\ down' = Queue(down, "destination", m)
    BY Zenon, <1>2, <2>1 DEF m
  <2>2. /\ down' \in Queues
        /\ \A y \in Ends : \A t : Has(down'[y], t) => Has(down[y], t) \/ (y = "destination" /\ m.t = t)
    BY ZenonT(30), <1>1, <2>a, QueueHas, Zenon
  <2>3. HubTypes /\ HubCalm
    BY Zenon, <2>1 DEF IInv, TypeOK, Exclusion, hub, HubTypes, HubCalm, Relaying
  <2>4. NothingNew
    BY Zenon, <1>2, <2>a, <2>2 DEF NothingNew
  <2> QED BY Zenon, <1>1, <1>2, <2>2, <2>3, <2>4, HubHandler
<1>5. CASE ~(mode = "relay" /\ gen = 0 /\ Sends("destination"))
  <2>1. UNCHANGED <<hub, down>> \/ Terminate(down, TRUE) \/ (mode = "relay" /\ Suspend(down))
    BY Zenon, <1>3, <1>5 DEF OnData, Relaying
  <2> QED BY Zenon, <1>1, <1>2, <2>1, HubEnds
<1> QED BY Zenon, <1>4, <1>5

LEMMA OnTerminalStep ==
  ASSUME IInv, NEW x \in Ends, OnTerminal(x)
  PROVE  IInv'
<1> USE EndsAre
<1>1. up \in Queues /\ down \in Queues /\ HubAlone
  BY Zenon, TypedQueues, HubOnlyAlone DEF IInv, OnTerminal
<1>2. up' \in Queues /\ \A y \in Ends : \A u : Has(up'[y], u) => Has(up[y], u)
  BY Zenon, <1>1, FromWorkerHas DEF OnTerminal
<1>3. CASE mode \in {"none", "ended"}
  <2>1. UNCHANGED <<hub, down>>
    BY Zenon, <1>3 DEF OnTerminal
  <2> QED BY Zenon, <1>1, <1>2, <2>1, HubEnds
<1>4. CASE mode \notin {"none", "ended"}
  <2> DEFINE z == CHOOSE y \in Ends : y # x
             d == Queue(down, z, Msg("end"))
  <2>1. z \in Ends
    BY Zenon DEF Ends
  <2>2. Terminate(d, FALSE)
    BY Zenon, <1>4 DEF OnTerminal
  <2> HIDE DEF z
  <2>3. d \in Queues /\ \A y \in Ends : \A t : Has(d[y], t) => Has(down[y], t) \/ (y = z /\ t = "end")
    BY ZenonT(30), <1>1, <2>1, ControlsAre, SentHas, Zenon
  <2> HIDE DEF d
  <2>4. /\ mode' = "ended" /\ direct' = "null" /\ Kept /\ down' \in Queues
        /\ \A y \in Ends : \A t : Has(down'[y], t) => Has(d[y], t) \/ t \in {"cancel", "error"}
    BY Zenon, <2>2, <2>3, TerminateHas
  <2>5. HubTypes /\ HubCalm
    BY Zenon, <2>4, KeptTypes DEF IInv, TypeOK, HubTypes, HubCalm
  <2>6. NothingNew
    BY Zenon, <1>2, <2>3, <2>4 DEF NothingNew
  <2> QED BY Zenon, <1>1, <1>2, <2>4, <2>5, <2>6, HubHandler
<1> QED BY Zenon, <1>3, <1>4

\* A stream that is resumed is relayed again.
LEMMA OnResumeStep ==
  ASSUME IInv, NEW x \in Ends, OnResume(x)
  PROVE  IInv'
<1> USE EndsAre
<1>1. up \in Queues /\ down \in Queues /\ HubAlone
  BY Zenon, TypedQueues, HubOnlyAlone DEF IInv, OnResume
<1>2. up' \in Queues /\ \A y \in Ends : \A u : Has(up'[y], u) => Has(up[y], u)
  BY Zenon, <1>1, FromWorkerHas DEF OnResume
<1>3. CASE down' = Queue(down, x, Msg("error")) /\ UNCHANGED hub
  <2>1. /\ down' \in Queues
        /\ \A y \in Ends : \A t : Has(down'[y], t) => Has(down[y], t) \/ (y = x /\ t = "error")
    BY <1>1, <1>3, ControlsAre, SentHas, ZenonT(60)
  <2>2. HubTypes /\ HubCalm
    BY Zenon, <1>3 DEF IInv, TypeOK, Exclusion, hub, HubTypes, HubCalm, Relaying
  <2>3. NothingNew
    BY Zenon, <1>2, <2>1 DEF NothingNew
  <2> QED BY Zenon, <1>1, <1>2, <2>1, <2>2, <2>3, HubHandler
<1>4. CASE Terminate(down, TRUE)
  BY Zenon, <1>1, <1>2, <1>4, HubEnds
<1>5. CASE mode = "suspended" /\ TryResume(reports \cup {x})
  <2> DEFINE m == Note("resumed", gen + 1)
             r == reports \cup {x}
  <2>1. m \in Messages /\ m.t = "resumed" /\ gen \in Nat /\ gen + 1 \in Nat
    BY Zenon, GenTypes, ResumedType DEF IInv
  <2>2. r \subseteq Ends
    BY Zenon DEF IInv, TypeOK
  <2>3. /\ direct' = direct /\ opened' = opened
        /\ \/ /\ mode' = "relay" /\ gen' = gen + 1 /\ reports' = {}
              /\ down' = Both(down, m)
           \/ mode' = mode /\ gen' = gen /\ reports' = r /\ down' = down
    BY Zenon, <1>5 DEF TryResume
  <2> HIDE DEF m, r
  <2>4. /\ down' \in Queues
        /\ \A y \in Ends : \A t : Has(down'[y], t) => Has(down[y], t) \/ t = "resumed"
    <3>1. /\ Both(down, m) \in Queues
          /\ \A y \in Ends : \A t : Has(Both(down, m)[y], t) => Has(down[y], t) \/ m.t = t
      BY Zenon, <1>1, <2>1, BothHas
    <3> QED BY Zenon, <1>1, <2>1, <2>3, <3>1
  <2>5. mode' \in {"relay", "suspended"} /\ gen' \in Nat /\ reports' \subseteq Ends
    BY Zenon, <1>5, <2>1, <2>2, <2>3
  <2>6. HubTypes /\ HubCalm
    BY Zenon, <1>5, <2>3, <2>5 DEF IInv, TypeOK, Exclusion, HubTypes, HubCalm, Relaying
  <2>7. NothingNew
    BY Zenon, <1>2, <2>4 DEF NothingNew
  <2> QED BY Zenon, <1>1, <1>2, <2>4, <2>6, <2>7, HubHandler
<1> QED BY Zenon, <1>3, <1>4, <1>5 DEF OnResume

LEMMA HubNoticesStep ==
  ASSUME IInv, NEW x \in Ends, HubNotices(x)
  PROVE  IInv'
<1>1. up \in Queues /\ up' = up
  BY Zenon, TypedQueues DEF IInv, HubNotices
<1>2. HubAlone
  BY Zenon DEF IInv, TypeOK, HubNotices, HubAlone
<1>3. UNCHANGED <<hub, down>> \/ Terminate(down, TRUE) \/ (mode = "relay" /\ Suspend(down))
  BY Zenon DEF HubNotices
<1> QED BY Zenon, <1>1, <1>2, <1>3, HubEnds

-----------------------------------------------------------------------------
(* The steps of the source.                                                *)

LEMMA WorkerHandler ==
  ASSUME IInv, UNCHANGED hub, TypeOK', NothingNew, WorkersCalm
  PROVE  IInv'
<1>1. HubCalm
  BY Zenon DEF IInv, Exclusion, hub, HubCalm, Relaying
<1> QED BY Zenon, <1>1, CalmSteps DEF IInv

\* The queues after a step that sends ms and may have taken a message.
Quiet ==
  /\ up' \in Queues /\ down' \in Queues
  /\ \A y \in Ends : \A t : Has(down'[y], t) => Has(down[y], t)
  /\ \A y \in Ends, t \in {"data", "committed"} : Has(up'[y], t) => Has(up[y], t)

LEMMA QuietSteps ==
  ASSUME Quiet
  PROVE  NothingNew
BY Zenon, EndsAre DEF Quiet, NothingNew

\* Taking a message and sending nothing.
LEMMA QuietTake ==
  ASSUME IInv, NEW x \in Ends, NEW t, FromHub(x, t), up' = up
  PROVE  Quiet
<1>1. up \in Queues /\ down \in Queues
  BY Zenon, TypedQueues DEF IInv
<1>2. down' \in Queues /\ \A y \in Ends : \A u : Has(down'[y], u) => Has(down[y], u)
  BY Zenon, <1>1, FromHubHas
<1> QED BY Zenon, <1>1, <1>2 DEF Quiet

\* Sending one message that releases nothing, after taking one or without.
LEMMA QuietSend ==
  ASSUME IInv, NEW x \in Ends, NEW m \in Messages, m.t \notin {"data", "committed"},
         Post(x, <<m>>), down' = down \/ \E t : FromHub(x, t)
  PROVE  Quiet
<1>1. up \in Queues /\ down \in Queues
  BY Zenon, TypedQueues DEF IInv
<1>2. down' \in Queues /\ \A y \in Ends : \A u : Has(down'[y], u) => Has(down[y], u)
  BY Zenon, <1>1, FromHubHas
<1> DEFINE ms == <<m>>
<1>3. ms \in Seq(Messages) /\ \A t : Has(ms, t) => m.t = t
  BY Zenon, SingleHas
<1> HIDE DEF ms
<1>4. Post(x, ms)
  BY Zenon DEF ms
<1>5. /\ up' \in Queues
      /\ \A y \in Ends : \A t : Has(up'[y], t) => Has(up[y], t) \/ (y = x /\ Has(ms, t))
  BY Zenon, <1>1, <1>3, <1>4, PostHas
<1> QED BY Zenon, <1>2, <1>3, <1>5 DEF Quiet

LEMMA QuietPost ==
  ASSUME IInv, NEW x \in Ends, NEW m \in Controls \ {"committed"}, Post(x, <<Msg(m)>>),
         down' = down \/ \E t : FromHub(x, t)
  PROVE  Quiet
<1>1. Msg(m) \in Messages /\ Msg(m).t = m /\ m # "data" /\ m # "committed"
  BY Zenon, MsgType DEF Controls
<1> DEFINE p == Msg(m)
<1>2. p \in Messages /\ p.t \notin {"data", "committed"} /\ Post(x, <<p>>)
  BY Zenon, <1>1
<1> HIDE DEF p
<1> QED BY Zenon, <1>2, QuietSend

LEMMA QuietNote ==
  ASSUME IInv, NEW x \in Ends, NEW m \in Controls \ {"committed"}, NEW g \in Nat,
         Post(x, <<Note(m, g)>>), down' = down \/ \E t : FromHub(x, t)
  PROVE  Quiet
<1>1. Note(m, g) \in Messages /\ Note(m, g).t = m
  BY Zenon, NoteType
<1>a. m # "data" /\ m # "committed"
  BY Zenon DEF Controls
<1> DEFINE p == Note(m, g)
<1>2. p \in Messages /\ p.t \notin {"data", "committed"} /\ Post(x, <<p>>)
  BY Zenon, <1>1, <1>a
<1> HIDE DEF p
<1> QED BY Zenon, <1>2, QuietSend

LEMMA DestroyStep ==
  ASSUME IInv, NEW notice \in Seq(Messages), \A t : Has(notice, t) => t = "end",
         DestroySource(notice), UNCHANGED <<hub, destination, links, got>>,
         sent' \in 0..MaxBytes, down' \in Queues,
         \A y \in Ends : \A u : Has(down'[y], u) => Has(down[y], u)
  PROVE  IInv'
<1>1. up \in Queues
  BY Zenon, TypedQueues DEF IInv
<1>2. /\ up' \in Queues
      /\ \A y \in Ends : \A t :
           Has(up'[y], t) => Has(up[y], t) \/ t \in {"closed", "fallback", "end"}
  BY Zenon, <1>1, DestroyHas
<1>3. Quiet
  BY Zenon, <1>2 DEF Quiet
<1>4. /\ ses' = "closed" /\ flow' = "destroyed" /\ UNCHANGED <<susp, deaf, sgen>>
      /\ rec' \in {"none", "closed"} /\ task' \in {task, "done"}
      /\ chan' \in {chan, "down"} /\ marker' = marker /\ pipe' = pipe
  BY Zenon DEF DestroySource, ChannelCut
<1>5. TypeOK'
  BY SMTT(60), <1>2, <1>4 DEF IInv, TypeOK, hub, destination, links, Queues
<1>6. WorkersCalm
  BY Zenon, <1>4 DEF IInv, TypeOK, WorkersCalm, destination, Released
<1> QED BY Zenon, <1>3, <1>5, <1>6, QuietSteps, WorkerHandler

LEMMA Notices ==
  /\ Notice \in Seq(Messages) /\ \A t : Has(Notice, t) => t = "end"
  /\ <<>> \in Seq(Messages) /\ \A t : Has(<<>>, t) => t = "end"
<1>1. /\ <<Msg("end")>> \in Seq(Messages) /\ <<>> \in Seq(Messages)
      /\ \A t : (Has(<<Msg("end")>>, t) => t = "end") /\ ~Has(<<>>, t)
  BY Zenon, NoticeHas, ControlsAre
<1> QED BY Zenon, <1>1 DEF Notice

LEMMA OnConnectStep ==
  ASSUME IInv, OnConnect
  PROVE  IInv'
<1> USE EndsAre
<1>1. Quiet
  <2>1. CASE ses = "negotiating"
    <3>1. FromHub("source", "connect") /\ up' = up
      BY Zenon, <2>1 DEF OnConnect
    <3> QED BY Zenon, <3>1, QuietTake
  <2>2. CASE ses # "negotiating"
    <3>1. FromHub("source", "connect") /\ Post("source", <<Msg("fallback")>>)
      BY Zenon, <2>2 DEF OnConnect
    <3> QED BY Zenon, <3>1, QuietPost DEF Controls
  <2> QED BY Zenon, <2>1, <2>2
<1>2. TypeOK'
  BY SMTT(30), <1>1 DEF IInv, TypeOK, OnConnect, SourceOnly, hub, destination, peers, links, bytes,
     Quiet, Queues
<1>3. WorkersCalm /\ UNCHANGED hub
  BY Zenon DEF IInv, TypeOK, OnConnect, SourceOnly, destination, WorkersCalm, Released
<1> QED BY Zenon, <1>1, <1>2, <1>3, QuietSteps, WorkerHandler

LEMMA DialFailsStep ==
  ASSUME IInv, DialFails
  PROVE  IInv'
<1> USE EndsAre
<1>1. Quiet
  BY Zenon, QuietPost DEF DialFails, Controls
<1>2. TypeOK'
  BY SMTT(60), <1>1 DEF IInv, TypeOK, DialFails, ChannelCut, SourceOnly, hub, destination, links, bytes,
     Quiet, Queues
<1>3. WorkersCalm /\ UNCHANGED hub
  BY Zenon DEF IInv, TypeOK, DialFails, SourceOnly, destination, WorkersCalm, Released
<1> QED BY Zenon, <1>1, <1>2, <1>3, QuietSteps, WorkerHandler

LEMMA DialSucceedsStep ==
  ASSUME IInv, DialSucceeds
  PROVE  IInv'
<1>1. Quiet
  BY Zenon, TypedQueues DEF IInv, DialSucceeds, Quiet
<1>2. TypeOK'
  BY SMTT(30), <1>1 DEF IInv, TypeOK, DialSucceeds, SourceOnly, hub, destination, peers, links, bytes,
     Quiet, Queues
<1>3. WorkersCalm /\ UNCHANGED hub
  BY Zenon DEF IInv, TypeOK, DialSucceeds, SourceOnly, destination, WorkersCalm, Released
<1> QED BY Zenon, <1>1, <1>2, <1>3, QuietSteps, WorkerHandler

LEMMA MarkerArrivesStep ==
  ASSUME IInv, MarkerArrives
  PROVE  IInv'
<1> USE EndsAre
<1>1. Quiet
  BY Zenon, QuietPost DEF MarkerArrives, Controls
<1>2. TypeOK'
  <2>1. /\ task' = "done" /\ marker' \in BOOLEAN /\ UNCHANGED <<ses, flow, susp, rec, deaf, sgen, chan, pipe>>
        /\ SourceOnly
    BY Zenon DEF MarkerArrives
  <2> QED BY SMTT(60), <1>1, <2>1 DEF IInv, TypeOK, SourceOnly, hub, destination, links, bytes, Quiet, Queues
<1>3. WorkersCalm /\ UNCHANGED hub
  BY Zenon DEF IInv, TypeOK, MarkerArrives, SourceOnly, destination, WorkersCalm, Released
<1> QED BY Zenon, <1>1, <1>2, <1>3, QuietSteps, WorkerHandler

LEMMA AbortStep ==
  ASSUME IInv, Abort, Quiet, SourceOnly, task' \in {task, "done"}
  PROVE  IInv'
<1>1. TypeOK'
  BY SMTT(60) DEF IInv, TypeOK, Abort, ChannelCut, SourceOnly, hub, destination, links, bytes,
     Quiet, Queues
<1>2. WorkersCalm /\ UNCHANGED hub
  BY Zenon DEF IInv, TypeOK, Abort, SourceOnly, destination, WorkersCalm, Released
<1> QED BY Zenon, <1>1, <1>2, QuietSteps, WorkerHandler

LEMMA MarkerFailsStep ==
  ASSUME IInv, MarkerFails
  PROVE  IInv'
<1> USE EndsAre
<1>1. Quiet
  BY Zenon, QuietPost DEF MarkerFails, Controls
<1> QED BY Zenon, <1>1, AbortStep DEF MarkerFails

\* The source is released by a commit the hub sent, so not after the relay.
LEMMA OnSourceCommitStep ==
  ASSUME IInv, OnSourceCommit
  PROVE  IInv'
<1> USE EndsAre
<1>1. up \in Queues /\ down \in Queues /\ up' = up /\ UNCHANGED hub
  BY Zenon, TypedQueues DEF IInv, OnSourceCommit, SourceOnly
<1>2. /\ down' \in Queues /\ Has(down["source"], "commit")
      /\ \A y \in Ends : \A u : Has(down'[y], u) => Has(down[y], u)
  BY Zenon, <1>1, FromHubHas DEF OnSourceCommit
<1>3. TypeOK'
  BY SMTT(60), <1>1, <1>2 DEF IInv, TypeOK, OnSourceCommit, SourceOnly, hub, destination, peers, links,
     bytes, Queues
<1>4. Order'
  BY Zenon, <1>1, <1>2 DEF IInv, Order, Released, OnSourceCommit, SourceOnly, destination
<1>5. /\ ses' = ses \/ (ses = "negotiating" /\ ses' = "direct")
      /\ rec' = rec \/ (rec' = "committed" /\ (ses = "negotiating" => ses' = "direct"))
  BY Zenon DEF OnSourceCommit
<1>6. Exclusion'
  BY Zenon, <1>1, <1>2, <1>5 DEF IInv, TypeOK, Exclusion, Relaying, hub
<1> QED BY Zenon, <1>3, <1>4, <1>6 DEF IInv

LEMMA OnSourceCancelStep ==
  ASSUME IInv, OnSourceCancel
  PROVE  IInv'
<1> USE EndsAre
<1>1. up \in Queues /\ down \in Queues /\ SourceOnly /\ FromHub("source", "cancel")
  BY Zenon, TypedQueues DEF IInv, OnSourceCancel
<1>2. down' \in Queues /\ \A y \in Ends : \A u : Has(down'[y], u) => Has(down[y], u)
  BY Zenon, <1>1, FromHubHas
<1>3. CASE rec = "open" /\ task = "awaiting"
  <2>1. Abort /\ task' = "done" /\ Post("source", <<Msg("fallback")>>)
    BY Zenon, <1>3 DEF OnSourceCancel
  <2>2. Quiet
    BY Zenon, <1>1, <2>1, QuietPost DEF Controls
  <2> QED BY Zenon, <1>1, <2>1, <2>2, AbortStep
<1>4. CASE rec = "open" /\ task # "awaiting"
  <2>1. Abort /\ task' = task /\ Post("source", <<>>)
    BY Zenon, <1>4 DEF OnSourceCancel
  <2>2. <<>> \in Seq(Messages) /\ \A t : ~Has(<<>>, t)
    BY DEF Has
  <2>3. up' \in Queues /\ \A y \in Ends : \A t : Has(up'[y], t) => Has(up[y], t)
    BY Zenon, <1>1, <2>1, <2>2, PostHas
  <2>4. Quiet
    BY Zenon, <1>2, <2>3 DEF Quiet
  <2> QED BY Zenon, <1>1, <2>1, <2>4, AbortStep
<1>5. CASE rec = "committed"
  <2>1. DestroySource(Notice)
    BY Zenon, <1>5 DEF OnSourceCancel
  <2>2. sent' \in 0..MaxBytes /\ UNCHANGED <<hub, destination, links, got>>
    BY Zenon, <1>1 DEF IInv, TypeOK, SourceOnly, bytes
  <2> QED BY Zenon, <1>2, <2>1, <2>2, Notices, DestroyStep
<1>6. CASE rec \notin {"open", "committed"}
  <2>1. UNCHANGED <<source, peers, up>>
    BY Zenon, <1>6 DEF OnSourceCancel
  <2>2. Quiet
    BY Zenon, <1>1, <2>1, QuietTake
  <2>3. TypeOK'
    BY SMTT(30), <1>1, <2>1, <2>2 DEF IInv, TypeOK, SourceOnly, hub, source, destination, peers, links,
       bytes, Quiet, Queues
  <2>4. WorkersCalm /\ UNCHANGED hub
    BY Zenon, <1>1, <2>1 DEF IInv, TypeOK, SourceOnly, source, destination, WorkersCalm, Released
  <2> QED BY Zenon, <2>2, <2>3, <2>4, QuietSteps, WorkerHandler
<1> QED BY Zenon, <1>3, <1>4, <1>5, <1>6

\* The relay serves a session only while the hub relays.
LEMMA OnRelayOpenedStep ==
  ASSUME IInv, OnRelayOpened
  PROVE  IInv'
<1> USE EndsAre
<1>1. up \in Queues /\ down \in Queues /\ SourceOnly /\ UNCHANGED <<hub, dst>>
  BY Zenon, TypedQueues DEF IInv, OnRelayOpened, SourceOnly, destination
<1>2. /\ down' \in Queues /\ Has(down["source"], "opened")
      /\ \A y \in Ends : \A u : Has(down'[y], u) => Has(down[y], u)
  BY Zenon, <1>1, FromHubHas DEF OnRelayOpened
<1>3. CASE ses = "negotiating" /\ Head(down["source"]).n # sgen
  <2>1. DestroySource(Notice)
    BY Zenon, <1>3 DEF OnRelayOpened
  <2>2. sent' \in 0..MaxBytes /\ UNCHANGED <<hub, destination, links, got>>
    BY Zenon, <1>1 DEF IInv, TypeOK, SourceOnly, bytes
  <2> QED BY Zenon, <1>2, <2>1, <2>2, Notices, DestroyStep
<1>4. CASE ~(ses = "negotiating" /\ Head(down["source"]).n # sgen)
  <2>1. /\ ses' \in {ses, "relay"} /\ flow' \in {flow, "flowing"}
        /\ UNCHANGED <<susp, task, rec, deaf, sgen, peers, up>>
        /\ ses' = ses \/ (ses = "negotiating" /\ ses' = "relay")
    BY Zenon, <1>4 DEF OnRelayOpened, source
  <2>2. TypeOK'
    BY SMTT(60), <1>1, <1>2, <2>1 DEF IInv, TypeOK, SourceOnly, hub, destination, peers, links,
       bytes, Queues
  <2>3. Order'
    BY Zenon, <1>1, <1>2, <2>1 DEF IInv, Order, Released
  <2>4. Exclusion'
    BY Zenon, <1>1, <1>2, <2>1 DEF IInv, TypeOK, Exclusion, Relaying, hub
  <2> QED BY Zenon, <2>2, <2>3, <2>4 DEF IInv
<1> QED BY Zenon, <1>3, <1>4

LEMMA OnSourceTerminalStep ==
  ASSUME IInv, OnSourceTerminal
  PROVE  IInv'
<1> USE EndsAre
<1>1. up \in Queues /\ down \in Queues /\ SourceOnly
  BY Zenon, TypedQueues DEF IInv, OnSourceTerminal
<1>2. PICK t \in {"end", "error"} : FromHub("source", t)
  BY Zenon DEF OnSourceTerminal
<1>3. down' \in Queues /\ \A y \in Ends : \A u : Has(down'[y], u) => Has(down[y], u)
  BY Zenon, <1>1, <1>2, FromHubHas
<1>4. CASE ses = "closed"
  <2>1. UNCHANGED <<source, peers, up>>
    BY Zenon, <1>4 DEF OnSourceTerminal
  <2>2. Quiet
    BY Zenon, <1>2, <2>1, QuietTake
  <2>3. TypeOK'
    BY SMTT(30), <1>1, <2>1, <2>2 DEF IInv, TypeOK, SourceOnly, hub, source, destination, peers, links,
       bytes, Quiet, Queues
  <2>4. WorkersCalm /\ UNCHANGED hub
    BY Zenon, <1>1, <2>1 DEF IInv, TypeOK, SourceOnly, source, destination, WorkersCalm, Released
  <2> QED BY Zenon, <2>2, <2>3, <2>4, QuietSteps, WorkerHandler
<1>5. CASE ses # "closed"
  <2>1. DestroySource(<<>>)
    BY Zenon, <1>5 DEF OnSourceTerminal
  <2>2. sent' \in 0..MaxBytes /\ UNCHANGED <<hub, destination, links, got>>
    BY Zenon, <1>1 DEF IInv, TypeOK, SourceOnly, bytes
  <2> QED BY Zenon, <1>3, <2>1, <2>2, Notices, DestroyStep
<1> QED BY Zenon, <1>4, <1>5

LEMMA OnSuspendStep ==
  ASSUME IInv, OnSuspend \/ OnResumed
  PROVE  IInv'
<1> USE EndsAre
<1>1. PICK t \in {"suspend", "resumed"} : FromHub("source", t)
  BY Zenon DEF OnSuspend, OnResumed
<1>2. down \in Queues /\ SourceOnly
  BY Zenon, TypedQueues DEF IInv, OnSuspend, OnResumed
<1>3. down' \in Queues /\ \A y \in Ends : \A u : Has(down'[y], u) => Has(down[y], u)
  BY Zenon, <1>1, <1>2, FromHubHas
<1>4. CASE DestroySource(Notice)
  <2>1. sent' \in 0..MaxBytes /\ UNCHANGED <<hub, destination, links, got>>
    BY Zenon, <1>2 DEF IInv, TypeOK, SourceOnly, bytes
  <2> QED BY Zenon, <1>3, <1>4, <2>1, Notices, DestroyStep
<1>5. CASE ~DestroySource(Notice)
  <2>1. /\ \/ up' = up \/ Post("source", <<Note("resume", sgen)>>)
        /\ \/ UNCHANGED <<susp, flow, sgen>>
           \/ susp' \in BOOLEAN /\ flow' \in {"paused", "flowing"} /\ sgen' \in {sgen, sgen + 1}
        /\ UNCHANGED <<ses, task, rec, deaf, peers>>
    <3>1. CASE OnSuspend
      BY Zenon, <1>5, <3>1 DEF OnSuspend, source
    <3>2. CASE OnResumed
      BY Zenon, <1>5, <3>2 DEF OnResumed, source
    <3> QED BY Zenon, <3>1, <3>2
  <2>2. Quiet
    <3>1. CASE up' = up
      BY Zenon, <1>1, <3>1, QuietTake
    <3>2. CASE Post("source", <<Note("resume", sgen)>>)
      BY Zenon, <1>1, <3>2, QuietNote DEF IInv, TypeOK, Controls
    <3> QED BY Zenon, <2>1, <3>1, <3>2
  <2>3. sgen' \in Nat /\ susp' \in BOOLEAN
    BY <2>1 DEF IInv, TypeOK
  <2>4. TypeOK'
    BY SMTT(60), <1>2, <2>1, <2>2, <2>3
    DEF IInv, TypeOK, SourceOnly, hub, destination, peers, links, bytes, Quiet, Queues
  <2>5. WorkersCalm /\ UNCHANGED hub
    BY Zenon, <1>2, <2>1 DEF IInv, TypeOK, SourceOnly, destination, WorkersCalm, Released
  <2> QED BY Zenon, <2>2, <2>4, <2>5, QuietSteps, WorkerHandler
<1> QED BY Zenon, <1>4, <1>5

\* Whatever destroys the socket without a message of the hub.
LEMMA SourceDestroyedStep ==
  ASSUME IInv, ProcessEnds \/ SourceLifetime \/ (SourceNoticesChannel /\ rec # "open")
  PROVE  IInv'
<1>1. DestroySource(Notice) /\ down' = down /\ SourceOnly
  BY Zenon DEF ProcessEnds, SourceLifetime, SourceNoticesChannel
<1>2. down' \in Queues /\ sent' \in 0..MaxBytes /\ UNCHANGED <<hub, destination, links, got>>
  BY Zenon, <1>1, TypedQueues DEF IInv, TypeOK, SourceOnly, bytes
<1> QED BY Zenon, <1>1, <1>2, Notices, DestroyStep

LEMMA SourceNoticesChannelStep ==
  ASSUME IInv, SourceNoticesChannel
  PROVE  IInv'
<1>1. CASE rec = "open"
  <2>1. /\ deaf' \in BOOLEAN /\ UNCHANGED <<ses, flow, susp, task, rec, sgen, peers, up, down>>
        /\ SourceOnly
    BY Zenon, <1>1 DEF SourceNoticesChannel
  <2>2. Quiet
    BY Zenon, <2>1, TypedQueues DEF IInv, Quiet
  <2>3. TypeOK'
    BY SMTT(30), <2>1, <2>2 DEF IInv, TypeOK, SourceOnly, hub, destination, peers, links, bytes,
       Quiet, Queues
  <2>4. WorkersCalm /\ UNCHANGED hub
    BY Zenon, <2>1 DEF IInv, TypeOK, SourceOnly, destination, WorkersCalm, Released
  <2> QED BY Zenon, <2>2, <2>3, <2>4, QuietSteps, WorkerHandler
<1>2. CASE rec # "open"
  BY Zenon, <1>2, SourceDestroyedStep
<1> QED BY Zenon, <1>1, <1>2

\* A byte enters the relay only from a session the relay serves.
LEMMA WriteStep ==
  ASSUME IInv, Write
  PROVE  IInv'
<1> USE EndsAre
<1>1. /\ up \in Queues /\ down \in Queues /\ down' = down
      /\ sent + 1 \in 1..MaxBytes /\ sent' \in 0..MaxBytes
      /\ UNCHANGED <<hub, destination, links, got>>
  BY SMTT(30), TypedQueues, RouteConstants DEF IInv, TypeOK, Write
<1>2. CASE ses = "negotiating"
  <2>1. UNCHANGED <<source, peers, up>>
    BY Zenon, <1>2 DEF Write
  <2>2. Quiet
    BY Zenon, <1>1, <2>1 DEF Quiet
  <2>3. TypeOK'
    BY SMTT(30), <1>1, <2>1 DEF IInv, TypeOK, hub, source, destination, peers, links
  <2>4. WorkersCalm
    BY Zenon, <1>1, <2>1 DEF IInv, TypeOK, source, destination, WorkersCalm, Released
  <2> QED BY Zenon, <1>1, <2>2, <2>3, <2>4, QuietSteps, WorkerHandler
<1>3. CASE ses = "relay"
  <2> DEFINE m == Data(sent + 1)
  <2>1. Post("source", <<m>>) /\ UNCHANGED <<source, peers>>
    BY Zenon, <1>3 DEF Write
  <2>2. m \in Messages /\ m.t = "data"
    BY Zenon, <1>1 DEF Data, Messages
  <2> HIDE DEF m
  <2>3. <<m>> \in Seq(Messages) /\ \A t : Has(<<m>>, t) => m.t = t
    BY Zenon, <2>2, SingleHas
  <2>4. /\ up' \in Queues
        /\ \A y \in Ends : \A t : Has(up'[y], t) => Has(up[y], t) \/ (y = "source" /\ Has(<<m>>, t))
    BY ZenonT(30), <1>1, <2>1, <2>3, PostHas
  <2>5. TypeOK'
    BY SMTT(60), <1>1, <2>1, <2>4 DEF IInv, TypeOK, hub, source, destination, peers, links, Queues
  <2>6. UNCHANGED <<ses, rec, dst, mode, direct>>
    BY Zenon, <1>1, <2>1 DEF source, destination, hub
  <2>7. Has(up'["destination"], "committed") => Has(up["destination"], "committed")
    BY Zenon, <2>4
  <2>8. Order'
    BY Zenon, <1>1, <2>6, <2>7 DEF IInv, Order, Released
  <2>9. Exclusion'
    BY Zenon, <1>1, <1>3, <2>6 DEF IInv, Exclusion, Relaying
  <2> QED BY Zenon, <2>5, <2>8, <2>9 DEF IInv
<1>4. CASE ses = "direct" /\ rec = "committed" /\ chan = "up"
  <2>1. pipe' = Append(pipe, sent + 1) /\ UNCHANGED <<source, chan, marker, up>>
    BY Zenon, <1>4 DEF Write
  <2>2. Quiet
    BY Zenon, <1>1, <2>1 DEF Quiet
  <2>3. TypeOK'
    BY SMTT(30), <1>1, <2>1 DEF IInv, TypeOK, hub, source, destination, links
  <2>4. WorkersCalm
    BY Zenon, <1>1, <2>1 DEF IInv, TypeOK, source, destination, WorkersCalm, Released
  <2> QED BY Zenon, <1>1, <2>2, <2>3, <2>4, QuietSteps, WorkerHandler
<1>5. CASE ~(ses = "direct" /\ rec = "committed" /\ chan = "up") /\ ses \notin {"negotiating", "relay"}
  <2>1. DestroySource(<<>>)
    BY Zenon, <1>5 DEF Write
  <2> QED BY Zenon, <1>1, <2>1, Notices, DestroyStep
<1> QED BY Zenon, <1>2, <1>3, <1>4, <1>5

LEMMA SourceNoticesLinkStep ==
  ASSUME IInv, SourceNoticesLink
  PROVE  IInv'
<1>1. /\ susp' \in BOOLEAN /\ flow' \in {flow, "paused"}
      /\ ws' = [ws EXCEPT !["source"] = "down"]
      /\ UNCHANGED <<hub, ses, task, rec, deaf, sgen, destination, peers, conn, breaks, up, down, bytes>>
  BY ZenonT(30) DEF IInv, TypeOK, SourceNoticesLink
<1>2. Quiet
  BY Zenon, <1>1, TypedQueues DEF IInv, Quiet
<1>3. TypeOK'
  BY SMTT(60), <1>1, EndsAre DEF IInv, TypeOK, hub, destination, peers, bytes
<1>4. WorkersCalm /\ UNCHANGED hub
  BY Zenon, <1>1 DEF IInv, TypeOK, destination, WorkersCalm, Released
<1> QED BY Zenon, <1>2, <1>3, <1>4, QuietSteps, WorkerHandler

-----------------------------------------------------------------------------
(* The steps of the destination.                                           *)

\* The types of what its steps change.
DestinationTypes ==
  /\ dst' \in {"none", "offered", "accepting", "open", "committed", "closed"}
  /\ rel' \in {"none", "connecting", "open", "closed"} /\ dgen' \in Nat
  /\ chan' \in {"none", "up", "down"} /\ marker' \in BOOLEAN
  /\ pipe' \in Seq(1..MaxBytes) /\ got' \in Seq(1..MaxBytes)
  /\ ws' \in [Ends -> {"up", "lost", "down"}]

LEMMA DestinationHandler ==
  ASSUME IInv, Quiet, DestinationTypes, UNCHANGED <<hub, source, conn, breaks, sent>>,
         dst' = dst \/ dst \notin {"committed", "closed"} \/ dst' = "closed"
  PROVE  IInv'
<1>1. TypeOK'
  BY SMTT(30) DEF IInv, TypeOK, Quiet, DestinationTypes, hub, source, Queues
<1>2. WorkersCalm /\ UNCHANGED hub
  BY Zenon DEF IInv, TypeOK, source, WorkersCalm, Released
<1> QED BY Zenon, <1>1, <1>2, QuietSteps, WorkerHandler

LEMMA OnOfferStep ==
  ASSUME IInv, OnOffer
  PROVE  IInv'
<1> USE EndsAre
<1>1. FromHub("destination", "offer") /\ DestinationOnly /\ UNCHANGED <<rel, dgen, peers>>
  BY Zenon DEF OnOffer
<1>2. \/ Post("destination", <<Msg("ready")>>)
      \/ Post("destination", <<Msg("fallback")>>)
  BY Zenon DEF OnOffer
<1>3. Quiet
  BY Zenon, <1>1, <1>2, QuietPost DEF Controls
<1>4. dst' = dst \/ (dst = "none" /\ dst' \in {"offered", "closed"})
  BY Zenon DEF OnOffer
<1>5. DestinationTypes
  BY Zenon, <1>1, <1>4 DEF IInv, TypeOK, DestinationOnly, peers, links, bytes, DestinationTypes
<1> QED BY Zenon, <1>1, <1>3, <1>4, <1>5, DestinationHandler DEF DestinationOnly, links, bytes

LEMMA TargetStep ==
  ASSUME IInv, OfferExpires \/ AcceptChannel \/ TargetConnects \/ TargetFails
  PROVE  IInv'
<1> USE EndsAre
<1>1. /\ down' = down /\ DestinationOnly /\ UNCHANGED <<rel, dgen, pipe>>
      /\ dst \in {"offered", "accepting"} /\ dst' \in {"accepting", "open", "closed"}
      /\ chan' \in {chan, "up", "down"} /\ marker' \in {marker, TRUE}
  BY Zenon DEF OfferExpires, AcceptChannel, TargetConnects, TargetFails, ChannelCut, peers
<1>2. up' = up \/ Post("destination", <<Msg("fallback")>>)
  BY Zenon DEF OfferExpires, AcceptChannel, TargetConnects, TargetFails
<1>3. Quiet
  <2>1. CASE up' = up
    BY Zenon, <1>1, <2>1, TypedQueues DEF IInv, Quiet
  <2>2. CASE Post("destination", <<Msg("fallback")>>)
    BY Zenon, <1>1, <2>2, QuietPost DEF Controls
  <2> QED BY Zenon, <1>2, <2>1, <2>2
<1>4. DestinationTypes
  BY ZenonT(30), <1>1 DEF IInv, TypeOK, DestinationOnly, links, bytes, DestinationTypes
<1> QED BY Zenon, <1>1, <1>3, <1>4, DestinationHandler DEF DestinationOnly, links, bytes

\* The acknowledgement is sent by the step that releases the destination.
LEMMA OnDestinationCommitStep ==
  ASSUME IInv, OnDestinationCommit
  PROVE  IInv'
<1> USE EndsAre
<1>1. /\ up \in Queues /\ down \in Queues /\ FromHub("destination", "commit")
      /\ DestinationOnly /\ UNCHANGED <<rel, dgen, peers>>
  BY Zenon, TypedQueues DEF IInv, OnDestinationCommit
<1>2. down' \in Queues /\ \A y \in Ends : \A u : Has(down'[y], u) => Has(down[y], u)
  BY Zenon, <1>1, FromHubHas
<1>3. CASE dst = "open"
  <2> DEFINE ms == <<Msg("committed")>>
  <2>1. dst' = "committed" /\ Post("destination", ms)
    BY Zenon, <1>3 DEF OnDestinationCommit
  <2>2. ms \in Seq(Messages) /\ \A t : Has(ms, t) => t = "committed"
    BY Zenon, NoticeHas DEF Controls
  <2> HIDE DEF ms
  <2>3. /\ up' \in Queues
        /\ \A y \in Ends : \A t : Has(up'[y], t) => Has(up[y], t) \/ (y = "destination" /\ Has(ms, t))
    BY Zenon, <1>1, <2>1, <2>2, PostHas
  <2>4. TypeOK'
    BY SMTT(30), <1>1, <1>2, <2>1, <2>3
    DEF IInv, TypeOK, DestinationOnly, hub, source, peers, links, bytes, Queues
  <2>5. Order'
    BY Zenon, <2>1 DEF Order, Released
  <2>6. UNCHANGED <<ses, rec, mode, direct>>
    BY Zenon, <1>1 DEF DestinationOnly, hub, source
  <2>7. Has(up'["source"], "data") => Has(up["source"], "data")
    BY Zenon, <2>3
  <2>8. Exclusion'
    BY Zenon, <1>2, <2>6, <2>7 DEF IInv, Exclusion, Relaying
  <2> QED BY Zenon, <2>4, <2>5, <2>8 DEF IInv
<1>4. CASE dst # "open"
  <2>1. UNCHANGED <<dst, up>>
    BY Zenon, <1>4 DEF OnDestinationCommit
  <2>2. Quiet
    BY Zenon, <1>1, <2>1, QuietTake
  <2>3. DestinationTypes
    BY Zenon, <1>1, <2>1 DEF IInv, TypeOK, DestinationOnly, peers, links, bytes, DestinationTypes
  <2> QED BY Zenon, <1>1, <2>1, <2>2, <2>3, DestinationHandler DEF DestinationOnly, links, bytes
<1> QED BY Zenon, <1>3, <1>4

LEMMA FinishStep ==
  ASSUME IInv, FinishDestination, DestinationOnly, down' \in Queues,
         \A y \in Ends : \A u : Has(down'[y], u) => Has(down[y], u)
  PROVE  IInv'
<1> USE EndsAre
<1>1. /\ dst' = "closed" /\ chan' \in {chan, "down"} /\ UNCHANGED <<rel, dgen, marker, pipe>>
  BY Zenon DEF FinishDestination, ChannelCut
<1> DEFINE ms == IF dst = "committed" THEN <<Msg("closed")>> ELSE <<>>
<1>2. /\ <<Msg("closed")>> \in Seq(Messages) /\ <<>> \in Seq(Messages)
      /\ \A t : (Has(<<Msg("closed")>>, t) => t = "closed") /\ ~Has(<<>>, t)
  BY Zenon, NoticeHas DEF Controls
<1>3. ms \in Seq(Messages) /\ \A t : Has(ms, t) => t = "closed"
  BY Zenon, <1>2
<1>4. Post("destination", ms)
  BY Zenon DEF FinishDestination
<1> HIDE DEF ms
<1>5. up \in Queues
  BY Zenon, TypedQueues DEF IInv
<1>6. /\ up' \in Queues
      /\ \A y \in Ends : \A t : Has(up'[y], t) => Has(up[y], t) \/ (y = "destination" /\ Has(ms, t))
  BY Zenon, <1>3, <1>4, <1>5, PostHas
<1>7. Quiet
  BY ZenonT(60), <1>3, <1>6 DEF Quiet
<1>8. DestinationTypes
  BY Zenon, <1>1 DEF IInv, TypeOK, DestinationOnly, links, bytes, DestinationTypes
<1> QED BY Zenon, <1>1, <1>7, <1>8, DestinationHandler DEF DestinationOnly, links, bytes

LEMMA OnDestinationCancelStep ==
  ASSUME IInv, OnDestinationCancel
  PROVE  IInv'
<1> USE EndsAre
<1>1. down \in Queues /\ FromHub("destination", "cancel") /\ DestinationOnly
  BY Zenon, TypedQueues DEF IInv, OnDestinationCancel
<1>2. down' \in Queues /\ \A y \in Ends : \A u : Has(down'[y], u) => Has(down[y], u)
  BY Zenon, <1>1, FromHubHas
<1>3. CASE dst \in {"open", "committed"}
  <2>1. FinishDestination
    BY Zenon, <1>3 DEF OnDestinationCancel
  <2> QED BY Zenon, <1>1, <1>2, <2>1, FinishStep
<1>4. CASE dst \notin {"open", "committed"}
  <2>1. /\ UNCHANGED <<rel, dgen, peers, up>>
        /\ dst' = dst \/ (dst = "offered" /\ dst' = "closed")
    BY Zenon, <1>4 DEF OnDestinationCancel, destination
  <2>2. Quiet
    BY Zenon, <1>1, <2>1, QuietTake
  <2>3. DestinationTypes
    BY Zenon, <1>1, <2>1 DEF IInv, TypeOK, DestinationOnly, peers, links, bytes, DestinationTypes
  <2> QED BY Zenon, <1>1, <2>1, <2>2, <2>3, DestinationHandler DEF DestinationOnly, links, bytes
<1> QED BY Zenon, <1>3, <1>4

LEMMA DestinationEndsStep ==
  ASSUME IInv, DestinationNoticesChannel \/ DestinationLifetime \/ TargetCloses
  PROVE  IInv'
<1>1. FinishDestination /\ DestinationOnly /\ down' = down
  BY Zenon DEF DestinationNoticesChannel, DestinationLifetime, TargetCloses
<1> QED BY Zenon, <1>1, TypedQueues, FinishStep DEF IInv

LEMMA ReceiveByteStep ==
  ASSUME IInv, ReceiveByte
  PROVE  IInv'
<1>1. /\ pipe # <<>> /\ pipe' = Tail(pipe)
      /\ got' = got \/ got' = Append(got, Head(pipe))
      /\ dst' = dst \/ (dst = "open" /\ dst' = "closed")
      /\ chan' \in {chan, "down"}
      /\ UNCHANGED <<hub, source, rel, dgen, marker, links, up, down, sent>>
  BY Zenon DEF ReceiveByte, ChannelCut
<1>2. Quiet
  BY Zenon, <1>1, TypedQueues DEF IInv, Quiet
<1>3. pipe \in Seq(1..MaxBytes) /\ got \in Seq(1..MaxBytes)
  BY Zenon DEF IInv, TypeOK
<1>4. pipe' \in Seq(1..MaxBytes) /\ got' \in Seq(1..MaxBytes)
  BY SMTT(30), <1>1, <1>3
<1>5. DestinationTypes
  BY Zenon, <1>1, <1>4 DEF IInv, TypeOK, links, DestinationTypes
<1> QED BY Zenon, <1>1, <1>2, <1>5, DestinationHandler DEF links

LEMMA RelaySessionStep ==
  ASSUME IInv, OnRelayOpen \/ OnDestinationTerminal \/ RelayConnects \/ RelayFails
  PROVE  IInv'
<1> USE EndsAre
<1>1. /\ rel' \in {rel, "connecting", "open", "closed"} /\ UNCHANGED <<dst, dgen, peers>>
      /\ DestinationOnly
  BY Zenon DEF OnRelayOpen, OnDestinationTerminal, RelayConnects, RelayFails
<1>2. Quiet
  <2>1. CASE OnRelayOpen
    BY Zenon, <2>1, QuietTake DEF OnRelayOpen
  <2>2. CASE OnDestinationTerminal
    BY Zenon, <2>2, QuietTake DEF OnDestinationTerminal
  <2>3. CASE RelayConnects
    BY Zenon, <2>3, QuietNote DEF RelayConnects, Controls, IInv, TypeOK
  <2>4. CASE RelayFails
    BY Zenon, <2>4, QuietPost DEF RelayFails, Controls
  <2> QED BY Zenon, <2>1, <2>2, <2>3, <2>4
<1>3. DestinationTypes
  BY Zenon, <1>1 DEF IInv, TypeOK, DestinationOnly, peers, links, bytes, DestinationTypes
<1> QED BY Zenon, <1>1, <1>2, <1>3, DestinationHandler DEF DestinationOnly, links, bytes

LEMMA RelayRecoveryStep ==
  ASSUME IInv, OnRelaySuspend \/ OnRelayResumed
  PROVE  IInv'
<1> USE EndsAre
<1>1. PICK t \in {"suspend", "resumed"} : FromHub("destination", t)
  BY Zenon DEF OnRelaySuspend, OnRelayResumed
<1>2. /\ rel' \in {rel, "closed"} /\ dgen' \in {dgen, dgen + 1} /\ UNCHANGED <<dst, peers>>
      /\ DestinationOnly
      /\ \/ up' = up \/ Post("destination", <<Note("resume", dgen)>>)
         \/ Post("destination", <<Msg("end")>>)
  <2>1. CASE OnRelaySuspend
    BY Zenon, <2>1 DEF OnRelaySuspend, CloseRelay
  <2>2. CASE OnRelayResumed
    BY Zenon, <2>2 DEF OnRelayResumed, CloseRelay
  <2> QED BY Zenon, <2>1, <2>2
<1>3. Quiet
  <2>1. CASE up' = up
    BY Zenon, <1>1, <2>1, QuietTake
  <2>2. CASE Post("destination", <<Note("resume", dgen)>>)
    BY Zenon, <1>1, <2>2, QuietNote DEF IInv, TypeOK, Controls
  <2>3. CASE Post("destination", <<Msg("end")>>)
    BY Zenon, <1>1, <2>3, QuietPost DEF Controls
  <2> QED BY Zenon, <1>2, <2>1, <2>2, <2>3
<1>4. dgen' \in Nat
  BY <1>2 DEF IInv, TypeOK
<1>5. DestinationTypes
  BY Zenon, <1>2, <1>4 DEF IInv, TypeOK, DestinationOnly, peers, links, bytes, DestinationTypes
<1> QED BY Zenon, <1>2, <1>3, <1>5, DestinationHandler DEF DestinationOnly, links, bytes

LEMMA OnRelayDataStep ==
  ASSUME IInv, OnRelayData
  PROVE  IInv'
<1> USE EndsAre
<1> DEFINE m == Head(down["destination"])
<1>1. /\ down \in Queues /\ FromHub("destination", "data")
      /\ got' = got \/ got' = Append(got, m.n)
      /\ UNCHANGED <<hub, source, destination, peers, links, up, sent>>
  BY Zenon, TypedQueues DEF IInv, OnRelayData
<1>2. Quiet
  BY Zenon, <1>1, QuietTake
<1>3. m \in Messages /\ m.t = "data"
  BY Zenon, <1>1, FromHubHas
<1> HIDE DEF m
<1>4. m.n \in 1..MaxBytes
  BY Zenon, <1>3 DEF Messages
<1>a. got \in Seq(1..MaxBytes)
  BY Zenon DEF IInv, TypeOK
<1> DEFINE n == m.n
<1> HIDE DEF n
<1>b. n \in 1..MaxBytes /\ (got' = got \/ got' = Append(got, n))
  BY Zenon, <1>1, <1>4 DEF n
<1>5. got' \in Seq(1..MaxBytes)
  <2> DEFINE S == 1..MaxBytes
  <2>1. got \in Seq(S) /\ n \in S
    BY Zenon, <1>a, <1>b
  <2> HIDE DEF S
  <2>2. Append(got, n) \in Seq(S)
    BY SMTT(60), <2>1
  <2> QED BY ZenonT(30), <1>b, <2>1, <2>2 DEF S
<1>6. DestinationTypes
  BY Zenon, <1>1, <1>5 DEF IInv, TypeOK, destination, peers, links, DestinationTypes
<1> QED BY Zenon, <1>1, <1>2, <1>6, DestinationHandler DEF destination, links

LEMMA DestinationNoticesLinkStep ==
  ASSUME IInv, DestinationNoticesLink
  PROVE  IInv'
<1>1. Quiet
  BY Zenon, TypedQueues DEF IInv, DestinationNoticesLink, Quiet
<1>2. DestinationTypes
  BY ZenonT(60) DEF IInv, TypeOK, DestinationNoticesLink, destination, peers, bytes, DestinationTypes
<1> QED BY Zenon, <1>1, <1>2, DestinationHandler DEF DestinationNoticesLink, destination, bytes

-----------------------------------------------------------------------------
(* The networks.                                                           *)

LEMMA BreakStep ==
  ASSUME IInv, NEW x \in Ends, Break(x)
  PROVE  IInv'
<1>1. up \in Queues /\ down \in Queues
  BY Zenon, TypedQueues DEF IInv
<1>2. PICK u \in Prefixes(up[x]), d \in Prefixes(down[x]) :
        up' = [up EXCEPT ![x] = u] /\ down' = [down EXCEPT ![x] = d]
  BY ZenonT(30) DEF Break
<1>3. /\ u \in Seq(Messages) /\ \A t : Has(u, t) => Has(up[x], t)
      /\ d \in Seq(Messages) /\ \A t : Has(d, t) => Has(down[x], t)
  BY Zenon, <1>1, PrefixHas DEF Queues
<1>4. /\ up' \in Queues /\ up'[x] = u /\ \A y \in Ends : y # x => up'[y] = up[y]
      /\ down' \in Queues /\ down'[x] = d /\ \A y \in Ends : y # x => down'[y] = down[y]
  BY Zenon, <1>1, <1>2, <1>3 DEF Queues
<1>5. Quiet
  BY Zenon, <1>3, <1>4 DEF Quiet
<1>6. TypeOK'
  BY SMTT(30), <1>4, RouteConstants
  DEF IInv, TypeOK, Break, hub, source, destination, peers, bytes, Queues
<1>7. WorkersCalm /\ UNCHANGED hub
  BY Zenon DEF IInv, TypeOK, Break, source, destination, WorkersCalm, Released
<1> QED BY Zenon, <1>5, <1>6, <1>7, QuietSteps, WorkerHandler

LEMMA RejoinStep ==
  ASSUME IInv, NEW x \in Ends, Rejoin(x)
  PROVE  IInv'
<1>1. up \in Queues /\ down \in Queues
  BY Zenon, TypedQueues DEF IInv
<1>2. Quiet
  <2>1. PICK ms \in {<<Note("resume", sgen)>>, <<Note("resume", dgen)>>, <<>>} :
          up' = [up EXCEPT ![x] = @ \o ms]
    BY Zenon DEF Rejoin
  <2>2. ms \in Seq(Messages) /\ \A t : Has(ms, t) => t = "resume"
    <3>1. \A g \in Nat : Note("resume", g) \in Messages /\ Note("resume", g).t = "resume"
      BY Zenon, NoteType DEF Controls
    <3>2. \A g \in Nat : /\ <<Note("resume", g)>> \in Seq(Messages)
                         /\ \A t : Has(<<Note("resume", g)>>, t) => t = "resume"
      BY Zenon, <3>1, SingleHas
    <3>3. <<>> \in Seq(Messages) /\ \A t : ~Has(<<>>, t)
      BY DEF Has
    <3> QED BY Zenon, <2>1, <3>2, <3>3 DEF IInv, TypeOK
    <2>3. up[x] \o ms \in Seq(Messages) /\ \A t : Has(up[x] \o ms, t) => Has(up[x], t) \/ Has(ms, t)
    BY Zenon, <1>1, <2>2, ConcatHas DEF Queues
  <2>4. /\ up' \in Queues /\ up'[x] = up[x] \o ms
        /\ \A y \in Ends : y # x => up'[y] = up[y]
    BY Zenon, <1>1, <2>1, <2>3 DEF Queues
  <2> QED BY Zenon, <1>1, <2>2, <2>3, <2>4 DEF Rejoin, Quiet
<1>3. TypeOK'
  BY SMTT(30), <1>2 DEF IInv, TypeOK, Rejoin, hub, source, destination, peers, bytes, Quiet, Queues
<1>4. WorkersCalm /\ UNCHANGED hub
  BY Zenon DEF IInv, TypeOK, Rejoin, source, destination, WorkersCalm, Released
<1> QED BY Zenon, <1>2, <1>3, <1>4, QuietSteps, WorkerHandler

LEMMA ChannelBreaksStep ==
  ASSUME IInv, ChannelBreaks
  PROVE  IInv'
<1>1. Quiet
  BY Zenon, TypedQueues DEF IInv, ChannelBreaks, Quiet
<1>2. DestinationTypes
  BY Zenon DEF IInv, TypeOK, ChannelBreaks, destination, links, bytes, DestinationTypes
<1> QED BY Zenon, <1>1, <1>2, DestinationHandler DEF ChannelBreaks, destination, links, bytes

-----------------------------------------------------------------------------
LEMMA RouteInit ==
  ASSUME Init
  PROVE  IInv
<1>1. <<Msg("open")>> \in Seq(Messages) /\ <<>> \in Seq(Messages)
      /\ \A t : (Has(<<Msg("open")>>, t) => t = "open") /\ ~Has(<<>>, t)
  BY Zenon, NoticeHas, ControlsAre
<1>2. /\ up \in Queues /\ down \in Queues
      /\ up["source"] = <<Msg("open")>> /\ up["destination"] = <<>>
      /\ down["source"] = <<>> /\ down["destination"] = <<>>
  BY Zenon, <1>1 DEF Init, Queues, Ends
<1>3. TypeOK
  <2>1. /\ mode = "none" /\ direct = "null" /\ ses = "negotiating" /\ flow = "paused"
        /\ task = "idle" /\ rec = "none" /\ dst = "none" /\ rel = "none" /\ chan = "none"
        /\ ws = [x \in Ends |-> "up"] /\ conn = [x \in Ends |-> "up"]
    BY Zenon DEF Init
  <2>2. pipe \in Seq(1..MaxBytes) /\ got \in Seq(1..MaxBytes)
    BY DEF Init
  <2>3. sent \in 0..MaxBytes /\ breaks \in 0..MaxBreaks
    BY RouteConstants DEF Init
  <2>4. {opened, susp, deaf, marker} \subseteq BOOLEAN
    BY Zenon DEF Init
  <2>5. gen \in Nat /\ sgen \in Nat /\ dgen \in Nat /\ reports \subseteq Ends
    BY DEF Init
  <2> QED BY Zenon, <1>2, <2>1, <2>2, <2>3, <2>4, <2>5 DEF TypeOK, Queues
<1>4. Order /\ Exclusion
  BY Zenon, <1>1, <1>2 DEF Init, Order, Exclusion
<1> QED BY Zenon, <1>3, <1>4 DEF IInv

LEMMA RouteStep ==
  ASSUME IInv, [Next]_vars
  PROVE  IInv'
<1>1. CASE HubStep
  BY <1>1, OnOpenStep, OnReadyStep, OnEstablishedStep, OnCommittedStep, OnOpenedStep, OnDataStep,
     OnResumeStep, OnFallbackStep, OnClosedStep, OnTerminalStep, HubNoticesStep, Zenon DEF HubStep
<1>2. CASE SourceStep
  BY <1>2, OnConnectStep, MarkerArrivesStep, OnSourceCommitStep, OnSourceCancelStep,
     OnRelayOpenedStep, OnSourceTerminalStep, OnSuspendStep, SourceNoticesChannelStep,
     SourceNoticesLinkStep, Zenon DEF SourceStep
<1>3. CASE DestinationStep
  BY <1>3, OnOfferStep, OnDestinationCommitStep, OnDestinationCancelStep, DestinationEndsStep,
     ReceiveByteStep, RelaySessionStep, OnRelayDataStep, RelayRecoveryStep,
     DestinationNoticesLinkStep, Zenon
  DEF DestinationStep
<1>4. CASE Timers
  BY <1>4, TimerStep, DialFailsStep, MarkerFailsStep, SourceDestroyedStep, TargetStep,
     RelaySessionStep, DestinationEndsStep, Zenon DEF Timers
<1>5. CASE Environment
  BY <1>5, DialSucceedsStep, SourceDestroyedStep, WriteStep, TargetStep, DestinationEndsStep,
     RelaySessionStep, ChannelBreaksStep, BreakStep, RejoinStep, Zenon DEF Environment
<1>6. CASE UNCHANGED vars
  <2>1. Quiet
    BY Zenon, <1>6, TypedQueues DEF IInv, Quiet, vars
  <2>2. DestinationTypes
    BY Zenon, <1>6 DEF IInv, TypeOK, vars, destination, peers, links, bytes, DestinationTypes
  <2> QED BY Zenon, <1>6, <2>1, <2>2, DestinationHandler DEF vars, destination, links, bytes
<1> QED BY Zenon, <1>1, <1>2, <1>3, <1>4, <1>5, <1>6 DEF Next

\* The releases of the two peers are ordered by messages, and the hub's mode
\* excludes the other route, in every reachable state.
THEOREM RouteInvariant == Spec => []IInv
<1>1. Init => IInv
  BY Zenon, RouteInit
<1>2. IInv /\ [Next]_vars => IInv'
  BY Zenon, RouteStep
<1> QED BY <1>1, <1>2, PTL DEF Spec

\* The states of the hub, of the workers and of their queues keep their types,
\* and the hub has a direct state exactly while it negotiates or is direct.
THEOREM RouteTypeCorrect == Spec => []TypeOK
<1>1. IInv => TypeOK
  BY Zenon DEF IInv
<1> QED BY <1>1, RouteInvariant, PTL

\* The source is released after the destination, whatever is lost or late.
THEOREM SourceIsReleasedLast == Spec => []SourceFollowsDestination
<1>1. IInv => SourceFollowsDestination
  BY Zenon DEF IInv, Order, Released, SourceFollowsDestination
<1> QED BY <1>1, RouteInvariant, PTL

\* No late answer of an abandoned negotiation releases a socket that the relay
\* serves.
THEOREM RoutesExclude == Spec => []OneRoute
<1>1. IInv => OneRoute
  BY Zenon DEF IInv, Exclusion, OneRoute
<1> QED BY <1>1, RouteInvariant, PTL

-----------------------------------------------------------------------------
(* The order of the bytes.  Every byte has a number, and the numbers on    *)
(* the way to the target go on from what the target has.                   *)

\* At most one message of q opens a relay session.
Once(q) == \A i, j \in DOMAIN q : q[i].t = "open" /\ q[j].t = "open" => i = j

\* The bytes on their way in q are those from a + 1 to b, in this order.
Run(q, a, b) ==
  /\ \A i \in DOMAIN q : q[i].t = "data" => q[i].n \in (a + 1)..b
  /\ \A n \in (a + 1)..b : \E i \in DOMAIN q : q[i].t = "data" /\ q[i].n = n
  /\ \A i, j \in DOMAIN q : i < j /\ q[i].t = "data" /\ q[j].t = "data" => q[i].n < q[j].n

\* Queue q comes from p by taking messages that are no bytes, and by sending
\* messages of the kinds of T.
Grows(p, q, T) ==
  /\ \A t : Has(q, t) => Has(p, t) \/ t \in T
  /\ "open" \notin T /\ Once(p) => Once(q)
  /\ "data" \notin T => \A a, b \in Nat : Run(p, a, b) => Run(q, a, b)

\* The messages that neither move bytes nor choose a route.
Plain == Controls \ {"open", "opened", "commit"}
Calm == Plain \cup {"resumed"}

LEMMA GrowsSame ==
  ASSUME NEW p, NEW T
  PROVE  Grows(p, p, T)
BY Zenon DEF Grows

LEMMA GrowsOn ==
  ASSUME NEW p, NEW q, NEW r, NEW T, Grows(p, q, T), Grows(q, r, T)
  PROVE  Grows(p, r, T)
BY Zenon DEF Grows

LEMMA GrowsMore ==
  ASSUME NEW p, NEW q, NEW S, NEW T, Grows(p, q, S), S \subseteq T
  PROVE  Grows(p, q, T)
BY Zenon DEF Grows

\* A message that is no byte is taken.
LEMMA GrowsTail ==
  ASSUME NEW q \in Seq(Messages), q # <<>>, Head(q).t # "data", NEW T
  PROVE  Grows(q, Tail(q), T)
<1> DEFINE r == Tail(q)
<1>1. /\ r \in Seq(Messages) /\ Len(q) \in Nat /\ Len(q) > 0 /\ DOMAIN q = 1..Len(q)
      /\ DOMAIN r = 1..(Len(q) - 1) /\ q[1] = Head(q)
      /\ \A i \in DOMAIN r : i + 1 \in DOMAIN q /\ r[i] = q[i + 1]
      /\ \A i \in DOMAIN q : i # 1 => i - 1 \in DOMAIN r /\ r[i - 1] = q[i]
  OBVIOUS
<1>2. \A t : Has(r, t) => Has(q, t)
  BY Zenon, <1>1 DEF Has
<1> HIDE DEF r
<1>3. ASSUME Once(q) PROVE Once(r)
  <2> SUFFICES ASSUME NEW i \in DOMAIN r, NEW j \in DOMAIN r, r[i].t = "open", r[j].t = "open"
               PROVE  i = j
    BY Zenon DEF Once
  <2>1. i + 1 = j + 1
    <3>1. i + 1 \in DOMAIN q /\ q[i + 1].t = "open" /\ j + 1 \in DOMAIN q /\ q[j + 1].t = "open"
      <4>1. \A k \in DOMAIN r : k + 1 \in DOMAIN q /\ r[k] = q[k + 1]
        BY Zenon, <1>1
      <4> QED BY Zenon, <4>1
    <3> QED BY Zenon, <1>3, <3>1 DEF Once
  <2> QED BY <1>1, <2>1
<1>4. ASSUME NEW a \in Nat, NEW b \in Nat, Run(q, a, b) PROVE Run(r, a, b)
  <2>1. \A i \in DOMAIN r : r[i].t = "data" => r[i].n \in (a + 1)..b
    BY <1>1, <1>4 DEF Run
  <2>2. ASSUME NEW n \in (a + 1)..b PROVE \E i \in DOMAIN r : r[i].t = "data" /\ r[i].n = n
    <3>1. PICK i \in DOMAIN q : q[i].t = "data" /\ q[i].n = n
      BY Zenon, <1>4 DEF Run
    <3>2. i # 1
      BY Zenon, <1>1, <3>1
    <3> QED BY Zenon, <1>1, <3>1, <3>2
  <2>3. ASSUME NEW i \in DOMAIN r, NEW j \in DOMAIN r, i < j, r[i].t = "data", r[j].t = "data"
        PROVE  r[i].n < r[j].n
    <3>1. i + 1 < j + 1
      BY <1>1, <2>3
    <3> QED BY <1>1, <1>4, <2>3, <3>1 DEF Run
  <2> QED BY Zenon, <2>1, <2>2, <2>3 DEF Run
<1> QED BY Zenon, <1>2, <1>3, <1>4 DEF Grows, r

\* Messages of the kinds of T are sent.
LEMMA GrowsSent ==
  ASSUME NEW q \in Seq(Messages), NEW ms \in Seq(Messages), NEW T, \A t : Has(ms, t) => t \in T
  PROVE  Grows(q, q \o ms, T)
<1> DEFINE r == q \o ms
<1>1. /\ r \in Seq(Messages) /\ Len(q) \in Nat /\ DOMAIN q = 1..Len(q) /\ DOMAIN ms = 1..Len(ms)
      /\ \A i \in DOMAIN q : i \in DOMAIN r /\ r[i] = q[i]
      /\ \A i \in DOMAIN r : i \notin DOMAIN q => i - Len(q) \in DOMAIN ms /\ r[i] = ms[i - Len(q)]
  OBVIOUS
<1>2. \A i \in DOMAIN r : i \notin DOMAIN q => r[i].t \in T
  BY Zenon, <1>1 DEF Has
<1> HIDE DEF r
<1>3. \A t : Has(r, t) => Has(q, t) \/ t \in T
  BY Zenon, <1>1, <1>2 DEF Has
<1>4. ASSUME "open" \notin T, Once(q) PROVE Once(r)
  BY Zenon, <1>1, <1>2, <1>4 DEF Once
<1>5. ASSUME "data" \notin T, NEW a \in Nat, NEW b \in Nat, Run(q, a, b) PROVE Run(r, a, b)
  <2>1. \A i \in DOMAIN r : r[i].t = "data" => i \in DOMAIN q /\ r[i] = q[i]
    BY Zenon, <1>1, <1>2, <1>5
  <2> QED BY Zenon, <1>1, <1>5, <2>1 DEF Run
<1> QED BY Zenon, <1>3, <1>4, <1>5 DEF Grows, r

LEMMA GrowsAppend ==
  ASSUME NEW q \in Seq(Messages), NEW m \in Messages, NEW T, m.t \in T
  PROVE  Append(q, m) \in Seq(Messages) /\ Grows(q, Append(q, m), T)
<1>1. Append(q, m) = q \o <<m>> /\ Append(q, m) \in Seq(Messages) /\ <<m>> \in Seq(Messages)
  OBVIOUS
<1>2. \A t : Has(<<m>>, t) => t \in T
  BY Zenon, SingleHas
<1> QED BY Zenon, <1>1, <1>2, GrowsSent

\* No bytes are on their way.
LEMMA RunEmpty ==
  ASSUME NEW q, ~Has(q, "data"), NEW a \in Nat
  PROVE  Run(q, a, a)
<1>1. (a + 1)..a = {}
  OBVIOUS
<1> QED BY Zenon, <1>1 DEF Run, Has

\* A byte is taken: it is the first of those on their way.
LEMMA RunTaken ==
  ASSUME NEW q \in Seq(Messages), q # <<>>, Head(q).t = "data",
         NEW a \in Nat, NEW b \in Nat, Run(q, a, b)
  PROVE  Head(q).n = a + 1 /\ Run(Tail(q), a + 1, b)
<1> DEFINE r == Tail(q)
<1>1. /\ r \in Seq(Messages) /\ Len(q) \in Nat /\ Len(q) > 0 /\ DOMAIN q = 1..Len(q)
      /\ DOMAIN r = 1..(Len(q) - 1) /\ q[1] = Head(q) /\ 1 \in DOMAIN q
      /\ \A i \in DOMAIN r : i + 1 \in DOMAIN q /\ r[i] = q[i + 1] /\ 1 < i + 1
      /\ \A i \in DOMAIN q : i # 1 => i - 1 \in DOMAIN r /\ r[i - 1] = q[i] /\ 1 < i
  OBVIOUS
<1> HIDE DEF r
<1>2. Head(q).n \in (a + 1)..b
  BY Zenon, <1>1 DEF Run
<1>3. a + 1 \in (a + 1)..b
  BY <1>2
<1>4. PICK k \in DOMAIN q : q[k].t = "data" /\ q[k].n = a + 1
  BY Zenon, <1>3 DEF Run
<1>a. \A i, j \in DOMAIN q : i < j /\ q[i].t = "data" /\ q[j].t = "data" => q[i].n < q[j].n
  BY Zenon DEF Run
<1>b. q[1].t = "data" /\ q[1].n = Head(q).n
  BY Zenon, <1>1
<1>5. ASSUME k # 1 PROVE Head(q).n < a + 1
  <2>1. 1 \in DOMAIN q /\ 1 < k
    BY Zenon, <1>1, <1>5
  <2>2. q[1].n < q[k].n
    BY Zenon, <1>a, <1>b, <1>4, <2>1
  <2> QED BY Zenon, <1>b, <1>4, <2>2
<1>6. Head(q).n = a + 1
  <2>1. CASE k = 1
    BY Zenon, <1>1, <1>4, <2>1
  <2>2. CASE k # 1
    BY <1>2, <1>5, <2>2
  <2> QED BY Zenon, <2>1, <2>2
<1>7. ASSUME NEW i \in DOMAIN r, r[i].t = "data" PROVE r[i].n \in (a + 2)..b
  <2>a. i + 1 \in DOMAIN q /\ r[i] = q[i + 1] /\ 1 < i + 1 /\ 1 \in DOMAIN q
    BY Zenon, <1>1
  <2>b. q[i + 1].t = "data" /\ q[i + 1].n = r[i].n
    BY Zenon, <1>7, <2>a
  <2>c. q[1].n < q[i + 1].n
    BY Zenon, <1>a, <1>b, <2>a, <2>b
  <2>d. q[i + 1].n \in (a + 1)..b
    BY Zenon, <2>a, <2>b DEF Run
  <2>1. r[i].n \in (a + 1)..b /\ Head(q).n < r[i].n
    BY Zenon, <1>b, <2>b, <2>c, <2>d
  <2> QED BY <1>6, <2>1
<1>8. ASSUME NEW n \in (a + 2)..b PROVE \E i \in DOMAIN r : r[i].t = "data" /\ r[i].n = n
  <2>1. n \in (a + 1)..b /\ n # a + 1
    BY <1>8
  <2>2. PICK i \in DOMAIN q : q[i].t = "data" /\ q[i].n = n
    BY Zenon, <2>1 DEF Run
  <2>3. i # 1
    BY Zenon, <1>1, <1>6, <2>1, <2>2
  <2> QED BY Zenon, <1>1, <2>2, <2>3
<1>9. ASSUME NEW i \in DOMAIN r, NEW j \in DOMAIN r, i < j, r[i].t = "data", r[j].t = "data"
      PROVE  r[i].n < r[j].n
  <2>1. i + 1 < j + 1
    BY <1>1, <1>9
  <2> QED BY <1>1, <1>9, <2>1 DEF Run
<1>10. (a + 1) + 1 = a + 2
  OBVIOUS
<1> QED BY Zenon, <1>6, <1>7, <1>8, <1>9, <1>10 DEF Run, r

\* A byte is sent: it is the next.
LEMMA RunSent ==
  ASSUME NEW q \in Seq(Messages), NEW a \in Nat, NEW b \in Nat, a <= b, NEW m \in Messages,
         m.t = "data", m.n = b + 1, Run(q, a, b)
  PROVE  Run(Append(q, m), a, b + 1)
<1> DEFINE r == Append(q, m)
           k == Len(q) + 1
<1>1. /\ DOMAIN q = 1..Len(q) /\ Len(q) \in Nat /\ k \in DOMAIN r /\ r[k] = m
      /\ \A i \in DOMAIN r : (i \in DOMAIN q /\ r[i] = q[i] /\ i < k) \/ i = k
      /\ \A i \in DOMAIN q : i \in DOMAIN r /\ r[i] = q[i]
      /\ \A i \in DOMAIN r : ~(k < i)
  OBVIOUS
<1> HIDE DEF r, k
<1>2. \A n \in (a + 1)..b : n \in (a + 1)..(b + 1) /\ n < b + 1
  OBVIOUS
<1>3. \A n \in (a + 1)..(b + 1) : n \in (a + 1)..b \/ n = b + 1
  OBVIOUS
<1>4. b + 1 \in (a + 1)..(b + 1)
  OBVIOUS
<1>5. \A i \in DOMAIN r : r[i].t = "data" => r[i].n \in (a + 1)..(b + 1)
  BY <1>1, <1>2, <1>4 DEF Run
<1>6. \A n \in (a + 1)..(b + 1) : \E i \in DOMAIN r : r[i].t = "data" /\ r[i].n = n
  BY <1>1, <1>3 DEF Run
<1>7. ASSUME NEW i \in DOMAIN r, NEW j \in DOMAIN r, i < j, r[i].t = "data", r[j].t = "data"
      PROVE  r[i].n < r[j].n
  <2>1. i # k
    BY Zenon, <1>1, <1>7
  <2>2. i \in DOMAIN q /\ r[i] = q[i]
    BY Zenon, <1>1, <2>1
  <2>3. CASE j = k
    BY <1>1, <1>2, <1>7, <2>2, <2>3 DEF Run
  <2>4. CASE j # k
    BY <1>1, <1>7, <2>2, <2>4 DEF Run
  <2> QED BY Zenon, <2>3, <2>4
<1> QED BY Zenon, <1>5, <1>6, <1>7 DEF Run, r

\* Every set of numbers has a least one.
LEMMA LeastNumber ==
  ASSUME NEW S, S \subseteq Nat, S # {}
  PROVE  \E m \in S : \A y \in S : m <= y
<1> DEFINE R == OpToRel(<, Nat)
<1>1. IsWellFoundedOn(R, Nat)
  BY Zenon, NatLessThanWellFounded
<1>2. \A y, m \in Nat : y < m => <<y, m>> \in R
  BY DEF OpToRel
<1> HIDE DEF R
<1>3. PICK m \in S : \A y \in S : ~(<<y, m>> \in R)
  BY Zenon, <1>1, WFMin
<1>4. \A y \in S : ~(y < m)
  BY Zenon, <1>2, <1>3
<1> QED BY <1>4

\* The end of a queue is lost: the bytes that remain are the first ones.
LEMMA RunPrefix ==
  ASSUME NEW q \in Seq(Messages), NEW p \in Prefixes(q),
         NEW a \in Nat, NEW b \in Nat, a <= b, Run(q, a, b)
  PROVE  \E e \in Nat : a <= e /\ e <= b /\ Run(p, a, e)
<1>1. PICK k \in 0..Len(q) : p = SubSeq(q, 1, k)
  BY Zenon DEF Prefixes
<1>2. /\ k \in Nat /\ DOMAIN q \subseteq Nat
      /\ \A i \in DOMAIN p : i \in DOMAIN q /\ ~(k < i) /\ p[i] = q[i]
      /\ \A i \in DOMAIN q : ~(k < i) => i \in DOMAIN p /\ p[i] = q[i]
  BY <1>1
<1> HIDE DEF Run
<1>3. /\ \A i \in DOMAIN q : q[i].t = "data" => q[i].n \in (a + 1)..b
      /\ \A n \in (a + 1)..b : \E i \in DOMAIN q : q[i].t = "data" /\ q[i].n = n
      /\ \A i, j \in DOMAIN q : i < j /\ q[i].t = "data" /\ q[j].t = "data" => q[i].n < q[j].n
  BY Zenon DEF Run
<1>4. \A i, j \in DOMAIN p : i < j /\ p[i].t = "data" /\ p[j].t = "data" => p[i].n < p[j].n
  BY Zenon, <1>2, <1>3
<1> DEFINE Lost(n) == \E i \in DOMAIN q : k < i /\ q[i].t = "data" /\ q[i].n = n
           S == {n \in (a + 1)..b : Lost(n)}
<1>5. CASE S = {}
  <2>1. \A n \in (a + 1)..b : \E i \in DOMAIN p : p[i].t = "data" /\ p[i].n = n
    BY Zenon, <1>2, <1>3, <1>5
  <2>2. Run(p, a, b)
    BY Zenon, <1>2, <1>3, <1>4, <2>1 DEF Run
  <2>3. b <= b
    OBVIOUS
  <2> QED BY Zenon, <2>2, <2>3
<1>6. CASE S # {}
  <2>1. S \subseteq Nat
    OBVIOUS
  <2> HIDE DEF S
  <2>2. PICK f \in S : \A y \in S : f <= y
    BY Zenon, <1>6, <2>1, LeastNumber
  <2>3. f \in (a + 1)..b /\ Lost(f)
    BY Zenon DEF S
  <2>4. PICK l \in DOMAIN q : k < l /\ q[l].t = "data" /\ q[l].n = f
    BY Zenon, <2>3
  <2>5. PICK e \in Nat : e + 1 = f /\ a <= e /\ e <= b
    <3>1. f - 1 \in Nat /\ (f - 1) + 1 = f /\ a <= f - 1 /\ f - 1 <= b
      BY <2>3
    <3> QED BY Zenon, <3>1
  <2>6. ASSUME NEW i \in DOMAIN p, p[i].t = "data" PROVE p[i].n \in (a + 1)..e
    <3>1. i \in DOMAIN q /\ ~(k < i) /\ p[i] = q[i]
      BY Zenon, <1>2
    <3>2. i < l
      <4>1. i \in Nat /\ l \in Nat
        BY Zenon, <1>2, <3>1
      <4> QED BY <1>2, <2>4, <3>1, <4>1
    <3>3. q[i].n < f /\ q[i].n \in (a + 1)..b
      BY Zenon, <1>3, <2>4, <2>6, <3>1, <3>2
    <3>4. \A n \in (a + 1)..b : n < f => n \in (a + 1)..e
      BY <2>3, <2>5
    <3> QED BY Zenon, <3>1, <3>3, <3>4
  <2>7. ASSUME NEW n \in (a + 1)..e PROVE \E i \in DOMAIN p : p[i].t = "data" /\ p[i].n = n
    <3>1. n \in (a + 1)..b /\ ~(f <= n)
      BY <2>3, <2>5
    <3>2. PICK i \in DOMAIN q : q[i].t = "data" /\ q[i].n = n
      BY Zenon, <1>3, <3>1
    <3>3. ~(k < i)
      BY Zenon, <2>2, <3>1, <3>2 DEF S
    <3> QED BY Zenon, <1>2, <3>2, <3>3
  <2>8. Run(p, a, e)
    BY Zenon, <1>4, <2>6, <2>7 DEF Run
  <2> QED BY Zenon, <2>5, <2>8
<1> QED BY Zenon, <1>5, <1>6

LEMMA OncePrefix ==
  ASSUME NEW q \in Seq(Messages), NEW p \in Prefixes(q), Once(q)
  PROVE  Once(p)
<1>1. PICK k \in 0..Len(q) : p = SubSeq(q, 1, k)
  BY Zenon DEF Prefixes
<1>2. \A i \in DOMAIN p : i \in DOMAIN q /\ p[i] = q[i]
  BY <1>1
<1> QED BY Zenon, <1>2 DEF Once

\* The same for both queues of a side.
GrowAll(d, e, T) == e \in Queues /\ \A y \in Ends : Grows(d[y], e[y], T)

LEMMA GrowAllSame ==
  ASSUME NEW d \in Queues, NEW T
  PROVE  GrowAll(d, d, T)
BY Zenon, GrowsSame DEF GrowAll

LEMMA GrowAllOn ==
  ASSUME NEW d, NEW e, NEW f, NEW T, GrowAll(d, e, T), GrowAll(e, f, T)
  PROVE  GrowAll(d, f, T)
BY Zenon, GrowsOn DEF GrowAll

LEMMA GrowsQueue ==
  ASSUME NEW d \in Queues, NEW x \in Ends, NEW m \in Messages, NEW T, m.t \in T
  PROVE  /\ GrowAll(d, Queue(d, x, m), T)
         /\ \A y \in Ends : y # x => Queue(d, x, m)[y] = d[y]
         /\ Queue(d, x, m)[x] = IF conn[x] = "up" THEN Append(d[x], m) ELSE d[x]
<1>1. CASE conn[x] = "up"
  <2>1. Append(d[x], m) \in Seq(Messages) /\ Grows(d[x], Append(d[x], m), T)
    BY Zenon, GrowsAppend DEF Queues
  <2> DEFINE a == Append(d[x], m)
             e == [d EXCEPT ![x] = a]
  <2>2. Queue(d, x, m) = e
    BY Zenon, <1>1 DEF Queue
  <2>3. a \in Seq(Messages) /\ Grows(d[x], a, T)
    BY Zenon, <2>1
  <2> HIDE DEF a
  <2>4. e \in Queues /\ e[x] = a /\ \A y \in Ends : y # x => e[y] = d[y]
    BY Zenon, <2>3 DEF Queues
  <2> HIDE DEF e
  <2>5. \A y \in Ends : Grows(d[y], e[y], T)
    BY Zenon, <2>3, <2>4, GrowsSame
  <2>6. GrowAll(d, e, T)
    BY Zenon, <2>4, <2>5 DEF GrowAll
  <2> QED BY Zenon, <1>1, <2>2, <2>4, <2>6 DEF a
<1>2. CASE conn[x] # "up"
  <2>1. Queue(d, x, m) = d
    BY Zenon, <1>2 DEF Queue
  <2> QED BY Zenon, <1>2, <2>1, GrowAllSame
<1> QED BY Zenon, <1>1, <1>2

LEMMA GrowsBoth ==
  ASSUME NEW d \in Queues, NEW m \in Messages, NEW T, m.t \in T
  PROVE  GrowAll(d, Both(d, m), T)
<1> DEFINE c == Queue(d, "source", m)
<1>2. Both(d, m) = Queue(c, "destination", m)
  BY Zenon DEF Both
<1>4. GrowAll(d, c, T)
  BY Zenon, GrowsQueue, EndsAre
<1> HIDE DEF c
<1>5. c \in Queues
  BY Zenon, <1>4 DEF GrowAll
<1>6. GrowAll(c, Queue(c, "destination", m), T)
  BY Zenon, <1>5, GrowsQueue, EndsAre
<1> QED BY Zenon, <1>2, <1>4, <1>6, GrowAllOn

LEMMA GrowsPost ==
  ASSUME up \in Queues, NEW x \in Ends, NEW ms \in Seq(Messages), NEW T,
         \A t : Has(ms, t) => t \in T, Post(x, ms)
  PROVE  GrowAll(up, up', T)
<1>1. CASE ws[x] = "up"
  <2> DEFINE a == up[x] \o ms
  <2>1. up[x] \in Seq(Messages)
    BY Zenon DEF Queues
  <2>2. a \in Seq(Messages) /\ Grows(up[x], a, T)
    BY Zenon, <2>1, ConcatHas, GrowsSent
  <2>3. up' = [up EXCEPT ![x] = a]
    BY Zenon, <1>1 DEF Post
  <2> HIDE DEF a
  <2>4. up' \in Queues /\ up'[x] = a /\ \A y \in Ends : y # x => up'[y] = up[y]
    BY Zenon, <2>2, <2>3 DEF Queues
  <2>5. \A y \in Ends : Grows(up[y], up'[y], T)
    BY Zenon, <2>2, <2>4, GrowsSame
  <2> QED BY Zenon, <2>4, <2>5 DEF GrowAll
<1>2. CASE ws[x] # "up"
  <2>1. up' = up
    BY Zenon, <1>2 DEF Post
  <2> QED BY Zenon, <2>1, GrowAllSame
<1> QED BY Zenon, <1>1, <1>2

LEMMA GrowsTake ==
  ASSUME NEW d \in Queues, NEW e, NEW x \in Ends, d[x] # <<>>, Head(d[x]).t # "data",
         e = [d EXCEPT ![x] = Tail(@)], NEW T
  PROVE  GrowAll(d, e, T)
<1>1. d[x] \in Seq(Messages)
  BY Zenon DEF Queues
<1> DEFINE a == Tail(d[x])
<1>2. a \in Seq(Messages) /\ Grows(d[x], a, T)
  BY Zenon, <1>1, TailHas, GrowsTail
<1>3. e = [d EXCEPT ![x] = a]
  BY Zenon
<1> HIDE DEF a
<1>4. e \in Queues /\ e[x] = a /\ \A y \in Ends : y # x => e[y] = d[y]
  BY Zenon, <1>2, <1>3 DEF Queues
<1>5. \A y \in Ends : Grows(d[y], e[y], T)
  BY Zenon, <1>2, <1>4, GrowsSame
<1> QED BY Zenon, <1>4, <1>5 DEF GrowAll

-----------------------------------------------------------------------------
(* The invariant of the bytes.                                             *)

\* The socket is read only once a route serves the session, and while no
\* suspension or loss of the WebSocket has paused it.
Undirected == ses \in {"negotiating", "relay"} /\ sgen = 0
Reading ==
  /\ flow = "flowing" /\ sgen = 0 => ses \in {"relay", "direct"}
  /\ ses = "closed" => flow = "destroyed"
  /\ ses = "negotiating" => sent = 0 /\ got = <<>> /\ pipe = <<>>
  /\ Undirected /\ susp => flow # "flowing"
  /\ Undirected /\ ws["source"] = "down" => susp

\* A session that went direct is not relayed, and the bytes in its pipe go on
\* from what the target has.
DirectWay ==
  /\ ses = "direct" \/ pipe # <<>> => Released
  /\ mode = "direct" \/ Has(down["source"], "commit") \/ ses = "direct" \/ pipe # <<>> =>
       rel = "none" /\ ~Has(down["destination"], "open") /\ mode \in {"direct", "ended"}
  /\ dst = "committed" => \A i \in DOMAIN pipe : pipe[i] = Len(got) + i
  /\ dst = "committed" /\ ses = "direct" => Len(got) + Len(pipe) = sent

\* The relay is opened once, and carries no bytes before the target answered.
RelayWay ==
  /\ mode \in {"none", "negotiating", "direct"} =>
       rel = "none" /\ ~Has(down["destination"], "open")
  /\ rel # "none" => ~Has(down["destination"], "open")
  /\ Once(down["destination"])
  /\ rel \in {"none", "connecting"} =>
       /\ ~Has(up["destination"], "opened") /\ ~Has(down["source"], "opened") /\ ses # "relay"
       /\ ~Has(up["source"], "data") /\ ~Has(down["destination"], "data")
  /\ Has(up["source"], "data") \/ Has(down["destination"], "data") => ses \in {"relay", "closed"}

\* A stream the hub relays from its start has not lost its target.
Linked ==
  /\ \A x \in Ends : conn[x] = "up" <=> ws[x] = "up"
  /\ mode = "relay" /\ gen = 0 => conn["destination"] # "down"

\* What is between hub and target goes on from what the target has, and what
\* is between source and hub goes on from there: to the last byte the source
\* sent, unless one of them was lost.
Serving == mode = "relay" /\ gen = 0 /\ conn["destination"] = "up"
Writing == ses = "relay" /\ flow = "flowing" /\ sgen = 0 /\ ws["source"] = "up"
Relays(c, d) ==
  /\ c <= d
  /\ rel = "open" => Len(got) <= c /\ Run(down["destination"], Len(got), c)
  /\ Serving => Run(up["source"], c, d)
  /\ Serving /\ Writing => d = sent
Relayed == \E c, d \in Nat : Relays(c, d)

BInv == BytesInOrder /\ Reading /\ DirectWay /\ RelayWay /\ Linked /\ Relayed

-----------------------------------------------------------------------------
(* Most steps move no byte and choose no route.                            *)

Steady ==
  /\ \A t \in {"commit", "opened"} : Has(down'["source"], t) => Has(down["source"], t)
  /\ Has(up'["destination"], "opened") => Has(up["destination"], "opened")
  /\ \A t \in {"open", "data"} : Has(down'["destination"], t) => Has(down["destination"], t)
  /\ Has(up'["source"], "data") => Has(up["source"], "data")
  /\ Once(down["destination"]) => Once(down'["destination"])
  /\ \A a, b \in Nat : Run(down["destination"], a, b) => Run(down'["destination"], a, b)
  /\ \A a, b \in Nat : Run(up["source"], a, b) => Run(up'["source"], a, b)

SourceSteady ==
  /\ ses' \in {ses, "closed"} /\ (ses' = "closed" => flow' = "destroyed")
  /\ flow' = "flowing" /\ sgen' = 0 => flow = "flowing" /\ ses' = ses
  /\ sgen' = 0 => sgen = 0 /\ (susp => susp') /\ (susp' => susp \/ flow' # "flowing")
  /\ (sent' = sent \/ ses' = "closed") /\ pipe' = pipe

TargetSteady ==
  /\ dst' = "committed" => dst = "committed"
  /\ Released => dst' \in {"committed", "closed"}
  /\ rel' = rel \/ (rel # "none" /\ rel' = "closed")
  /\ got' = got

HubSteady ==
  /\ mode \in {"direct", "ended"} => mode' \in {"direct", "ended"}
  /\ mode' = "direct" => mode = "direct"
  /\ mode' \in {"none", "negotiating"} => mode \in {"none", "negotiating"}
  /\ mode' = "relay" /\ gen' = 0 => mode = "relay" /\ gen = 0

LinksSteady ==
  /\ \A x \in Ends : conn'[x] = "up" <=> ws'[x] = "up"
  /\ Writing' => ws["source"] = "up"
  /\ Undirected' /\ ws'["source"] = "down" => ws["source"] = "down" \/ susp'
  /\ mode' = "relay" /\ gen' = 0 => conn'["destination"] = conn["destination"]

LEMMA SteadyStep ==
  ASSUME IInv, BInv, Steady, SourceSteady, TargetSteady, HubSteady, LinksSteady
  PROVE  BInv'
<1>1. BytesInOrder'
  BY Zenon DEF BInv, BytesInOrder, TargetSteady
<1>2. Reading'
  <2>1. flow' = "flowing" /\ sgen' = 0 => ses' \in {"relay", "direct"}
    BY Zenon DEF BInv, Reading, SourceSteady
  <2>2. ses' = "negotiating" => sent' = 0 /\ got' = <<>> /\ pipe' = <<>>
    BY Zenon DEF BInv, Reading, SourceSteady, TargetSteady
  <2>3. Undirected' => Undirected /\ ses' # "closed" /\ sgen' = 0
    BY Zenon DEF Undirected, SourceSteady
  <2>4. Undirected' /\ susp' => flow' # "flowing"
    BY Zenon, <2>3 DEF BInv, Reading, SourceSteady
  <2>5. Undirected' /\ ws'["source"] = "down" => susp'
    BY Zenon, <2>3 DEF BInv, Reading, SourceSteady, LinksSteady
  <2> QED BY Zenon, <2>1, <2>2, <2>4, <2>5 DEF Reading, SourceSteady
<1>3. DirectWay'
  <2>1. ses' = "direct" \/ pipe' # <<>> => dst' \in {"committed", "closed"}
    BY Zenon DEF BInv, DirectWay, SourceSteady, TargetSteady
  <2>2. mode' = "direct" \/ Has(down'["source"], "commit") \/ ses' = "direct" \/ pipe' # <<>> =>
          mode = "direct" \/ Has(down["source"], "commit") \/ ses = "direct" \/ pipe # <<>>
    BY Zenon DEF Steady, SourceSteady, HubSteady
  <2>3. rel = "none" /\ ~Has(down["destination"], "open") /\ mode \in {"direct", "ended"}
        => rel' = "none" /\ ~Has(down'["destination"], "open") /\ mode' \in {"direct", "ended"}
    BY Zenon DEF Steady, TargetSteady, HubSteady
  <2>4. dst' = "committed" => \A i \in DOMAIN pipe' : pipe'[i] = Len(got') + i
    BY Zenon DEF BInv, DirectWay, SourceSteady, TargetSteady
  <2>5. dst' = "committed" /\ ses' = "direct" => Len(got') + Len(pipe') = sent'
    BY Zenon DEF BInv, DirectWay, SourceSteady, TargetSteady
  <2> QED BY Zenon, <2>1, <2>2, <2>3, <2>4, <2>5 DEF BInv, DirectWay, Released
<1>4. RelayWay'
  <2>1. mode' \in {"none", "negotiating", "direct"} =>
          rel' = "none" /\ ~Has(down'["destination"], "open")
    BY Zenon DEF BInv, RelayWay, Steady, TargetSteady, HubSteady
  <2>2. (rel' # "none" => ~Has(down'["destination"], "open")) /\ Once(down'["destination"])
    BY Zenon DEF BInv, RelayWay, Steady, TargetSteady
  <2>3. rel' \in {"none", "connecting"} =>
          /\ ~Has(up'["destination"], "opened") /\ ~Has(down'["source"], "opened") /\ ses' # "relay"
          /\ ~Has(up'["source"], "data") /\ ~Has(down'["destination"], "data")
    BY Zenon DEF BInv, RelayWay, Steady, TargetSteady, SourceSteady
  <2>4. Has(up'["source"], "data") \/ Has(down'["destination"], "data") => ses' \in {"relay", "closed"}
    BY Zenon DEF BInv, RelayWay, Steady, SourceSteady
  <2> QED BY Zenon, <2>1, <2>2, <2>3, <2>4 DEF RelayWay
<1>5. Linked'
  <2>2. mode' = "relay" /\ gen' = 0 => conn'["destination"] # "down"
    BY Zenon DEF BInv, Linked, HubSteady, LinksSteady
  <2> QED BY Zenon, <2>2 DEF Linked, LinksSteady
<1>6. Relayed'
  <2>1. PICK c \in Nat, d \in Nat : Relays(c, d)
    BY Zenon DEF BInv, Relayed
  <2>2. rel' = "open" => Len(got') <= c /\ Run(down'["destination"], Len(got'), c)
    <3> SUFFICES ASSUME rel' = "open" PROVE Len(got') <= c /\ Run(down'["destination"], Len(got'), c)
      OBVIOUS
    <3>1. rel = "open" /\ got' = got
      BY Zenon DEF TargetSteady
    <3>2. Len(got) \in Nat
      BY DEF IInv, TypeOK
    <3> QED BY Zenon, <2>1, <3>1, <3>2 DEF Relays, Steady
  <2>a. Serving' => Serving
    BY Zenon DEF Serving, HubSteady, LinksSteady
  <2>b. Writing' => Writing /\ sent' = sent
    BY Zenon DEF Writing, SourceSteady, LinksSteady
  <2>3. Serving' => Run(up'["source"], c, d)
    BY Zenon, <2>1, <2>a DEF Relays, Steady
  <2>4. Serving' /\ Writing' => d = sent'
    BY Zenon, <2>1, <2>a, <2>b DEF Relays
  <2>5. Relays(c, d)'
    BY Zenon, <2>1, <2>2, <2>3, <2>4 DEF Relays
  <2> QED BY Zenon, <2>5 DEF Relayed
<1> QED BY Zenon, <1>1, <1>2, <1>3, <1>4, <1>5, <1>6 DEF BInv

\* The messages a steady step may send.
CalmDown == Calm \cup {"commit"}

LEMMA CalmKinds ==
  /\ "open" \notin Calm /\ "data" \notin Calm /\ "opened" \notin Calm /\ "commit" \notin Calm
  /\ "open" \notin CalmDown /\ "data" \notin CalmDown
  /\ "cancel" \in Plain /\ "error" \in Plain /\ "suspend" \in Plain /\ "end" \in Plain
  /\ "closed" \in Plain /\ "fallback" \in Plain /\ "offer" \in Plain /\ "connect" \in Plain
  /\ "resume" \in Plain /\ "ready" \in Plain /\ "committed" \in Plain /\ "established" \in Plain
  /\ Calm \subseteq CalmDown /\ Plain \subseteq Controls /\ Plain \subseteq Calm /\ "resumed" \in Calm
BY Zenon DEF Calm, CalmDown, Plain, Controls

LEMMA ResumeNote ==
  ASSUME NEW g \in Nat
  PROVE  Note("resume", g) \in Messages /\ Note("resume", g).t \in Calm
<1>1. "resume" \in Controls /\ "resume" \in Calm
  BY Zenon, CalmKinds
<1> QED BY Zenon, <1>1, NoteType

LEMMA Steadily ==
  ASSUME GrowAll(up, up', Calm),
         Grows(down["source"], down'["source"], Calm),
         Grows(down["destination"], down'["destination"], CalmDown)
  PROVE  Steady
<1> USE EndsAre
<1>1. Grows(up["source"], up'["source"], Calm) /\ Grows(up["destination"], up'["destination"], Calm)
  BY Zenon DEF GrowAll
<1>2. \A t \in {"commit", "opened"} : Has(down'["source"], t) => Has(down["source"], t)
  BY Zenon, CalmKinds DEF Grows
<1>3. Has(up'["destination"], "opened") => Has(up["destination"], "opened")
  BY Zenon, <1>1, CalmKinds DEF Grows
<1>4. \A t \in {"open", "data"} : Has(down'["destination"], t) => Has(down["destination"], t)
  BY Zenon, CalmKinds DEF Grows
<1>5. Has(up'["source"], "data") => Has(up["source"], "data")
  BY Zenon, <1>1, CalmKinds DEF Grows
<1>6. Once(down["destination"]) => Once(down'["destination"])
  BY Zenon, CalmKinds DEF Grows
<1>7. \A a, b \in Nat : Run(down["destination"], a, b) => Run(down'["destination"], a, b)
  BY Zenon, CalmKinds DEF Grows
<1>8. \A a, b \in Nat : Run(up["source"], a, b) => Run(up'["source"], a, b)
  BY Zenon, <1>1, CalmKinds DEF Grows
<1> QED BY Zenon, <1>2, <1>3, <1>4, <1>5, <1>6, <1>7, <1>8 DEF Steady

LEMMA SteadilyAll ==
  ASSUME GrowAll(up, up', Calm), GrowAll(down, down', Calm)
  PROVE  Steady
BY Zenon, EndsAre, CalmKinds, GrowsMore, Steadily DEF GrowAll

\* Links that no step touches.
LEMMA LinksKept ==
  ASSUME BInv, ws' = ws, conn' = conn
  PROVE  LinksSteady
BY Zenon DEF BInv, Linked, LinksSteady, Writing

\* The other parts, when a step leaves them alone.
LEMMA SourceKept ==
  ASSUME BInv, UNCHANGED <<ses, flow, susp, sgen, pipe, sent>>
  PROVE  SourceSteady
BY Zenon DEF BInv, Reading, SourceSteady

LEMMA TargetKept ==
  ASSUME UNCHANGED <<dst, rel, got>>
  PROVE  TargetSteady
BY Zenon DEF TargetSteady, Released

LEMMA HubKept ==
  ASSUME mode' = mode, gen' = gen
  PROVE  HubSteady
BY Zenon DEF HubSteady

\* Taking a message of the hub or of a worker that is no byte.
LEMMA TakeFromHub ==
  ASSUME IInv, NEW x \in Ends, NEW t, t # "data", FromHub(x, t)
  PROVE  GrowAll(down, down', Calm)
<1>1. down \in Queues
  BY Zenon, TypedQueues DEF IInv
<1>2. down[x] # <<>> /\ Head(down[x]).t # "data" /\ down' = [down EXCEPT ![x] = Tail(@)]
  BY Zenon DEF FromHub
<1> QED BY Zenon, <1>1, <1>2, GrowsTake

LEMMA TakeFromWorker ==
  ASSUME IInv, NEW x \in Ends, NEW t, t # "data", FromWorker(x, t)
  PROVE  GrowAll(up, up', Calm)
<1>1. up \in Queues
  BY Zenon, TypedQueues DEF IInv
<1>2. up[x] # <<>> /\ Head(up[x]).t # "data" /\ up' = [up EXCEPT ![x] = Tail(@)]
  BY Zenon DEF FromWorker
<1> QED BY Zenon, <1>1, <1>2, GrowsTake

\* Sending a calm message to the hub.
LEMMA PostNote ==
  ASSUME IInv, NEW x \in Ends, NEW m \in Messages, m.t \in Calm, Post(x, <<m>>)
  PROVE  GrowAll(up, up', Calm)
<1> DEFINE ms == <<m>>
<1>1. up \in Queues /\ ms \in Seq(Messages) /\ Post(x, ms)
  BY TypedQueues DEF IInv
<1>2. \A t : Has(ms, t) => t \in Calm
  BY Zenon, SingleHas
<1> HIDE DEF ms
<1> QED BY Zenon, <1>1, <1>2, GrowsPost

LEMMA PostCalm ==
  ASSUME IInv, NEW x \in Ends, NEW m \in Plain, Post(x, <<Msg(m)>>)
  PROVE  GrowAll(up, up', Calm)
<1>1. up \in Queues
  BY Zenon, TypedQueues DEF IInv
<1> DEFINE ms == <<Msg(m)>>
<1>2. ms \in Seq(Messages) /\ (\A t : Has(ms, t) => t = m) /\ Post(x, ms)
  BY Zenon, NoticeHas, CalmKinds
<1> HIDE DEF ms
<1>3. \A t : Has(ms, t) => t \in Calm
  BY Zenon, <1>2, CalmKinds
<1> QED BY Zenon, <1>1, <1>2, <1>3, GrowsPost

\* Sending a calm message to a worker.
LEMMA QueueCalm ==
  ASSUME NEW d \in Queues, NEW x \in Ends, NEW m \in Plain
  PROVE  GrowAll(d, Queue(d, x, Msg(m)), Calm)
<1>1. Msg(m) \in Messages /\ Msg(m).t = m
  BY Zenon, MsgType, CalmKinds
<1> DEFINE n == Msg(m)
<1>2. n \in Messages /\ n.t \in Calm
  BY Zenon, <1>1, CalmKinds
<1> HIDE DEF n
<1>3. GrowAll(d, Queue(d, x, n), Calm)
  BY Zenon, <1>2, GrowsQueue
<1> QED BY Zenon, <1>3 DEF n

-----------------------------------------------------------------------------
(* The bytes and the steps of the hub.                                     *)

\* What a step of the hub leaves alone.
HubApart == UNCHANGED <<ses, flow, susp, sgen, pipe, sent, dst, rel, got, ws>>

LEMMA HubOnlyApart ==
  ASSUME HubOnly
  PROVE  HubApart /\ conn' = conn
BY Zenon DEF HubOnly, HubApart, source, destination, peers, links, bytes

LEMMA HubMoves ==
  ASSUME IInv, BInv, HubApart, HubSteady, LinksSteady, GrowAll(up, up', Calm),
         GrowAll(down, down', Calm)
  PROVE  BInv'
<1>1. SourceSteady /\ TargetSteady
  BY Zenon, SourceKept, TargetKept DEF HubApart
<1> QED BY Zenon, <1>1, SteadilyAll, SteadyStep

LEMMA TerminateGrows ==
  ASSUME NEW d \in Queues, NEW w \in BOOLEAN, Terminate(d, w)
  PROVE  GrowAll(d, down', Calm) /\ mode' = "ended"
<1> DEFINE x == Msg("cancel")
           y == Msg("error")
           c == IF direct # "null" THEN Both(d, x) ELSE d
<1>1. x \in Messages /\ x.t \in Calm /\ y \in Messages /\ y.t \in Calm
  BY Zenon, MsgType, CalmKinds
<1>3. /\ mode' = "ended"
      /\ down' = IF w /\ mode \in {"relay", "suspended"} THEN Both(c, y) ELSE c
  BY Zenon DEF Terminate
<1> HIDE DEF x, y
<1>2. GrowAll(d, c, Calm)
  <2>1. CASE direct # "null"
    <3>1. c = Both(d, x)
      BY Zenon, <2>1
    <3> HIDE DEF c
    <3> QED BY Zenon, <1>1, <3>1, GrowsBoth
  <2>2. CASE direct = "null"
    BY Zenon, <2>2, GrowAllSame
  <2> QED BY Zenon, <2>1, <2>2
<1> HIDE DEF c
<1>4. c \in Queues
  BY Zenon, <1>2 DEF GrowAll
<1>6. GrowAll(c, Both(c, y), Calm)
  BY Zenon, <1>1, <1>4, GrowsBoth
<1>7. GrowAll(d, Both(c, y), Calm)
  BY Zenon, <1>2, <1>6, GrowAllOn
<1> QED BY Zenon, <1>2, <1>3, <1>7

\* The stream is ended.
LEMMA TerminateMoves ==
  ASSUME IInv, BInv, HubApart, LinksSteady, GrowAll(up, up', Calm),
         NEW d, GrowAll(down, d, Calm), NEW w \in BOOLEAN, Terminate(d, w)
  PROVE  BInv'
<1>1. d \in Queues
  BY Zenon DEF GrowAll
<1>2. GrowAll(d, down', Calm) /\ mode' = "ended"
  BY Zenon, <1>1, TerminateGrows
<1>3. GrowAll(down, down', Calm)
  BY Zenon, <1>2, GrowAllOn
<1>4. HubSteady
  BY Zenon, <1>2 DEF HubSteady
<1> QED BY Zenon, <1>3, <1>4, HubMoves

\* It is suspended.
LEMMA SuspendMoves ==
  ASSUME IInv, BInv, HubApart, LinksSteady, GrowAll(up, up', Calm), mode = "relay", Suspend(down)
  PROVE  BInv'
<1> DEFINE m == Note("suspend", gen)
<1>1. down \in Queues /\ m \in Messages /\ m.t \in Calm
  BY Zenon, TypedQueues, GenTypes, NoteType, CalmKinds DEF IInv
<1>2. mode' = "suspended" /\ down' = Both(down, m)
  BY Zenon DEF Suspend
<1> HIDE DEF m
<1>4. GrowAll(down, down', Calm)
  BY Zenon, <1>1, <1>2, GrowsBoth
<1>5. HubSteady
  BY Zenon, <1>2 DEF HubSteady
<1> QED BY Zenon, <1>4, <1>5, HubMoves

LEMMA OnceAppend ==
  ASSUME NEW q \in Seq(Messages), NEW m \in Messages, ~Has(q, "open")
  PROVE  Once(Append(q, m))
<1> DEFINE r == Append(q, m)
<1>1. \A i \in DOMAIN r : (i \in DOMAIN q /\ r[i] = q[i]) \/ i = Len(q) + 1
  OBVIOUS
<1> HIDE DEF r
<1> QED BY Zenon, <1>1 DEF Once, Has, r

\* It is resumed, under the next generation.
LEMMA TryResumeMoves ==
  ASSUME IInv, BInv, HubApart, LinksSteady, GrowAll(up, up', Calm),
         mode = "suspended", NEW r, TryResume(r)
  PROVE  BInv'
<1> DEFINE m == Note("resumed", gen + 1)
<1>1. down \in Queues /\ m \in Messages /\ m.t \in Calm /\ gen \in Nat
  BY Zenon, TypedQueues, GenTypes, ResumedType, CalmKinds DEF IInv
<1>2. \/ mode' = mode /\ gen' = gen /\ down' = down
      \/ gen' = gen + 1 /\ mode' = "relay" /\ down' = Both(down, m)
  BY Zenon DEF TryResume
<1> HIDE DEF m
<1>3. GrowAll(down, down', Calm)
  BY Zenon, <1>1, <1>2, GrowsBoth, GrowAllSame
<1>4. gen + 1 # 0
  BY <1>1
<1>5. CASE mode' = mode /\ gen' = gen
  BY Zenon, <1>3, <1>5, HubKept, HubMoves
<1>6. CASE gen' = gen + 1 /\ mode' = "relay"
  <2>1. HubSteady
    BY Zenon, <1>4, <1>6 DEF HubSteady
  <2> QED BY Zenon, <1>3, <2>1, HubMoves
<1> QED BY Zenon, <1>2, <1>5, <1>6

\* The relay starts after a negotiation: nothing was read before it.
LEMMA StartRelayMoves ==
  ASSUME IInv, BInv, HubApart, conn' = conn, GrowAll(up, up', Calm),
         mode = "negotiating", NEW d, GrowAll(down, d, Calm), StartRelay(d)
  PROVE  BInv'
<1> USE EndsAre
<1>1. LinksSteady
  BY Zenon, LinksKept DEF HubApart
<1>2. d \in Queues /\ Msg("error") \in Messages /\ Msg("error").t \in Calm
      /\ Msg("open") \in Messages /\ Msg("open").t = "open"
  BY Zenon, MsgType, CalmKinds, ControlsAre DEF GrowAll
<1>3. CASE ~Sends("destination")
  <2>1. mode' = "ended" /\ down' = Both(d, Msg("error"))
    BY Zenon, <1>3 DEF StartRelay
  <2> DEFINE m == Msg("error")
  <2>2. m \in Messages /\ m.t \in Calm /\ down' = Both(d, m)
    BY Zenon, <1>2, <2>1
  <2> HIDE DEF m
  <2>3. GrowAll(d, down', Calm)
    BY Zenon, <1>2, <2>2, GrowsBoth
  <2>4. GrowAll(down, down', Calm)
    BY Zenon, <2>3, GrowAllOn
  <2>5. HubSteady
    BY Zenon, <2>1 DEF HubSteady
  <2> QED BY Zenon, <1>1, <2>4, <2>5, HubMoves
<1>4. CASE Sends("destination")
  <2> DEFINE m == Msg("open")
  <2>1. mode' = "relay" /\ down' = Queue(d, "destination", m)
    BY Zenon, <1>4 DEF StartRelay
  <2>2. m \in Messages /\ m.t \in {"open"}
    BY Zenon, <1>2
  <2> HIDE DEF m
  <2>3. /\ GrowAll(d, down', {"open"})
        /\ down'["source"] = d["source"]
        /\ down'["destination"] = Append(d["destination"], m) \/ down'["destination"] = d["destination"]
    <3>1. d \in Queues
      BY Zenon, <1>2
    <3> DEFINE e == Queue(d, "destination", m)
    <3>2. /\ GrowAll(d, e, {"open"})
          /\ \A y \in Ends : y # "destination" => e[y] = d[y]
          /\ e["destination"] = IF conn["destination"] = "up" THEN Append(d["destination"], m)
                                ELSE d["destination"]
      BY Zenon, <2>2, <3>1, GrowsQueue
    <3>3. down' = e
      BY Zenon, <2>1
    <3> HIDE DEF e
    <3> QED BY Zenon, <3>2, <3>3
  <2>4. Grows(down["source"], d["source"], Calm) /\ Grows(down["destination"], d["destination"], Calm)
        /\ Grows(d["destination"], down'["destination"], {"open"})
        /\ Grows(up["source"], up'["source"], Calm) /\ Grows(up["destination"], up'["destination"], Calm)
        /\ d["destination"] \in Seq(Messages)
    BY Zenon, <2>3 DEF GrowAll, Queues
  <2>5. rel = "none" /\ ~Has(down["destination"], "open")
    BY Zenon DEF BInv, RelayWay
  <2>6. /\ ~Has(up["destination"], "opened") /\ ~Has(down["source"], "opened") /\ ses # "relay"
        /\ ~Has(up["source"], "data") /\ ~Has(down["destination"], "data")
    BY Zenon, <2>5 DEF BInv, RelayWay
  <2>7. ~Has(down["source"], "commit") /\ ses # "direct" /\ pipe = <<>>
    BY Zenon DEF BInv, DirectWay
  <2>8. ~Has(d["destination"], "open") /\ Once(d["destination"])
    BY Zenon, <2>4, <2>5, CalmKinds DEF Grows, BInv, RelayWay
  <2>9. ~Has(down'["source"], "opened") /\ ~Has(down'["source"], "commit")
    BY Zenon, <2>3, <2>4, <2>6, <2>7, CalmKinds DEF Grows
  <2>10. ~Has(up'["destination"], "opened") /\ ~Has(up'["source"], "data")
    BY Zenon, <2>4, <2>6, CalmKinds DEF Grows
  <2>11. ~Has(down'["destination"], "data")
    <3>1. ~Has(d["destination"], "data")
      BY Zenon, <2>4, <2>6, CalmKinds DEF Grows
    <3>2. "data" \notin {"open"}
      BY Zenon
    <3> QED BY Zenon, <2>4, <3>1, <3>2 DEF Grows
  <2>12. Once(down'["destination"])
    BY Zenon, <2>2, <2>3, <2>4, <2>8, OnceAppend
  <2>13. UNCHANGED <<ses, flow, susp, sgen, pipe, sent, dst, rel, got, ws>>
    BY Zenon DEF HubApart
  <2>14. BytesInOrder' /\ Reading'
    BY Zenon, <2>13 DEF BInv, BytesInOrder, Reading, Undirected
  <2>15. DirectWay'
    BY Zenon, <2>1, <2>7, <2>9, <2>13 DEF BInv, DirectWay, Released
  <2>16. RelayWay'
    BY Zenon, <2>1, <2>5, <2>6, <2>9, <2>10, <2>11, <2>12, <2>13 DEF RelayWay
  <2>17. Linked'
    BY Zenon, <1>4, <2>13 DEF BInv, Linked, Sends
  <2>18. Relayed'
    <3>1. Run(up'["source"], 0, 0) /\ 0 \in Nat /\ 0 <= 0
      BY <2>10, RunEmpty
    <3>2. Relays(0, 0)'
      BY Zenon, <2>5, <2>6, <2>13, <3>1 DEF Relays, Writing
    <3> QED BY Zenon, <3>1, <3>2 DEF Relayed
  <2> QED BY Zenon, <2>14, <2>15, <2>16, <2>17, <2>18 DEF BInv
<1> QED BY Zenon, <1>3, <1>4

LEMMA FallBackMoves ==
  ASSUME IInv, BInv, HubApart, conn' = conn, GrowAll(up, up', Calm), direct # "null", FallBack
  PROVE  BInv'
<1>1. LinksSteady /\ down \in Queues
  BY Zenon, LinksKept, TypedQueues DEF HubApart, IInv
<1>2. CASE direct = "committed"
  <2>1. Terminate(down, TRUE)
    BY Zenon, <1>2 DEF FallBack
  <2> QED BY Zenon, <1>1, <2>1, GrowAllSame, TerminateMoves
<1>3. CASE direct # "committed"
  <2> DEFINE m == Msg("cancel")
             d == Both(down, m)
  <2>1. StartRelay(d) /\ mode = "negotiating"
    BY Zenon, <1>3 DEF FallBack, IInv, TypeOK, Exclusion
  <2>2. m \in Messages /\ m.t \in Calm
    BY Zenon, MsgType, CalmKinds
  <2> HIDE DEF m
  <2>3. GrowAll(down, d, Calm)
    BY Zenon, <1>1, <2>2, GrowsBoth
  <2> HIDE DEF d
  <2> QED BY Zenon, <2>1, <2>3, StartRelayMoves
<1> QED BY Zenon, <1>2, <1>3

\* The ways most handlers of the hub end.
LEMMA HubMovesOn ==
  ASSUME IInv, BInv, HubOnly, GrowAll(up, up', Calm),
         \/ UNCHANGED <<hub, down>>
         \/ \E w \in BOOLEAN : Terminate(down, w)
         \/ direct # "null" /\ FallBack
         \/ mode = "relay" /\ Suspend(down)
         \/ UNCHANGED <<mode, gen>> /\ \E x \in Ends, m \in Plain : down' = Queue(down, x, Msg(m))
  PROVE  BInv'
<1>1. HubApart /\ conn' = conn
  BY Zenon, HubOnlyApart
<1>2. LinksSteady /\ down \in Queues /\ GrowAll(down, down, Calm)
  BY Zenon, <1>1, LinksKept, TypedQueues, GrowAllSame DEF HubApart, IInv
<1>3. CASE UNCHANGED <<hub, down>>
  <2>1. HubSteady /\ GrowAll(down, down', Calm)
    BY Zenon, <1>2, <1>3, HubKept DEF hub
  <2> QED BY Zenon, <1>1, <1>2, <2>1, HubMoves
<1>4. CASE \E w \in BOOLEAN : Terminate(down, w)
  BY Zenon, <1>1, <1>2, <1>4, TerminateMoves
<1>5. CASE direct # "null" /\ FallBack
  BY Zenon, <1>1, <1>5, FallBackMoves
<1>6. CASE mode = "relay" /\ Suspend(down)
  BY Zenon, <1>1, <1>2, <1>6, SuspendMoves
<1>7. CASE UNCHANGED <<mode, gen>> /\ \E x \in Ends, m \in Plain : down' = Queue(down, x, Msg(m))
  <2>1. PICK x \in Ends, m \in Plain : down' = Queue(down, x, Msg(m))
    BY Zenon, <1>7
  <2>2. GrowAll(down, down', Calm)
    BY Zenon, <1>2, <2>1, QueueCalm
  <2> QED BY Zenon, <1>1, <1>2, <1>7, <2>2, HubKept, HubMoves
<1> QED BY Zenon, <1>3, <1>4, <1>5, <1>6, <1>7

LEMMA OnOpenMoves ==
  ASSUME IInv, BInv, OnOpen
  PROVE  BInv'
<1> USE EndsAre
<1>1. HubOnly /\ HubApart /\ conn' = conn /\ GrowAll(up, up', Calm)
  BY Zenon, HubOnlyApart, TakeFromWorker DEF OnOpen
<1>2. CASE mode = "none" /\ Sends("destination")
  <2>1. mode' = "negotiating" /\ down' = Queue(down, "destination", Msg("offer"))
    BY Zenon, <1>2 DEF OnOpen
  <2>2. down \in Queues /\ LinksSteady
    BY Zenon, <1>1, TypedQueues, LinksKept DEF IInv, HubApart
  <2>3. GrowAll(down, down', Calm)
    BY Zenon, <2>1, <2>2, QueueCalm, CalmKinds
  <2>4. HubSteady
    BY Zenon, <1>2, <2>1 DEF HubSteady
  <2> QED BY Zenon, <1>1, <2>2, <2>3, <2>4, HubMoves
<1>3. CASE ~(mode = "none" /\ Sends("destination"))
  <2>1. UNCHANGED <<mode, gen>> /\ down' = Queue(down, "source", Msg("error"))
    BY Zenon, <1>3 DEF OnOpen, hub
  <2> QED BY Zenon, <1>1, <2>1, HubMovesOn, CalmKinds
<1> QED BY Zenon, <1>2, <1>3

\* The handlers that neither release a route nor move a byte.
LEMMA HubHandlesMoves ==
  ASSUME IInv, BInv, OnReady \/ \E x \in Ends : OnResume(x) \/ OnFallback(x) \/ OnClosed(x)
  PROVE  BInv'
<1> USE EndsAre
<1>1. CASE OnReady
  <2>1. HubOnly /\ GrowAll(up, up', Calm)
    BY Zenon, <1>1, TakeFromWorker DEF OnReady
  <2>2. \/ UNCHANGED <<hub, down>>
        \/ Terminate(down, TRUE)
        \/ direct # "null" /\ FallBack
        \/ UNCHANGED <<mode, gen>> /\ down' = Queue(down, "source", Msg("connect"))
    BY Zenon, <1>1 DEF OnReady, Dropped
  <2> QED BY Zenon, <2>1, <2>2, HubMovesOn, CalmKinds
<1>2. ASSUME NEW x \in Ends, OnResume(x) PROVE BInv'
  <2>1. HubOnly /\ GrowAll(up, up', Calm)
    BY Zenon, <1>2, TakeFromWorker DEF OnResume
  <2>2. \/ mode = "suspended" /\ TryResume(reports \cup {x})
        \/ Terminate(down, TRUE)
        \/ UNCHANGED <<mode, gen>> /\ down' = Queue(down, x, Msg("error"))
    BY Zenon, <1>2 DEF OnResume, hub
  <2>3. HubApart /\ LinksSteady
    BY Zenon, <2>1, HubOnlyApart, LinksKept DEF HubApart
  <2>4. CASE mode = "suspended" /\ TryResume(reports \cup {x})
    BY Zenon, <2>1, <2>3, <2>4, TryResumeMoves
  <2> QED BY Zenon, <2>1, <2>2, <2>4, HubMovesOn, CalmKinds
<1>3. ASSUME NEW x \in Ends, OnFallback(x) PROVE BInv'
  <2>1. HubOnly /\ GrowAll(up, up', Calm)
    BY Zenon, <1>3, TakeFromWorker DEF OnFallback
  <2>2. UNCHANGED <<hub, down>> \/ (direct # "null" /\ FallBack)
    BY Zenon, <1>3 DEF OnFallback, Dropped
  <2> QED BY Zenon, <2>1, <2>2, HubMovesOn
<1>4. ASSUME NEW x \in Ends, OnClosed(x) PROVE BInv'
  <2>1. HubOnly /\ GrowAll(up, up', Calm)
    BY Zenon, <1>4, TakeFromWorker DEF OnClosed
  <2>2. UNCHANGED <<hub, down>> \/ Terminate(down, direct # "committed")
    BY Zenon, <1>4 DEF OnClosed, Dropped
  <2>3. (direct # "committed") \in BOOLEAN
    BY Zenon
  <2> QED BY Zenon, <2>1, <2>2, <2>3, HubMovesOn
<1> QED BY Zenon, <1>1, <1>2, <1>3, <1>4

LEMMA HubTimerMoves ==
  ASSUME IInv, BInv, TimerFires \/ RecoveryTimeout
  PROVE  BInv'
<1>1. HubOnly /\ up' = up /\ up \in Queues
  BY Zenon, TypedQueues DEF IInv, TimerFires, RecoveryTimeout
<1>2. GrowAll(up, up', Calm)
  BY Zenon, <1>1, GrowAllSame
<1>3. Terminate(down, TRUE) \/ (direct # "null" /\ FallBack)
  BY Zenon DEF TimerFires, RecoveryTimeout
<1> QED BY Zenon, <1>1, <1>2, <1>3, HubMovesOn

\* The destination's release is the one message of the choice a steady step
\* sends.
LEMMA OnEstablishedMoves ==
  ASSUME IInv, BInv, OnEstablished
  PROVE  BInv'
<1> USE EndsAre
<1>1. HubOnly /\ HubApart /\ conn' = conn /\ GrowAll(up, up', Calm) /\ down \in Queues
  BY Zenon, HubOnlyApart, TakeFromWorker, TypedQueues DEF OnEstablished, IInv
<1>2. CASE direct = "ready" /\ Sends("destination")
  <2> DEFINE m == Msg("commit")
  <2>1. UNCHANGED <<mode, gen>> /\ down' = Queue(down, "destination", m)
    BY Zenon, <1>2 DEF OnEstablished, Dropped
  <2>2. m \in Messages /\ m.t \in CalmDown
    BY Zenon, MsgType, ControlsAre DEF CalmDown
  <2> HIDE DEF m
  <2>3. GrowAll(down, down', CalmDown) /\ down'["source"] = down["source"]
    BY Zenon, <1>1, <2>1, <2>2, GrowsQueue
  <2>4. /\ Grows(down["source"], down'["source"], Calm)
        /\ Grows(down["destination"], down'["destination"], CalmDown)
    BY Zenon, <2>3, GrowsSame DEF GrowAll
  <2>5. Steady
    BY Zenon, <1>1, <2>4, Steadily
  <2>6. SourceSteady /\ TargetSteady /\ HubSteady /\ LinksSteady
    BY Zenon, <1>1, <2>1, SourceKept, TargetKept, HubKept, LinksKept DEF HubApart
  <2> QED BY Zenon, <2>5, <2>6, SteadyStep
<1>3. CASE ~(direct = "ready" /\ Sends("destination"))
  <2>1. UNCHANGED <<hub, down>> \/ Terminate(down, TRUE)
    BY Zenon, <1>3 DEF OnEstablished, Dropped
  <2> QED BY Zenon, <1>1, <2>1, HubMovesOn
<1> QED BY Zenon, <1>2, <1>3

LEMMA OnTerminalMoves ==
  ASSUME IInv, BInv, NEW x \in Ends, OnTerminal(x)
  PROVE  BInv'
<1>1. HubOnly /\ HubApart /\ conn' = conn /\ GrowAll(up, up', Calm) /\ down \in Queues
  BY Zenon, HubOnlyApart, TakeFromWorker, TypedQueues DEF OnTerminal, IInv
<1>2. CASE mode \in {"none", "ended"}
  <2>1. UNCHANGED <<hub, down>>
    BY Zenon, <1>2 DEF OnTerminal
  <2> QED BY Zenon, <1>1, <2>1, HubMovesOn
<1>3. CASE mode \notin {"none", "ended"}
  <2> DEFINE z == CHOOSE y \in Ends : y # x
             d == Queue(down, z, Msg("end"))
  <2>1. z \in Ends
    BY Zenon DEF Ends
  <2>2. Terminate(d, FALSE)
    BY Zenon, <1>3 DEF OnTerminal
  <2> HIDE DEF z
  <2>3. GrowAll(down, d, Calm)
    BY Zenon, <1>1, <2>1, QueueCalm, CalmKinds
  <2> HIDE DEF d
  <2>4. LinksSteady
    BY Zenon, <1>1, LinksKept DEF HubApart
  <2> QED BY Zenon, <1>1, <2>2, <2>3, <2>4, TerminateMoves
<1> QED BY Zenon, <1>2, <1>3

LEMMA HubNoticesMoves ==
  ASSUME IInv, BInv, NEW x \in Ends, HubNotices(x)
  PROVE  BInv'
<1> USE EndsAre
<1>1. HubApart /\ up' = up /\ up \in Queues /\ down \in Queues
  BY Zenon, TypedQueues DEF IInv, HubNotices, HubApart, source, destination, peers, bytes
<1>2. GrowAll(up, up', Calm) /\ GrowAll(down, down, Calm)
  BY Zenon, <1>1, GrowAllSame
<1>3. conn[x] = "lost" /\ conn'[x] = "down" /\ \A y \in Ends : y # x => conn'[y] = conn[y]
  BY Zenon DEF HubNotices, IInv, TypeOK
<1>4. mode' # "relay"
  BY Zenon DEF HubNotices, Terminate, Suspend, hub
<1>5. LinksSteady
  BY Zenon, <1>1, <1>3, <1>4 DEF LinksSteady, BInv, Linked, HubApart, Writing
<1>6. UNCHANGED <<hub, down>> \/ Terminate(down, TRUE) \/ (mode = "relay" /\ Suspend(down))
  BY Zenon DEF HubNotices
<1>7. CASE UNCHANGED <<hub, down>>
  <2>1. HubSteady /\ GrowAll(down, down', Calm)
    BY Zenon, <1>2, <1>7, HubKept DEF hub
  <2> QED BY Zenon, <1>1, <1>2, <1>5, <2>1, HubMoves
<1>8. CASE Terminate(down, TRUE)
  BY Zenon, <1>1, <1>2, <1>5, <1>8, TerminateMoves
<1>9. CASE mode = "relay" /\ Suspend(down)
  BY Zenon, <1>1, <1>2, <1>5, <1>9, SuspendMoves
<1> QED BY Zenon, <1>6, <1>7, <1>8, <1>9

\* The source is released: no relay was opened, and none will be.
LEMMA OnCommittedMoves ==
  ASSUME IInv, BInv, OnCommitted
  PROVE  BInv'
<1> USE EndsAre
<1>1. HubOnly /\ HubApart /\ conn' = conn /\ GrowAll(up, up', Calm) /\ down \in Queues
  BY Zenon, HubOnlyApart, TakeFromWorker, TypedQueues DEF OnCommitted, IInv
<1>2. CASE direct = "destination-committing" /\ Sends("source")
  <2> DEFINE m == Msg("commit")
  <2>1. mode' = "direct" /\ down' = Queue(down, "source", m) /\ mode = "negotiating"
    BY Zenon, <1>2 DEF OnCommitted, Dropped, IInv, TypeOK, Exclusion
  <2>2. m \in Messages /\ m.t \in {"commit"}
    BY Zenon, MsgType, ControlsAre
  <2> HIDE DEF m
  <2>3. GrowAll(down, down', {"commit"}) /\ down'["destination"] = down["destination"]
    BY Zenon, <1>1, <2>1, <2>2, GrowsQueue
  <2>4. Has(down'["source"], "opened") => Has(down["source"], "opened")
    <3>1. "opened" \notin {"commit"}
      BY Zenon
    <3> QED BY Zenon, <2>3, <3>1 DEF GrowAll, Grows
  <2>5. /\ Has(up'["source"], "data") => Has(up["source"], "data")
        /\ Has(up'["destination"], "opened") => Has(up["destination"], "opened")
    BY Zenon, <1>1, CalmKinds DEF GrowAll, Grows
  <2>6. UNCHANGED <<ses, flow, susp, sgen, pipe, sent, dst, rel, got, ws>>
    BY Zenon, <1>1 DEF HubApart
  <2>7. BytesInOrder' /\ Reading'
    BY Zenon, <2>6 DEF BInv, BytesInOrder, Reading, Undirected
  <2>8. rel = "none" /\ ~Has(down["destination"], "open")
    BY Zenon, <2>1 DEF BInv, RelayWay
  <2>9. DirectWay'
    BY Zenon, <2>1, <2>3, <2>6, <2>8 DEF BInv, DirectWay, Released
  <2>10. RelayWay'
    BY Zenon, <2>1, <2>3, <2>4, <2>5, <2>6, <2>8 DEF BInv, RelayWay
  <2>11. Linked'
    BY Zenon, <1>1, <2>1, <2>4, <2>6 DEF BInv, Linked
  <2>12. Relayed'
    BY Zenon, <2>1, <2>3, <2>6 DEF BInv, Relayed, Relays, Serving
  <2> QED BY Zenon, <2>7, <2>9, <2>10, <2>11, <2>12 DEF BInv
<1>3. CASE ~(direct = "destination-committing" /\ Sends("source"))
  <2>1. UNCHANGED <<hub, down>> \/ Terminate(down, TRUE)
    BY Zenon, <1>3 DEF OnCommitted, Dropped
  <2> QED BY Zenon, <1>1, <2>1, HubMovesOn
<1> QED BY Zenon, <1>2, <1>3

\* The target's answer goes to the source.
LEMMA OnOpenedMoves ==
  ASSUME IInv, BInv, OnOpened
  PROVE  BInv'
<1> USE EndsAre
<1>1. HubOnly /\ HubApart /\ conn' = conn /\ GrowAll(up, up', Calm) /\ down \in Queues
  BY Zenon, HubOnlyApart, TakeFromWorker, TypedQueues DEF OnOpened, IInv
<1>2. CASE mode \in {"relay", "suspended"} /\ ~opened /\ Head(up["destination"]).n = gen
  <2> DEFINE m == Note("opened", gen)
  <2>1. UNCHANGED <<mode, gen>> /\ down' = Queue(down, "source", m)
    BY Zenon, <1>2 DEF OnOpened
  <2>2. m \in Messages /\ m.t \in {"opened"}
    BY Zenon, NoteType, GenTypes, ControlsAre DEF IInv
  <2> HIDE DEF m
  <2>3. GrowAll(down, down', {"opened"}) /\ down'["destination"] = down["destination"]
    BY Zenon, <1>1, <2>1, <2>2, GrowsQueue
  <2>4. Has(down'["source"], "commit") => Has(down["source"], "commit")
    <3>1. "commit" \notin {"opened"}
      BY Zenon
    <3> QED BY Zenon, <2>3, <3>1 DEF GrowAll, Grows
  <2>5. /\ Has(up'["source"], "data") => Has(up["source"], "data")
        /\ Has(up'["destination"], "opened") => Has(up["destination"], "opened")
        /\ \A a, b \in Nat : Run(up["source"], a, b) => Run(up'["source"], a, b)
    BY Zenon, <1>1, CalmKinds DEF GrowAll, Grows
  <2>6. UNCHANGED <<ses, flow, susp, sgen, pipe, sent, dst, rel, got, ws>>
    BY Zenon, <1>1 DEF HubApart
  <2>7. Has(up["destination"], "opened")
    <3>1. up["destination"] \in Seq(Messages) /\ up["destination"] # <<>>
          /\ Head(up["destination"]).t = "opened"
      BY Zenon, TypedQueues DEF IInv, OnOpened, FromWorker, Queues
    <3> QED BY Zenon, <3>1, TailHas
  <2>8. rel \notin {"none", "connecting"}
    BY Zenon, <2>7 DEF BInv, RelayWay
  <2>9. BytesInOrder' /\ Reading'
    BY Zenon, <2>6 DEF BInv, BytesInOrder, Reading, Undirected
  <2>10. DirectWay'
    BY Zenon, <2>1, <2>3, <2>4, <2>6 DEF BInv, DirectWay, Released
  <2>11. RelayWay'
    BY Zenon, <2>1, <2>3, <2>5, <2>6, <2>8 DEF BInv, RelayWay
  <2>12. Linked'
    BY Zenon, <1>1, <2>1, <2>3, <2>6 DEF BInv, Linked
  <2>13. Relayed'
    <3>1. PICK c \in Nat, d \in Nat : Relays(c, d)
      BY Zenon DEF BInv, Relayed
    <3>2. Relays(c, d)'
      BY Zenon, <1>1, <2>1, <2>3, <2>5, <2>6, <3>1 DEF Relays, Serving, Writing
    <3> QED BY Zenon, <3>2 DEF Relayed
  <2> QED BY Zenon, <2>9, <2>10, <2>11, <2>12, <2>13 DEF BInv
<1>3. CASE ~(mode \in {"relay", "suspended"} /\ ~opened /\ Head(up["destination"]).n = gen)
  <2>1. UNCHANGED <<hub, down>> \/ Terminate(down, TRUE)
    BY Zenon, <1>3 DEF OnOpened, hub
  <2> QED BY Zenon, <1>1, <2>1, HubMovesOn
<1> QED BY Zenon, <1>2, <1>3

\* A byte passes the hub: it was the first of those before it.
LEMMA OnDataMoves ==
  ASSUME IInv, BInv, OnData
  PROVE  BInv'
<1> USE EndsAre
<1> DEFINE m == Head(up["source"])
           r == Tail(up["source"])
<1>1. HubOnly /\ HubApart /\ conn' = conn /\ up \in Queues /\ down \in Queues
  BY Zenon, HubOnlyApart, TypedQueues DEF OnData, IInv
<1>2. up["source"] \in Seq(Messages) /\ up["source"] # <<>> /\ m.t = "data"
  BY Zenon, <1>1 DEF OnData, FromWorker, Queues
<1>3. /\ r \in Seq(Messages) /\ m \in Messages /\ Has(up["source"], m.t)
      /\ \A t : Has(r, t) => Has(up["source"], t)
  BY Zenon, <1>2, TailHas
<1>4. up'["source"] = r /\ up'["destination"] = up["destination"]
  BY Zenon, <1>1, <1>3 DEF OnData, FromWorker, Queues, Ends
<1>5. Has(up["source"], "data")
  BY Zenon, <1>2, <1>3
<1>6. /\ mode \in {"relay", "suspended", "ended"}
      /\ rel \notin {"none", "connecting"} /\ ses \in {"relay", "closed"}
  BY Zenon, <1>5 DEF IInv, Exclusion, Relaying, BInv, RelayWay
<1>7. UNCHANGED <<ses, flow, susp, sgen, pipe, sent, dst, rel, got, ws>>
  BY Zenon, <1>1 DEF HubApart
<1>8. BytesInOrder' /\ Reading'
  BY Zenon, <1>7 DEF BInv, BytesInOrder, Reading, Undirected
<1>9. CASE mode = "relay" /\ gen = 0
  <2>c. Sends("destination")
    BY Zenon, <1>9 DEF BInv, Linked, Sends
  <2>1. down' = Queue(down, "destination", m) /\ UNCHANGED <<mode, gen>>
    BY Zenon, <1>9, <2>c DEF OnData, hub
  <2> HIDE DEF m, r
  <2>2. m.t \in {"data"}
    BY Zenon, <1>2
  <2> DEFINE e == Queue(down, "destination", m)
  <2>a. /\ GrowAll(down, e, {"data"})
        /\ \A y \in Ends : y # "destination" => e[y] = down[y]
        /\ e["destination"] = IF conn["destination"] = "up" THEN Append(down["destination"], m)
                              ELSE down["destination"]
    BY Zenon, <1>1, <1>3, <2>2, GrowsQueue
  <2>b. down' = e
    BY Zenon, <2>1
  <2> HIDE DEF e
  <2>3. /\ GrowAll(down, down', {"data"}) /\ down'["source"] = down["source"]
        /\ conn["destination"] = "up" => down'["destination"] = Append(down["destination"], m)
        /\ conn["destination"] # "up" => down'["destination"] = down["destination"]
    BY Zenon, <2>a, <2>b
  <2>4. /\ Has(down'["destination"], "open") => Has(down["destination"], "open")
        /\ Once(down["destination"]) => Once(down'["destination"])
    <3>1. "open" \notin {"data"}
      BY Zenon
    <3> QED BY Zenon, <2>3, <3>1 DEF GrowAll, Grows
  <2>5. DirectWay'
    BY Zenon, <1>7, <2>1, <2>3, <2>4 DEF BInv, DirectWay, Released
  <2>6. RelayWay'
    BY Zenon, <1>6, <1>7, <2>1, <2>4, <1>9 DEF BInv, RelayWay
  <2>7. Linked'
    BY Zenon, <1>1, <1>7, <2>1, <2>3 DEF BInv, Linked
  <2>8. Relayed'
    <3>1. PICK c \in Nat, d \in Nat : Relays(c, d)
      BY Zenon DEF BInv, Relayed
    <3>2. CASE conn["destination"] = "up"
      <4>1. Run(up["source"], c, d) /\ c <= d
        BY Zenon, <1>9, <3>1, <3>2 DEF Relays, Serving
      <4>2. m.n = c + 1 /\ Run(r, c + 1, d)
        BY Zenon, <1>2, <4>1, RunTaken DEF m, r
      <4>3. m.n \in (c + 1)..d
        <5>1. \A i \in DOMAIN up["source"] :
                up["source"][i].t = "data" => up["source"][i].n \in (c + 1)..d
          BY Zenon, <4>1 DEF Run
        <5>2. 1 \in DOMAIN up["source"] /\ up["source"][1] = m
          BY <1>2 DEF m
        <5> QED BY Zenon, <1>2, <5>1, <5>2
      <4>4. c + 1 <= d /\ c + 1 \in Nat
        BY <4>2, <4>3
      <4>5. ASSUME rel = "open"
            PROVE  Len(got) <= c + 1 /\ Run(down'["destination"], Len(got), c + 1)
        <5>1. Len(got) \in Nat /\ down["destination"] \in Seq(Messages)
          BY <1>1 DEF IInv, TypeOK, Queues
        <5>2. Len(got) <= c /\ Run(down["destination"], Len(got), c)
          BY Zenon, <3>1, <4>5 DEF Relays
        <5>3. Run(Append(down["destination"], m), Len(got), c + 1)
          BY Zenon, <1>2, <1>3, <4>2, <5>1, <5>2, RunSent
        <5>4. Len(got) <= c + 1
          BY <5>1, <5>2
        <5> QED BY Zenon, <2>3, <3>2, <5>3, <5>4
      <4>6. Relays(c + 1, d)'
        BY Zenon, <1>4, <1>7, <1>9, <3>1, <3>2, <4>2, <4>4, <4>5 DEF Relays, Serving, Writing
      <4> QED BY Zenon, <4>4, <4>6 DEF Relayed
    <3>3. CASE conn["destination"] # "up"
      <4>1. down'["destination"] = down["destination"]
        BY Zenon, <2>3, <3>3
      <4>2. Relays(c, d)'
        BY Zenon, <1>1, <1>7, <3>1, <3>3, <4>1 DEF Relays, Serving
      <4> QED BY Zenon, <4>2 DEF Relayed
    <3> QED BY Zenon, <3>2, <3>3
  <2> QED BY Zenon, <1>8, <2>5, <2>6, <2>7, <2>8 DEF BInv
<1>10. CASE ~(mode = "relay" /\ gen = 0)
  <2>1. (UNCHANGED <<hub, down>> /\ mode \in {"suspended", "ended"}) \/ Terminate(down, TRUE)
    BY Zenon, <1>6, <1>10 DEF OnData
  <2>2. /\ GrowAll(down, down', Calm) /\ mode' \in {"suspended", "ended"}
        /\ mode = "ended" => mode' = "ended"
    <3>1. CASE UNCHANGED <<hub, down>> /\ mode \in {"suspended", "ended"}
      BY Zenon, <1>1, <3>1, GrowAllSame DEF hub
    <3>2. CASE Terminate(down, TRUE)
      BY Zenon, <1>1, <3>2, TerminateGrows
    <3> QED BY Zenon, <2>1, <3>1, <3>2
  <2>3. /\ \A t \in {"commit", "opened"} : Has(down'["source"], t) => Has(down["source"], t)
        /\ \A t \in {"open", "data"} : Has(down'["destination"], t) => Has(down["destination"], t)
        /\ Once(down["destination"]) => Once(down'["destination"])
        /\ \A a, b \in Nat : Run(down["destination"], a, b) => Run(down'["destination"], a, b)
    BY Zenon, <2>2, CalmKinds DEF GrowAll, Grows
  <2>4. DirectWay'
    BY Zenon, <1>6, <1>7, <2>2, <2>3 DEF BInv, DirectWay, Released
  <2>5. RelayWay'
    BY Zenon, <1>6, <1>7, <2>2, <2>3 DEF BInv, RelayWay
  <2>6. Linked'
    BY Zenon, <1>1, <1>7, <2>2 DEF BInv, Linked
  <2>7. Relayed'
    <3>1. PICK c \in Nat, d \in Nat : Relays(c, d)
      BY Zenon DEF BInv, Relayed
    <3>2. Len(got) \in Nat
      BY DEF IInv, TypeOK
    <3>3. Relays(c, d)'
      BY Zenon, <1>7, <2>2, <2>3, <3>1, <3>2 DEF Relays, Serving
    <3> QED BY Zenon, <3>3 DEF Relayed
  <2> QED BY Zenon, <1>8, <2>4, <2>5, <2>6, <2>7 DEF BInv
<1> QED BY Zenon, <1>9, <1>10

-----------------------------------------------------------------------------
(* The bytes and the steps of the source.                                  *)

\* A step of the source that moves no byte and chooses no route.
LEMMA SourceMoves ==
  ASSUME IInv, BInv, SourceSteady, UNCHANGED <<hub, destination, links, got>>,
         GrowAll(up, up', Calm), GrowAll(down, down', Calm)
  PROVE  BInv'
<1>1. HubSteady /\ TargetSteady /\ LinksSteady
  BY Zenon, HubKept, TargetKept, LinksKept DEF hub, destination, links
<1> QED BY Zenon, <1>1, SteadilyAll, SteadyStep

LEMMA DestroyMoves ==
  ASSUME IInv, BInv, NEW notice \in Seq(Messages), \A t : Has(notice, t) => t = "end",
         DestroySource(notice), UNCHANGED <<hub, destination, links, got>>,
         GrowAll(down, down', Calm)
  PROVE  BInv'
<1>1. PICK ms \in Seq(Messages) :
        Post("source", ms) /\ \A t : Has(ms, t) => t \in {"closed", "fallback", "end"}
  BY Zenon, DestroyPosts
<1>a. \A t \in {"closed", "fallback", "end"} : t \in Calm
  BY Zenon, CalmKinds
<1>2. \A t : Has(ms, t) => t \in Calm
  BY Zenon, <1>1, <1>a
<1>3. up \in Queues
  BY Zenon, TypedQueues DEF IInv
<1>4. GrowAll(up, up', Calm)
  BY Zenon, <1>1, <1>2, <1>3, EndsAre, GrowsPost
<1>5. SourceSteady
  BY Zenon DEF DestroySource, SourceSteady
<1> QED BY Zenon, <1>4, <1>5, SourceMoves

LEMMA DialMoves ==
  ASSUME IInv, BInv, OnConnect \/ DialFails \/ DialSucceeds \/ MarkerArrives
  PROVE  BInv'
<1> USE EndsAre
<1>1. UNCHANGED <<hub, destination, links, got>> /\ UNCHANGED <<ses, flow, susp, sgen, pipe, sent>>
  BY Zenon DEF OnConnect, DialFails, DialSucceeds, MarkerArrives, SourceOnly, bytes, peers
<1>2. up \in Queues /\ down \in Queues
  BY Zenon, TypedQueues DEF IInv
<1>3. GrowAll(down, down', Calm)
  <2>1. CASE OnConnect
    BY Zenon, <2>1, TakeFromHub DEF OnConnect
  <2>2. CASE DialFails \/ DialSucceeds \/ MarkerArrives
    BY Zenon, <1>2, <2>2, GrowAllSame DEF DialFails, DialSucceeds, MarkerArrives
  <2> QED BY Zenon, <2>1, <2>2
<1>4. up' = up \/ Post("source", <<Msg("fallback")>>) \/ Post("source", <<Msg("established")>>)
  BY Zenon DEF OnConnect, DialFails, DialSucceeds, MarkerArrives
<1>5. GrowAll(up, up', Calm)
  BY Zenon, <1>2, <1>4, GrowAllSame, PostCalm, CalmKinds
<1> QED BY Zenon, <1>1, <1>3, <1>5, SourceKept, SourceMoves

\* A direct attempt is given up: the socket is kept, and paused.
LEMMA AbortMoves ==
  ASSUME IInv, BInv, Abort, SourceOnly, GrowAll(up, up', Calm), GrowAll(down, down', Calm)
  PROVE  BInv'
<1>1. SourceSteady
  BY Zenon DEF Abort, SourceOnly, bytes, SourceSteady, BInv, Reading
<1> QED BY Zenon, <1>1, SourceMoves DEF SourceOnly, bytes

LEMMA MarkerFailsMoves ==
  ASSUME IInv, BInv, MarkerFails
  PROVE  BInv'
<1>1. GrowAll(up, up', Calm) /\ GrowAll(down, down', Calm)
  BY Zenon, EndsAre, PostCalm, CalmKinds, TypedQueues, GrowAllSame DEF MarkerFails, IInv
<1> QED BY Zenon, <1>1, AbortMoves DEF MarkerFails

LEMMA OnSourceCancelMoves ==
  ASSUME IInv, BInv, OnSourceCancel
  PROVE  BInv'
<1> USE EndsAre
<1>1. SourceOnly /\ GrowAll(down, down', Calm) /\ up \in Queues
  BY Zenon, TakeFromHub, TypedQueues DEF OnSourceCancel, IInv
<1>2. UNCHANGED <<hub, destination, links, got>>
  BY Zenon, <1>1 DEF SourceOnly, bytes
<1>3. CASE rec = "open"
  <2>1. Abort /\ (Post("source", <<Msg("fallback")>>) \/ Post("source", <<>>))
    BY Zenon, <1>3 DEF OnSourceCancel
  <2>2. <<>> \in Seq(Messages) /\ \A t : Has(<<>>, t) => t \in Calm
    BY Zenon, Notices, CalmKinds
  <2>3. Post("source", <<>>) => GrowAll(up, up', Calm)
    BY Zenon, <1>1, <2>2, GrowsPost
  <2>4. GrowAll(up, up', Calm)
    BY Zenon, <2>1, <2>3, PostCalm, CalmKinds
  <2> QED BY Zenon, <1>1, <2>1, <2>4, AbortMoves
<1>4. CASE rec = "committed"
  <2>1. DestroySource(Notice)
    BY Zenon, <1>4 DEF OnSourceCancel
  <2> QED BY Zenon, <1>1, <1>2, <2>1, Notices, DestroyMoves
<1>5. CASE rec \notin {"open", "committed"}
  <2>1. UNCHANGED <<source, peers, up>>
    BY Zenon, <1>5 DEF OnSourceCancel
  <2>2. SourceSteady
    BY Zenon, <1>1, <2>1, SourceKept DEF SourceOnly, source, peers, bytes
  <2> QED BY Zenon, <1>1, <1>2, <2>1, <2>2, GrowAllSame, SourceMoves
<1> QED BY Zenon, <1>3, <1>4, <1>5

LEMMA OnSourceTerminalMoves ==
  ASSUME IInv, BInv, OnSourceTerminal
  PROVE  BInv'
<1> USE EndsAre
<1>1. PICK t \in {"end", "error"} : FromHub("source", t)
  BY Zenon DEF OnSourceTerminal
<1>2. t # "data"
  BY Zenon
<1>3. SourceOnly /\ GrowAll(down, down', Calm) /\ up \in Queues
  BY Zenon, <1>1, <1>2, TakeFromHub, TypedQueues DEF OnSourceTerminal, IInv
<1>4. UNCHANGED <<hub, destination, links, got>>
  BY Zenon, <1>3 DEF SourceOnly, bytes
<1>5. CASE ses = "closed"
  <2>1. UNCHANGED <<source, peers, up>>
    BY Zenon, <1>5 DEF OnSourceTerminal
  <2>2. SourceSteady
    BY Zenon, <1>3, <2>1, SourceKept DEF SourceOnly, source, peers, bytes
  <2> QED BY Zenon, <1>3, <1>4, <2>1, <2>2, GrowAllSame, SourceMoves
<1>6. CASE ses # "closed"
  <2>1. DestroySource(<<>>)
    BY Zenon, <1>6 DEF OnSourceTerminal
  <2> QED BY Zenon, <1>3, <1>4, <2>1, Notices, DestroyMoves
<1> QED BY Zenon, <1>5, <1>6

LEMMA OnSuspendMoves ==
  ASSUME IInv, BInv, OnSuspend \/ OnResumed
  PROVE  BInv'
<1> USE EndsAre
<1>1. SourceOnly /\ GrowAll(down, down', Calm) /\ up \in Queues
  BY Zenon, TakeFromHub, TypedQueues DEF OnSuspend, OnResumed, IInv
<1>2. UNCHANGED <<hub, destination, links, got, sent>>
  BY Zenon, <1>1 DEF SourceOnly, bytes
<1>3. CASE DestroySource(Notice)
  BY Zenon, <1>1, <1>2, <1>3, Notices, DestroyMoves
<1>4. CASE UNCHANGED <<source, peers, up>>
  <2>1. SourceSteady
    BY Zenon, <1>2, <1>4, SourceKept DEF source, peers
  <2> QED BY Zenon, <1>1, <1>2, <1>4, <2>1, GrowAllSame, SourceMoves
<1>5. CASE OnSuspend /\ susp' = TRUE /\ flow' = "paused" /\ Post("source", <<Note("resume", sgen)>>)
           /\ UNCHANGED <<ses, task, rec, deaf, sgen, peers>> /\ ses # "closed"
  <2> DEFINE m == Note("resume", sgen)
  <2>1. m \in Messages /\ m.t \in Calm /\ Post("source", <<m>>)
    BY Zenon, <1>5, GenTypes, ResumeNote DEF IInv
  <2> HIDE DEF m
  <2>2. GrowAll(up, up', Calm)
    BY Zenon, <2>1, PostNote
  <2>3. SourceSteady
    BY Zenon, <1>2, <1>5 DEF SourceSteady, peers
  <2> QED BY Zenon, <1>1, <1>2, <2>2, <2>3, SourceMoves
<1>6. CASE OnResumed /\ sgen' = Head(down["source"]).n /\ ses # "closed"
           /\ UNCHANGED <<ses, task, rec, deaf, peers, up>>
  <2>1. sgen' # 0
    <3>1. down["source"] \in Seq(Messages) /\ down["source"] # <<>> /\ Head(down["source"]).t = "resumed"
      BY Zenon, <1>6, TypedQueues DEF OnResumed, FromHub, IInv, Queues
    <3>2. Head(down["source"]) \in Messages
      BY Zenon, <3>1, TailHas
    <3> QED BY Zenon, <1>6, <3>1, <3>2, ResumedIsNew
  <2>2. SourceSteady
    BY Zenon, <1>2, <1>6, <2>1 DEF SourceSteady, peers
  <2> QED BY Zenon, <1>1, <1>2, <1>6, <2>2, GrowAllSame, SourceMoves
<1>7. ASSUME OnSuspend PROVE BInv'
  BY Zenon, <1>3, <1>4, <1>5, <1>7 DEF OnSuspend
<1>8. ASSUME OnResumed PROVE BInv'
  BY Zenon, <1>3, <1>4, <1>6, <1>8 DEF OnResumed
<1> QED BY Zenon, <1>7, <1>8

\* What ends the session without a message of the hub.
LEMMA SourceEndsMoves ==
  ASSUME IInv, BInv, ProcessEnds \/ SourceLifetime \/ SourceNoticesChannel
  PROVE  BInv'
<1>1. down' = down /\ SourceOnly /\ up \in Queues /\ down \in Queues
  BY Zenon, TypedQueues DEF IInv, ProcessEnds, SourceLifetime, SourceNoticesChannel
<1>2. UNCHANGED <<hub, destination, links, got>> /\ GrowAll(down, down', Calm)
  BY Zenon, <1>1, GrowAllSame DEF SourceOnly, bytes
<1>3. CASE DestroySource(Notice)
  BY Zenon, <1>2, <1>3, Notices, DestroyMoves
<1>4. CASE UNCHANGED <<ses, flow, susp, sgen, peers, up>>
  <2>1. SourceSteady
    BY Zenon, <1>1, <1>4, SourceKept DEF SourceOnly, peers, bytes
  <2> QED BY Zenon, <1>1, <1>2, <1>4, <2>1, GrowAllSame, SourceMoves
<1> QED BY Zenon, <1>3, <1>4 DEF ProcessEnds, SourceLifetime, SourceNoticesChannel

LEMMA SourceNoticesLinkMoves ==
  ASSUME IInv, BInv, SourceNoticesLink
  PROVE  BInv'
<1> USE EndsAre
<1>1. /\ UNCHANGED <<ses, sgen, pipe, sent, dst, rel, got, mode, gen, conn, up, down>>
      /\ up \in Queues /\ down \in Queues
  BY Zenon, TypedQueues DEF SourceNoticesLink, hub, destination, peers, bytes, IInv
<1>2. Steady
  BY Zenon, <1>1, GrowAllSame, SteadilyAll
<1>3. SourceSteady
  BY Zenon, <1>1 DEF SourceNoticesLink, SourceSteady, BInv, Reading
<1>4. ws["source"] = "lost" /\ ws'["source"] = "down" /\ ws'["destination"] = ws["destination"]
  BY Zenon DEF SourceNoticesLink, IInv, TypeOK, Ends
<1>5. LinksSteady
  <2>1. Undirected' => susp'
    BY Zenon, <1>1 DEF SourceNoticesLink, Undirected
  <2>2. ~Writing'
    BY Zenon, <1>4 DEF Writing
  <2>3. \A x \in Ends : conn'[x] = "up" <=> ws'[x] = "up"
    BY Zenon, <1>1, <1>4 DEF BInv, Linked, Ends
  <2> QED BY Zenon, <1>1, <2>1, <2>2, <2>3 DEF LinksSteady
<1> QED BY Zenon, <1>1, <1>2, <1>3, <1>5, TargetKept, HubKept, SteadyStep

\* The source goes direct: it has read nothing, and no relay was opened.
LEMMA OnSourceCommitMoves ==
  ASSUME IInv, BInv, OnSourceCommit
  PROVE  BInv'
<1> USE EndsAre
<1>1. /\ SourceOnly /\ FromHub("source", "commit") /\ up' = up /\ up \in Queues /\ down \in Queues
      /\ UNCHANGED peers
  BY Zenon, TypedQueues DEF OnSourceCommit, IInv
<1>2. UNCHANGED <<mode, gen, dst, rel, got, sent, pipe, ws, conn>>
  BY Zenon, <1>1 DEF SourceOnly, hub, destination, links, bytes, peers
<1>3. Has(down["source"], "commit")
  BY Zenon, <1>1, FromHubHas
<1>4. Released /\ ses # "relay" /\ rel = "none" /\ ~Has(down["destination"], "open")
      /\ mode \in {"direct", "ended"}
  BY Zenon, <1>3 DEF IInv, Order, Exclusion, BInv, DirectWay
<1>5. Steady
  BY Zenon, <1>1, GrowAllSame, TakeFromHub, SteadilyAll
<1>6. /\ ses' = ses \/ (ses = "negotiating" /\ ses' = "direct")
      /\ flow' = "flowing" => flow = "flowing" \/ (ses' \in {"direct", "closed"} /\ flow # "destroyed")
      /\ flow = "destroyed" => flow' = "destroyed"
      /\ UNCHANGED <<susp, sgen>>
  BY Zenon, <1>4 DEF OnSourceCommit, IInv, TypeOK
<1>7. BytesInOrder'
  BY Zenon, <1>2 DEF BInv, BytesInOrder
<1>8. Reading'
  <2>1. /\ flow' = "flowing" /\ sgen' = 0 => ses' \in {"relay", "direct"}
        /\ ses' = "closed" => flow' = "destroyed"
        /\ ses' = "negotiating" => sent' = 0 /\ got' = <<>> /\ pipe' = <<>>
    BY Zenon, <1>2, <1>6 DEF BInv, Reading
  <2>2. Undirected' => Undirected /\ (flow' = "flowing" => flow = "flowing")
    BY Zenon, <1>6 DEF Undirected
  <2> QED BY Zenon, <1>2, <1>6, <2>1, <2>2 DEF BInv, Reading
<1>9. DirectWay'
  <2>1. ~Has(down'["destination"], "open")
    BY Zenon, <1>4, <1>5 DEF Steady
  <2>2. dst' = "committed" => \A i \in DOMAIN pipe' : pipe'[i] = Len(got') + i
    BY Zenon, <1>2 DEF BInv, DirectWay
  <2>3. Len(<<>>) + Len(<<>>) = 0
    OBVIOUS
  <2>4. dst' = "committed" /\ ses' = "direct" => Len(got') + Len(pipe') = sent'
    <3>1. CASE ses = "negotiating"
      <4>1. sent' = 0 /\ got' = <<>> /\ pipe' = <<>>
        BY Zenon, <1>2, <3>1 DEF BInv, Reading
      <4> QED BY <4>1
    <3>2. CASE ses # "negotiating"
      BY Zenon, <1>2, <1>6, <3>2 DEF BInv, DirectWay
    <3> QED BY Zenon, <3>1, <3>2
  <2> QED BY Zenon, <1>2, <1>4, <2>1, <2>2, <2>4 DEF DirectWay, Released
<1>10. RelayWay'
  <2>1. /\ ~Has(up'["destination"], "opened") /\ ~Has(down'["source"], "opened") /\ ses' # "relay"
        /\ ~Has(up'["source"], "data") /\ ~Has(down'["destination"], "data")
        /\ ~Has(down'["destination"], "open")
    BY Zenon, <1>4, <1>5, <1>6 DEF BInv, RelayWay, Steady
  <2>2. Once(down'["destination"])
    BY Zenon, <1>5 DEF BInv, RelayWay, Steady
  <2> QED BY Zenon, <1>2, <1>4, <2>1, <2>2 DEF RelayWay
<1>11. Linked'
  BY Zenon, <1>2 DEF BInv, Linked
<1>12. Relayed'
  <2>1. mode' # "relay" /\ rel' # "open"
    BY Zenon, <1>2, <1>4
  <2> QED BY Zenon, <2>1 DEF BInv, Relayed, Relays, Serving
<1> QED BY Zenon, <1>7, <1>8, <1>9, <1>10, <1>11, <1>12 DEF BInv

\* The relay serves the session: it has read nothing, and no byte is relayed.
LEMMA OnRelayOpenedMoves ==
  ASSUME IInv, BInv, OnRelayOpened
  PROVE  BInv'
<1> USE EndsAre
<1>1. /\ SourceOnly /\ FromHub("source", "opened") /\ up \in Queues /\ down \in Queues
      /\ GrowAll(down, down', Calm) /\ UNCHANGED <<hub, destination, links, got>>
  BY Zenon, TypedQueues, TakeFromHub DEF OnRelayOpened, SourceOnly, bytes, IInv
<1>2. UNCHANGED <<mode, gen, dst, rel, got, sent, ws, conn>>
  BY Zenon, <1>1 DEF SourceOnly, hub, destination, links, bytes
<1>3. CASE ses = "negotiating" /\ Head(down["source"]).n # sgen
  <2>1. DestroySource(Notice)
    BY Zenon, <1>3 DEF OnRelayOpened
  <2> QED BY Zenon, <1>1, <2>1, Notices, DestroyMoves
<1>4. CASE ses # "negotiating"
  <2>1. UNCHANGED <<source, peers, up>>
    BY Zenon, <1>4 DEF OnRelayOpened
  <2>2. SourceSteady
    BY Zenon, <1>2, <2>1, SourceKept DEF source, peers
  <2> QED BY Zenon, <1>1, <2>1, <2>2, GrowAllSame, SourceMoves
<1>5. CASE ses = "negotiating" /\ Head(down["source"]).n = sgen
  <2>1. ses' = "relay" /\ flow' = (IF susp THEN flow ELSE "flowing") /\ UNCHANGED <<susp, sgen, peers, up>>
    BY Zenon, <1>5 DEF OnRelayOpened
  <2>a. pipe' = pipe
    BY Zenon, <2>1 DEF peers
  <2>2. Has(down["source"], "opened")
    BY Zenon, <1>1, FromHubHas
  <2>3. rel \notin {"none", "connecting"}
    BY Zenon, <2>2 DEF BInv, RelayWay
  <2>4. sent = 0 /\ got = <<>> /\ pipe = <<>>
    BY Zenon, <1>5 DEF BInv, Reading
  <2>5. ~Has(up["source"], "data") /\ ~Has(down["destination"], "data")
    BY Zenon, <1>5 DEF BInv, RelayWay
  <2>6. Steady
    BY Zenon, <1>1, <2>1, GrowAllSame, SteadilyAll
  <2>7. BytesInOrder' /\ Reading'
    <3>1. Undirected' => Undirected
      BY Zenon, <1>5, <2>1 DEF Undirected
    <3>2. Undirected' /\ susp' => flow' # "flowing"
      BY Zenon, <2>1, <3>1 DEF BInv, Reading
    <3> QED BY Zenon, <1>2, <2>1, <3>1, <3>2 DEF BInv, BytesInOrder, Reading
  <2>8. DirectWay'
    BY Zenon, <1>2, <2>1, <2>a, <2>6 DEF BInv, DirectWay, Released, Steady
  <2>9. RelayWay'
    BY Zenon, <1>2, <2>1, <2>3, <2>6 DEF BInv, RelayWay, Steady
  <2>10. Linked'
    BY Zenon, <1>2 DEF BInv, Linked
  <2>11. Relayed'
    <3>1. ~Has(up'["source"], "data") /\ ~Has(down'["destination"], "data")
      BY Zenon, <2>5, <2>6 DEF Steady
    <3>2. 0 \in Nat /\ 0 <= 0 /\ Len(<<>>) = 0
      OBVIOUS
    <3>3. Run(up'["source"], 0, 0) /\ Run(down'["destination"], 0, 0)
      BY Zenon, <3>1, <3>2, RunEmpty
    <3>4. Len(got') = 0 /\ sent' = 0
      BY Zenon, <1>2, <2>4, <3>2
    <3>5. Relays(0, 0)'
      BY Zenon, <3>2, <3>3, <3>4 DEF Relays
    <3> QED BY Zenon, <3>2, <3>5 DEF Relayed
  <2> QED BY Zenon, <2>7, <2>8, <2>9, <2>10, <2>11 DEF BInv
<1> QED BY Zenon, <1>3, <1>4, <1>5

\* A byte is read: it goes the way the session is on, after those before it.
LEMMA WriteMoves ==
  ASSUME IInv, BInv, Write
  PROVE  BInv'
<1> USE EndsAre
<1>1. /\ flow = "flowing" /\ sgen = 0 /\ sent' = sent + 1 /\ down' = down /\ up \in Queues /\ down \in Queues
      /\ UNCHANGED <<hub, destination, links, got>>
  BY Zenon, TypedQueues DEF Write, IInv
<1>2. UNCHANGED <<mode, gen, dst, rel, got, ws, conn, down>>
  BY Zenon, <1>1 DEF hub, destination, links
<1>3. sent \in Nat /\ sent + 1 \in 1..MaxBytes /\ sent + 1 \in Nat /\ Len(got) \in Nat
      /\ Len(pipe) \in Nat /\ pipe \in Seq(1..MaxBytes)
  BY RouteConstants DEF IInv, TypeOK, Write
<1>4. ses \in {"relay", "direct"}
  BY Zenon, <1>1 DEF BInv, Reading
<1>5. BytesInOrder'
  BY Zenon, <1>2 DEF BInv, BytesInOrder
<1>6. CASE ses = "relay"
  <2> DEFINE m == Data(sent + 1)
  <2>1. Post("source", <<m>>) /\ UNCHANGED <<source, peers>>
    BY Zenon, <1>6 DEF Write
  <2>2. UNCHANGED <<ses, flow, susp, sgen, pipe>>
    BY Zenon, <2>1 DEF source, peers
  <2>3. m \in Messages /\ m.t = "data" /\ m.n = sent + 1
    BY <1>3 DEF Data, Messages
  <2> HIDE DEF m
  <2>5. up["source"] \in Seq(Messages) /\ up["source"] \o <<m>> = Append(up["source"], m)
    BY <1>1, <2>3 DEF Queues
  <2>6. /\ up'["destination"] = up["destination"]
        /\ ws["source"] = "up" => up'["source"] = Append(up["source"], m)
        /\ ws["source"] # "up" => up'["source"] = up["source"]
    BY Zenon, <1>1, <2>1, <2>5 DEF Post, Queues, Ends
  <2>7. rel \notin {"none", "connecting"}
    BY Zenon, <1>6 DEF BInv, RelayWay
  <2>8. Reading'
    BY Zenon, <1>2, <1>6, <2>2 DEF BInv, Reading, Undirected
  <2>9. DirectWay'
    BY Zenon, <1>2, <1>6, <2>2 DEF BInv, DirectWay, Released
  <2>10. RelayWay'
    BY Zenon, <1>2, <1>6, <2>2, <2>6, <2>7 DEF BInv, RelayWay
  <2>11. Linked'
    BY Zenon, <1>2 DEF BInv, Linked
  <2>12. Relayed'
    <3>1. PICK c \in Nat, d \in Nat : Relays(c, d)
      BY Zenon DEF BInv, Relayed
    <3>2. CASE Serving /\ ws["source"] = "up"
      <4>1. Writing
        BY Zenon, <1>1, <1>6, <3>2 DEF Writing
      <4>2. d = sent /\ c <= d /\ Run(up["source"], c, d)
        BY Zenon, <3>1, <3>2, <4>1 DEF Relays
      <4>3. PICK e \in Nat : e = d + 1
        OBVIOUS
      <4>4. c <= e
        BY <4>2, <4>3
      <4>5. m.n = d + 1 /\ sent' = e
        BY Zenon, <1>1, <2>3, <4>2, <4>3
      <4>6. Run(Append(up["source"], m), c, d + 1)
        BY Zenon, <2>3, <2>5, <4>2, <4>5, RunSent
      <4>7. Run(up'["source"], c, e)
        BY Zenon, <2>6, <3>2, <4>3, <4>6
      <4>8. Relays(c, e)'
        BY Zenon, <1>2, <3>1, <4>4, <4>5, <4>7 DEF Relays
      <4> QED BY Zenon, <4>8 DEF Relayed
    <3>3. CASE ~(Serving /\ ws["source"] = "up")
      <4>1. ~(Serving' /\ Writing')
        BY Zenon, <1>2, <3>3 DEF Serving, Writing
      <4>2. Serving' => Run(up'["source"], c, d)
        BY Zenon, <1>2, <2>6, <3>1, <3>3 DEF Relays, Serving
      <4>3. Relays(c, d)'
        BY Zenon, <1>2, <3>1, <4>1, <4>2 DEF Relays
      <4> QED BY Zenon, <4>3 DEF Relayed
    <3> QED BY Zenon, <3>2, <3>3
  <2> QED BY Zenon, <1>5, <2>8, <2>9, <2>10, <2>11, <2>12 DEF BInv
<1>7. CASE ses = "direct" /\ rec = "committed" /\ chan = "up"
  <2>1. pipe' = Append(pipe, sent + 1) /\ UNCHANGED <<source, up>>
    BY Zenon, <1>7 DEF Write
  <2>2. UNCHANGED <<ses, flow, susp, sgen>>
    BY Zenon, <2>1 DEF source
  <2>3. Released /\ rel = "none" /\ ~Has(down["destination"], "open") /\ mode \in {"direct", "ended"}
    BY Zenon, <1>7 DEF BInv, DirectWay
  <2>4. Reading'
    BY Zenon, <1>7, <2>2 DEF BInv, Reading, Undirected
  <2>5. ASSUME dst = "committed"
        PROVE  (\A i \in DOMAIN pipe' : pipe'[i] = Len(got) + i) /\ Len(got) + Len(pipe') = sent + 1
    <3>1. (\A i \in DOMAIN pipe : pipe[i] = Len(got) + i) /\ Len(got) + Len(pipe) = sent
      BY Zenon, <1>7, <2>5 DEF BInv, DirectWay
    <3> DEFINE l == Len(got)
    <3> HIDE DEF l
    <3>2. l \in Nat /\ (\A i \in DOMAIN pipe : pipe[i] = l + i) /\ l + Len(pipe) = sent
      BY Zenon, <1>3, <3>1 DEF l
    <3>3. /\ Len(pipe') = Len(pipe) + 1 /\ pipe'[Len(pipe) + 1] = sent + 1
          /\ DOMAIN pipe' = 1..(Len(pipe) + 1) /\ \A i \in 1..Len(pipe) : pipe'[i] = pipe[i] /\ i \in DOMAIN pipe
      BY <1>3, <2>1
    <3>a. \A a, b \in Nat : a + (b + 1) = (a + b) + 1
      OBVIOUS
    <3>4. l + Len(pipe') = sent + 1
      <4>1. l + Len(pipe') = l + (Len(pipe) + 1)
        BY Zenon, <3>3
      <4>2. l + (Len(pipe) + 1) = (l + Len(pipe)) + 1
        BY Zenon, <1>3, <3>2, <3>a
      <4> QED BY Zenon, <3>2, <4>1, <4>2
    <3>5. ASSUME NEW i \in DOMAIN pipe' PROVE pipe'[i] = l + i
      <4>1. CASE i = Len(pipe) + 1
        BY <1>3, <3>2, <3>3, <4>1
      <4>2. CASE i # Len(pipe) + 1
        <5>1. i \in 1..Len(pipe)
          BY <1>3, <3>3, <4>2
        <5> QED BY Zenon, <3>2, <3>3, <5>1
      <4> QED BY Zenon, <4>1, <4>2
    <3> QED BY Zenon, <3>4, <3>5 DEF l
  <2>6. DirectWay'
    BY Zenon, <1>1, <1>2, <2>3, <2>5 DEF DirectWay, Released
  <2>7. RelayWay' /\ Linked'
    BY Zenon, <1>2, <2>1, <2>2 DEF BInv, RelayWay, Linked
  <2>8. mode' # "relay" /\ rel' # "open"
    BY Zenon, <1>2, <2>3
  <2>9. Relayed'
    BY Zenon, <2>8 DEF BInv, Relayed, Relays, Serving
  <2> QED BY Zenon, <1>5, <2>4, <2>6, <2>7, <2>9 DEF BInv
<1>8. CASE ses = "direct" /\ ~(rec = "committed" /\ chan = "up")
  <2>1. DestroySource(<<>>)
    BY Zenon, <1>8 DEF Write
  <2> QED BY Zenon, <1>1, <2>1, GrowAllSame, Notices, DestroyMoves
<1> QED BY Zenon, <1>4, <1>6, <1>7, <1>8

-----------------------------------------------------------------------------
(* The bytes and the steps of the destination and of the networks.         *)

LEMMA TargetMoves ==
  ASSUME IInv, BInv, TargetSteady, UNCHANGED <<hub, source, links, sent, pipe>>,
         GrowAll(up, up', Calm), GrowAll(down, down', Calm)
  PROVE  BInv'
<1>1. HubSteady /\ SourceSteady /\ LinksSteady
  BY Zenon, HubKept, SourceKept, LinksKept DEF hub, source, links
<1> QED BY Zenon, <1>1, SteadilyAll, SteadyStep

LEMMA OnOfferMoves ==
  ASSUME IInv, BInv, OnOffer
  PROVE  BInv'
<1> USE EndsAre
<1>1. DestinationOnly /\ UNCHANGED <<rel, peers>> /\ GrowAll(down, down', Calm)
  BY Zenon, TakeFromHub DEF OnOffer
<1>2. Post("destination", <<Msg("ready")>>) \/ Post("destination", <<Msg("fallback")>>)
  BY Zenon DEF OnOffer
<1>3. GrowAll(up, up', Calm)
  BY Zenon, <1>2, PostCalm, CalmKinds
<1>4. dst' = dst \/ (dst = "none" /\ dst' \in {"offered", "closed"})
  BY Zenon DEF OnOffer
<1>5. TargetSteady
  BY Zenon, <1>1, <1>4 DEF TargetSteady, Released, DestinationOnly, bytes
<1> QED BY Zenon, <1>1, <1>3, <1>5, TargetMoves DEF DestinationOnly, bytes, peers

LEMMA AcceptMoves ==
  ASSUME IInv, BInv, OfferExpires \/ AcceptChannel \/ TargetConnects \/ TargetFails
  PROVE  BInv'
<1> USE EndsAre
<1>1. /\ down' = down /\ DestinationOnly /\ rel' = rel /\ pipe' = pipe /\ up \in Queues /\ down \in Queues
      /\ dst \in {"offered", "accepting"} /\ dst' \in {"accepting", "open", "closed"}
  BY Zenon, TypedQueues DEF IInv, OfferExpires, AcceptChannel, TargetConnects, TargetFails, peers
<1>2. up' = up \/ Post("destination", <<Msg("fallback")>>)
  BY Zenon DEF OfferExpires, AcceptChannel, TargetConnects, TargetFails
<1>3. GrowAll(up, up', Calm) /\ GrowAll(down, down', Calm)
  BY Zenon, <1>1, <1>2, GrowAllSame, PostCalm, CalmKinds
<1>4. TargetSteady
  BY Zenon, <1>1 DEF TargetSteady, Released, DestinationOnly, bytes
<1> QED BY Zenon, <1>1, <1>3, <1>4, TargetMoves DEF DestinationOnly, bytes

\* The destination is released: no byte is on its way to it.
LEMMA OnDestinationCommitMoves ==
  ASSUME IInv, BInv, OnDestinationCommit
  PROVE  BInv'
<1> USE EndsAre
<1>1. /\ DestinationOnly /\ UNCHANGED <<rel, peers>> /\ GrowAll(down, down', Calm) /\ up \in Queues
  BY Zenon, TakeFromHub, TypedQueues DEF OnDestinationCommit, IInv
<1>2. up' = up \/ Post("destination", <<Msg("committed")>>)
  BY Zenon DEF OnDestinationCommit
<1>3. GrowAll(up, up', Calm)
  BY Zenon, <1>1, <1>2, GrowAllSame, PostCalm, CalmKinds
<1>4. CASE dst # "open"
  <2>1. dst' = dst
    BY Zenon, <1>4 DEF OnDestinationCommit
  <2>2. TargetSteady
    BY Zenon, <1>1, <2>1, TargetKept DEF DestinationOnly, bytes
  <2> QED BY Zenon, <1>1, <1>3, <2>2, TargetMoves DEF DestinationOnly, bytes, peers
<1>5. CASE dst = "open"
  <2>1. dst' = "committed"
    BY Zenon, <1>5 DEF OnDestinationCommit
  <2>2. ses # "direct" /\ pipe = <<>>
    BY Zenon, <1>5 DEF BInv, DirectWay, Released
  <2>3. UNCHANGED <<mode, gen, ses, flow, susp, sgen, sent, got, pipe, rel, ws, conn>>
    BY Zenon, <1>1 DEF DestinationOnly, hub, source, links, bytes, peers
  <2>4. Steady
    BY Zenon, <1>1, <1>3, SteadilyAll
  <2>5. BytesInOrder' /\ Reading'
    BY Zenon, <2>3 DEF BInv, BytesInOrder, Reading, Undirected
  <2>6. \A i \in DOMAIN <<>> : FALSE
    OBVIOUS
  <2>7. DirectWay'
    BY Zenon, <2>1, <2>2, <2>3, <2>4, <2>6 DEF BInv, DirectWay, Released, Steady
  <2>8. RelayWay'
    BY Zenon, <2>3, <2>4 DEF BInv, RelayWay, Steady
  <2>9. Linked'
    BY Zenon, <2>3, <2>4 DEF BInv, Linked, Steady
  <2>10. Relayed'
    <3>1. PICK c \in Nat, d \in Nat : Relays(c, d)
      BY Zenon DEF BInv, Relayed
    <3>2. Len(got) \in Nat
      BY DEF IInv, TypeOK
    <3>3. Relays(c, d)'
      BY Zenon, <2>3, <2>4, <3>1, <3>2 DEF Relays, Steady, Serving, Writing
    <3> QED BY Zenon, <3>3 DEF Relayed
  <2> QED BY Zenon, <2>5, <2>7, <2>8, <2>9, <2>10 DEF BInv
<1> QED BY Zenon, <1>4, <1>5

LEMMA FinishMoves ==
  ASSUME IInv, BInv, FinishDestination, DestinationOnly, GrowAll(down, down', Calm)
  PROVE  BInv'
<1> USE EndsAre
<1>1. Post("destination", <<Msg("closed")>>) \/ Post("destination", <<>>)
  BY Zenon DEF FinishDestination
<1>2. <<>> \in Seq(Messages) /\ (\A t : Has(<<>>, t) => t \in Calm) /\ up \in Queues
  BY Zenon, Notices, CalmKinds, TypedQueues DEF IInv
<1>3. Post("destination", <<>>) => GrowAll(up, up', Calm)
  BY Zenon, <1>2, GrowsPost
<1>4. GrowAll(up, up', Calm)
  BY Zenon, <1>1, <1>3, PostCalm, CalmKinds
<1>5. TargetSteady
  BY Zenon DEF FinishDestination, TargetSteady, DestinationOnly, bytes
<1> QED BY Zenon, <1>4, <1>5, TargetMoves DEF FinishDestination, DestinationOnly, bytes

LEMMA DestinationEndsMoves ==
  ASSUME IInv, BInv,
         \/ OnDestinationCancel \/ DestinationNoticesChannel \/ DestinationLifetime \/ TargetCloses
  PROVE  BInv'
<1> USE EndsAre
<1>1. DestinationOnly /\ up \in Queues /\ down \in Queues
  BY Zenon, TypedQueues DEF IInv, OnDestinationCancel, DestinationNoticesChannel,
     DestinationLifetime, TargetCloses
<1>2. GrowAll(down, down', Calm)
  <2>1. CASE OnDestinationCancel
    BY Zenon, <2>1, TakeFromHub DEF OnDestinationCancel
  <2>2. CASE ~OnDestinationCancel
    BY Zenon, <1>1, <2>2, GrowAllSame DEF DestinationNoticesChannel, DestinationLifetime, TargetCloses
  <2> QED BY Zenon, <2>1, <2>2
<1>3. \/ FinishDestination
      \/ dst' \in {dst, "closed"} /\ UNCHANGED <<rel, peers, up>>
  BY Zenon DEF OnDestinationCancel, DestinationNoticesChannel, DestinationLifetime, TargetCloses,
     destination
<1>4. CASE FinishDestination
  BY Zenon, <1>1, <1>2, <1>4, FinishMoves
<1>5. CASE dst' \in {dst, "closed"} /\ UNCHANGED <<rel, peers, up>>
  <2>1. TargetSteady
    BY Zenon, <1>1, <1>5 DEF TargetSteady, Released, DestinationOnly, bytes
  <2> QED BY Zenon, <1>1, <1>2, <1>5, <2>1, GrowAllSame, TargetMoves DEF DestinationOnly, bytes, peers
<1> QED BY Zenon, <1>3, <1>4, <1>5

\* A byte leaves the pipe: it is the next the target needs.
LEMMA ReceiveByteMoves ==
  ASSUME IInv, BInv, ReceiveByte
  PROVE  BInv'
<1>1. /\ pipe # <<>> /\ pipe' = Tail(pipe)
      /\ UNCHANGED <<mode, gen, ses, flow, susp, sgen, rel, ws, conn, up, down, sent>>
  BY Zenon DEF ReceiveByte, hub, source, links
<1>2. Released /\ rel = "none" /\ ~Has(down["destination"], "open") /\ mode \in {"direct", "ended"}
  BY Zenon, <1>1 DEF BInv, DirectWay
<1>3. dst' = dst /\ got' = IF dst = "committed" THEN Append(got, Head(pipe)) ELSE got
  BY Zenon, <1>2 DEF ReceiveByte, Released
<1>4. pipe \in Seq(1..MaxBytes) /\ got \in Seq(1..MaxBytes) /\ sent \in Nat
  BY DEF IInv, TypeOK
<1>5. ses # "negotiating"
  BY Zenon, <1>1 DEF BInv, Reading
<1>6. Reading'
  BY Zenon, <1>1, <1>5 DEF BInv, Reading, Undirected
<1>7. ASSUME dst = "committed"
      PROVE  /\ \A i \in DOMAIN got' : got'[i] = i
             /\ \A i \in DOMAIN pipe' : pipe'[i] = Len(got') + i
             /\ ses = "direct" => Len(got') + Len(pipe') = sent
  <2> DEFINE l == Len(got)
             h == Head(pipe)
  <2>1. /\ \A i \in DOMAIN got : got[i] = i
        /\ \A i \in DOMAIN pipe : pipe[i] = l + i
        /\ ses = "direct" => l + Len(pipe) = sent
    BY Zenon, <1>7 DEF BInv, BytesInOrder, DirectWay
  <2>2. l \in Nat /\ Len(pipe) \in Nat /\ Len(pipe) > 0 /\ h = pipe[1] /\ 1 \in DOMAIN pipe
    BY <1>1, <1>4
  <2>3. got' = Append(got, h) /\ h \in 1..MaxBytes
    <3>1. \A S : \A q \in Seq(S) : \A i \in DOMAIN q : q[i] \in S
      OBVIOUS
    <3>2. h \in 1..MaxBytes
      BY Zenon, <1>4, <2>2, <3>1
    <3> QED BY Zenon, <1>3, <1>7, <3>2
  <2>4. h = l + 1
    BY Zenon, <2>1, <2>2
  <2>5. /\ Len(got') = l + 1 /\ got'[l + 1] = h /\ DOMAIN got' = 1..(l + 1)
        /\ \A i \in 1..l : got'[i] = got[i] /\ i \in DOMAIN got
    BY <1>4, <2>3
  <2>6. /\ Len(pipe') = Len(pipe) - 1
        /\ \A i \in DOMAIN pipe' : i \in Nat /\ i + 1 \in DOMAIN pipe /\ pipe'[i] = pipe[i + 1]
    BY <1>1, <1>4
  <2> HIDE DEF l, h
  <2>7. ASSUME NEW i \in DOMAIN got' PROVE got'[i] = i
    <3>1. i = l + 1 \/ i \in 1..l
      BY <2>2, <2>5
    <3> QED BY Zenon, <2>1, <2>4, <2>5, <3>1
  <2>8. \A a, b \in Nat : a + (b + 1) = (a + 1) + b
    OBVIOUS
  <2>9. ASSUME NEW i \in DOMAIN pipe' PROVE pipe'[i] = (l + 1) + i
    <3>1. i \in Nat /\ pipe'[i] = l + (i + 1)
      BY Zenon, <2>1, <2>6
    <3>2. l + (i + 1) = (l + 1) + i
      BY Zenon, <2>2, <2>8, <3>1
    <3> QED BY Zenon, <3>1, <3>2
  <2>10. \A a, b \in Nat : (a + 1) + (b - 1) = a + b
    OBVIOUS
  <2>11. (l + 1) + Len(pipe') = l + Len(pipe)
    <3>1. (l + 1) + (Len(pipe) - 1) = l + Len(pipe)
      BY Zenon, <2>2, <2>10
    <3> QED BY Zenon, <2>6, <3>1
  <2>12. ses = "direct" => Len(got') + Len(pipe') = sent
    BY Zenon, <2>1, <2>5, <2>11
  <2> QED BY Zenon, <2>5, <2>7, <2>9, <2>12
<1>8. BytesInOrder'
  <2>1. CASE dst = "committed"
    BY Zenon, <1>7, <2>1 DEF BytesInOrder
  <2>2. CASE dst # "committed"
    BY Zenon, <1>3, <2>2 DEF BInv, BytesInOrder
  <2> QED BY Zenon, <2>1, <2>2
<1>9. DirectWay'
  BY Zenon, <1>1, <1>2, <1>3, <1>7 DEF DirectWay, Released
<1>10. RelayWay' /\ Linked'
  BY Zenon, <1>1 DEF BInv, RelayWay, Linked
<1>11. Relayed'
  BY Zenon, <1>1, <1>2 DEF BInv, Relayed, Relays, Serving
<1> QED BY Zenon, <1>6, <1>8, <1>9, <1>10, <1>11 DEF BInv

\* The relay session opens, and its target answers: nothing was relayed yet.
LEMMA RelayOpensMoves ==
  ASSUME IInv, BInv, OnRelayOpen \/ RelayConnects
  PROVE  BInv'
<1> USE EndsAre
<1>1. /\ DestinationOnly /\ UNCHANGED <<dst, peers>> /\ up \in Queues /\ down \in Queues
  BY Zenon, TypedQueues DEF OnRelayOpen, RelayConnects, IInv
<1>2. UNCHANGED <<mode, gen, ses, flow, susp, sgen, sent, got, pipe, dst, ws, conn>>
  BY Zenon, <1>1 DEF DestinationOnly, hub, source, links, bytes, peers
<1>3. BytesInOrder' /\ Reading'
  BY Zenon, <1>2 DEF BInv, BytesInOrder, Reading, Undirected
<1>4. PICK c \in Nat, d \in Nat : Relays(c, d)
  BY Zenon DEF BInv, Relayed
<1>5. CASE OnRelayOpen
  <2>1. rel' = "connecting" /\ up' = up /\ FromHub("destination", "open")
    BY Zenon, <1>5 DEF OnRelayOpen
  <2>2. Has(down["destination"], "open")
    BY Zenon, <1>1, <2>1, FromHubHas
  <2>3. rel = "none" /\ mode \notin {"none", "negotiating", "direct"}
    BY Zenon, <2>2 DEF BInv, RelayWay
  <2>4. ~Has(down["source"], "commit") /\ ses # "direct" /\ pipe = <<>>
    BY Zenon, <2>2 DEF BInv, DirectWay
  <2>5. Steady
    BY Zenon, <1>1, <2>1, GrowAllSame, TakeFromHub, SteadilyAll
  <2>6. ~Has(down'["destination"], "open")
    <3> DEFINE q == down["destination"]
               r == Tail(q)
    <3>1. q \in Seq(Messages) /\ q # <<>> /\ Head(q).t = "open"
      BY Zenon, <1>1, <2>1 DEF FromHub, Queues
    <3>2. r \in Seq(Messages)
      BY Zenon, <3>1, TailHas
    <3>3. down'["destination"] = r
      BY Zenon, <1>1, <2>1, <3>2 DEF FromHub, Queues
    <3>4. Once(q)
      BY Zenon DEF BInv, RelayWay
    <3> HIDE DEF q
    <3>5. /\ 1 \in DOMAIN q /\ q[1] = Head(q)
          /\ \A i \in DOMAIN r : i + 1 \in DOMAIN q /\ r[i] = q[i + 1] /\ i + 1 # 1
      BY <3>1
    <3> HIDE DEF r
    <3>6. ASSUME NEW i \in DOMAIN r, r[i].t = "open" PROVE FALSE
      <4>1. i + 1 \in DOMAIN q /\ q[i + 1].t = "open" /\ q[1].t = "open" /\ i + 1 # 1
        BY Zenon, <3>1, <3>5, <3>6
      <4> QED BY Zenon, <3>4, <3>5, <4>1 DEF Once
    <3> QED BY Zenon, <3>3, <3>6 DEF Has
  <2>7. DirectWay'
    BY Zenon, <1>2, <2>3, <2>4, <2>5 DEF BInv, DirectWay, Released, Steady
  <2>8. RelayWay'
    <3>1. /\ ~Has(up'["destination"], "opened") /\ ~Has(down'["source"], "opened") /\ ses # "relay"
          /\ ~Has(up'["source"], "data") /\ ~Has(down'["destination"], "data")
      BY Zenon, <2>3, <2>5 DEF BInv, RelayWay, Steady
    <3> QED BY Zenon, <1>2, <2>3, <2>5, <2>6, <3>1 DEF BInv, RelayWay, Steady
  <2>9. Linked'
    BY Zenon, <1>2, <2>5 DEF BInv, Linked, Steady
  <2>10. rel' # "open"
    BY Zenon, <2>1
  <2>11. Relays(c, d)'
    BY Zenon, <1>2, <1>4, <2>1, <2>10 DEF Relays, Serving, Writing
  <2> QED BY Zenon, <1>3, <2>7, <2>8, <2>9, <2>11 DEF BInv, Relayed
<1>6. CASE RelayConnects
  <2> DEFINE m == Note("opened", dgen)
  <2>1. rel = "connecting" /\ rel' = "open" /\ down' = down /\ Post("destination", <<m>>)
    BY Zenon, <1>6 DEF RelayConnects
  <2>a. m \in Messages /\ m.t = "opened"
    BY Zenon, NoteType, GenTypes, ControlsAre DEF IInv
  <2> HIDE DEF m
  <2>2. <<m>> \in Seq(Messages) /\ \A t : Has(<<m>>, t) => t \in {"opened"}
    BY Zenon, <2>a, SingleHas
  <2>3. GrowAll(up, up', {"opened"})
    BY Zenon, <1>1, <2>1, <2>2, GrowsPost
  <2>4. Has(up'["source"], "data") => Has(up["source"], "data")
    <3>1. "data" \notin {"opened"}
      BY Zenon
    <3> QED BY Zenon, <2>3, <3>1 DEF GrowAll, Grows
  <2>5. /\ ses # "relay" /\ ~Has(up["source"], "data") /\ ~Has(down["destination"], "data")
        /\ ~Has(down["destination"], "open")
    BY Zenon, <2>1 DEF BInv, RelayWay
  <2>6. ~(mode = "direct" \/ Has(down["source"], "commit") \/ ses = "direct" \/ pipe # <<>>)
    BY Zenon, <2>1 DEF BInv, DirectWay
  <2>7. DirectWay'
    BY Zenon, <1>2, <2>1, <2>6 DEF BInv, DirectWay, Released
  <2>8. mode \notin {"none", "negotiating", "direct"}
    BY Zenon, <2>1 DEF BInv, RelayWay
  <2>9. RelayWay'
    BY Zenon, <1>2, <2>1, <2>4, <2>5, <2>8 DEF BInv, RelayWay
  <2>10. Linked'
    BY Zenon, <1>2, <2>1 DEF BInv, Linked
  <2>11. PICK l \in Nat : l = Len(got)
    BY DEF IInv, TypeOK
  <2>12. Run(up'["source"], l, l) /\ Run(down["destination"], l, l) /\ l <= l
    <3>1. l <= l
      OBVIOUS
    <3> QED BY Zenon, <2>4, <2>5, <3>1, RunEmpty
  <2>13. Relays(l, l)'
    BY Zenon, <1>2, <2>1, <2>5, <2>11, <2>12 DEF Relays, Writing
  <2> QED BY Zenon, <1>3, <2>7, <2>9, <2>10, <2>13 DEF BInv, Relayed
<1> QED BY Zenon, <1>5, <1>6

LEMMA RelayEndsMoves ==
  ASSUME IInv, BInv, RelayFails \/ OnDestinationTerminal
  PROVE  BInv'
<1> USE EndsAre
<1>1. DestinationOnly /\ UNCHANGED <<dst, peers>> /\ up \in Queues /\ down \in Queues
  BY Zenon, TypedQueues DEF RelayFails, OnDestinationTerminal, IInv
<1>2. rel' = rel \/ (rel # "none" /\ rel' = "closed")
  BY Zenon DEF RelayFails, OnDestinationTerminal
<1>3. GrowAll(up, up', Calm) /\ GrowAll(down, down', Calm)
  <2>1. CASE RelayFails
    BY Zenon, <1>1, <2>1, GrowAllSame, PostCalm, CalmKinds DEF RelayFails
  <2>2. CASE OnDestinationTerminal
    <3>1. PICK t \in {"end", "error"} : FromHub("destination", t)
      BY Zenon, <2>2 DEF OnDestinationTerminal
    <3>2. t # "data" /\ up' = up
      BY Zenon, <2>2 DEF OnDestinationTerminal
    <3> QED BY Zenon, <1>1, <3>1, <3>2, GrowAllSame, TakeFromHub
  <2> QED BY Zenon, <2>1, <2>2
<1>4. TargetSteady
  BY Zenon, <1>1, <1>2 DEF TargetSteady, Released, DestinationOnly, bytes
<1> QED BY Zenon, <1>1, <1>3, <1>4, TargetMoves DEF DestinationOnly, bytes, peers

\* The relay session is suspended or resumed.
LEMMA RelayRecoveryMoves ==
  ASSUME IInv, BInv, OnRelaySuspend \/ OnRelayResumed
  PROVE  BInv'
<1> USE EndsAre
<1>1. DestinationOnly /\ UNCHANGED <<dst, peers>> /\ up \in Queues /\ GrowAll(down, down', Calm)
  BY Zenon, TypedQueues, TakeFromHub DEF OnRelaySuspend, OnRelayResumed, IInv
<1>2. rel' = rel \/ (rel # "none" /\ rel' = "closed")
  BY Zenon DEF OnRelaySuspend, OnRelayResumed, RelayLives, CloseRelay
<1> DEFINE m == Note("resume", dgen)
<1>3. up' = up \/ Post("destination", <<m>>) \/ Post("destination", <<Msg("end")>>)
  BY Zenon DEF OnRelaySuspend, OnRelayResumed, CloseRelay
<1>4. m \in Messages /\ m.t \in Calm
  BY Zenon, GenTypes, ResumeNote DEF IInv
<1> HIDE DEF m
<1>5. GrowAll(up, up', Calm)
  BY Zenon, <1>1, <1>3, <1>4, GrowAllSame, PostNote, PostCalm, CalmKinds
<1>6. TargetSteady
  BY Zenon, <1>1, <1>2 DEF TargetSteady, Released, DestinationOnly, bytes
<1> QED BY Zenon, <1>1, <1>5, <1>6, TargetMoves DEF DestinationOnly, bytes, peers

\* A relayed byte reaches the target: it is the next one.
LEMMA OnRelayDataMoves ==
  ASSUME IInv, BInv, OnRelayData
  PROVE  BInv'
<1> USE EndsAre
<1> DEFINE q == down["destination"]
           m == Head(q)
           r == Tail(q)
<1>1. /\ FromHub("destination", "data") /\ up \in Queues /\ down \in Queues /\ up' = up
      /\ got' = IF rel = "open" THEN Append(got, m.n) ELSE got
      /\ UNCHANGED <<mode, gen, ses, flow, susp, sgen, sent, pipe, dst, rel, ws, conn>>
  BY Zenon, TypedQueues DEF OnRelayData, IInv, hub, source, destination, peers, links
<1>2. q \in Seq(Messages) /\ q # <<>> /\ m.t = "data"
  BY Zenon, <1>1 DEF FromHub, Queues
<1>3. /\ r \in Seq(Messages) /\ m \in Messages /\ Has(q, m.t)
      /\ \A t : Has(r, t) => Has(q, t)
  BY Zenon, <1>2, TailHas
<1>4. down'["destination"] = r /\ down'["source"] = down["source"]
  BY Zenon, <1>1, <1>3 DEF FromHub, Queues, Ends
<1>5. /\ Has(down["destination"], "data")
      /\ \A t : Has(down'["destination"], t) => Has(down["destination"], t)
  BY Zenon, <1>2, <1>3, <1>4
<1>6. ses \in {"relay", "closed"} /\ rel \notin {"none", "connecting"}
  BY Zenon, <1>5 DEF BInv, RelayWay
<1>7. pipe = <<>> /\ ses # "direct"
  BY Zenon, <1>6 DEF BInv, DirectWay
<1>8. Once(r)
  <2>1. Once(q)
    BY Zenon DEF BInv, RelayWay
  <2>2. /\ Len(q) \in Nat /\ \A i \in DOMAIN r : i \in Nat /\ i + 1 \in DOMAIN q /\ r[i] = q[i + 1]
    BY <1>2
  <2> HIDE DEF q, r
  <2>3. \A i, j \in Nat : i + 1 = j + 1 => i = j
    OBVIOUS
  <2> QED BY Zenon, <2>1, <2>2, <2>3 DEF Once
<1>9. Reading'
  BY Zenon, <1>1, <1>6 DEF BInv, Reading, Undirected
<1>10. DirectWay'
  <2>1. ~(mode = "direct" \/ Has(down["source"], "commit") \/ ses = "direct" \/ pipe # <<>>)
    BY Zenon, <1>6 DEF BInv, DirectWay
  <2>2. \A i \in DOMAIN <<>> : FALSE
    OBVIOUS
  <2> QED BY Zenon, <1>1, <1>4, <2>1, <2>2 DEF DirectWay
<1>11. RelayWay'
  BY Zenon, <1>1, <1>4, <1>5, <1>6, <1>8 DEF BInv, RelayWay
<1>12. Linked'
  BY Zenon, <1>1, <1>4 DEF BInv, Linked
<1>13. PICK c \in Nat, d \in Nat : Relays(c, d)
  BY Zenon DEF BInv, Relayed
<1>14. CASE rel = "open"
  <2>1. PICK l \in Nat : l = Len(got)
    BY DEF IInv, TypeOK
  <2>2. Run(q, l, c)
    BY Zenon, <1>13, <1>14, <2>1 DEF Relays
  <2>3. m.n = l + 1 /\ Run(r, l + 1, c)
    BY Zenon, <1>2, <2>2, RunTaken
  <2>4. l + 1 <= c
    <3>1. m.n \in (l + 1)..c
      <4>1. 1 \in DOMAIN q /\ q[1] = m
        BY <1>2
      <4> QED BY Zenon, <1>2, <2>2, <4>1 DEF Run
    <3> QED BY <2>3, <3>1
  <2>5. got' = Append(got, l + 1)
    BY Zenon, <1>1, <1>14, <2>3
  <2> HIDE DEF q, m, r
  <2>6. got \in Seq(1..MaxBytes)
    BY Zenon DEF IInv, TypeOK
  <2>7. /\ Len(got') = l + 1 /\ DOMAIN got' = 1..(l + 1) /\ got'[l + 1] = l + 1
        /\ \A i \in 1..l : i \in DOMAIN got /\ got'[i] = got[i]
    BY <2>1, <2>5, <2>6
  <2>8. \A i \in 1..(l + 1) : i \in 1..l \/ i = l + 1
    OBVIOUS
  <2>9. BytesInOrder'
    BY Zenon, <2>7, <2>8 DEF BInv, BytesInOrder
  <2>10. Relays(c, d)'
    BY Zenon, <1>1, <1>4, <1>13, <2>3, <2>4, <2>7 DEF Relays, Serving, Writing
  <2> QED BY Zenon, <1>9, <1>10, <1>11, <1>12, <2>9, <2>10 DEF BInv, Relayed
<1>15. CASE rel # "open"
  <2>1. got' = got
    BY Zenon, <1>1, <1>15
  <2>2. BytesInOrder'
    BY Zenon, <2>1 DEF BInv, BytesInOrder
  <2>3. Relays(c, d)'
    BY Zenon, <1>1, <1>13, <1>15 DEF Relays, Serving, Writing
  <2> QED BY Zenon, <1>9, <1>10, <1>11, <1>12, <2>2, <2>3 DEF BInv, Relayed
<1> QED BY Zenon, <1>14, <1>15

-----------------------------------------------------------------------------
(* The networks, and all steps together.                                   *)

\* A WebSocket that breaks loses the last of what is on its way: what is left
\* still goes on from what the target has, and neither end goes on with it.
LEMMA BreakMoves ==
  ASSUME IInv, BInv, NEW x \in Ends, Break(x)
  PROVE  BInv'
<1> USE EndsAre
<1>1. /\ UNCHANGED <<mode, gen, ses, flow, susp, sgen, sent, got, pipe, dst, rel>>
      /\ ws' = [ws EXCEPT ![x] = "lost"] /\ conn' = [conn EXCEPT ![x] = "lost"]
  BY Zenon DEF Break, hub, source, destination, peers, bytes
<1>2. up \in Queues /\ down \in Queues
  BY Zenon, TypedQueues DEF IInv
<1>3. PICK u \in Prefixes(up[x]), d \in Prefixes(down[x]) :
        up' = [up EXCEPT ![x] = u] /\ down' = [down EXCEPT ![x] = d]
  BY ZenonT(30) DEF Break
<1>4. /\ up[x] \in Seq(Messages) /\ down[x] \in Seq(Messages)
      /\ u \in Seq(Messages) /\ \A t : Has(u, t) => Has(up[x], t)
      /\ d \in Seq(Messages) /\ \A t : Has(d, t) => Has(down[x], t)
  BY Zenon, <1>2, PrefixHas DEF Queues
<1>5. /\ up'[x] = u /\ down'[x] = d
      /\ \A y \in Ends : y # x => up'[y] = up[y] /\ down'[y] = down[y]
  BY Zenon, <1>2, <1>3, <1>4 DEF Queues
<1>6. /\ conn'[x] = "lost" /\ ws'[x] = "lost"
      /\ \A y \in Ends : y # x => conn'[y] = conn[y] /\ ws'[y] = ws[y]
  BY Zenon, <1>1 DEF IInv, TypeOK
<1>7. \A y \in Ends : \A t : /\ Has(up'[y], t) => Has(up[y], t)
                             /\ Has(down'[y], t) => Has(down[y], t)
  BY Zenon, <1>4, <1>5
<1>8. Once(down["destination"]) => Once(down'["destination"])
  BY Zenon, <1>3, <1>4, <1>5, OncePrefix
<1>9. BytesInOrder' /\ Reading'
  <2>1. ws'["source"] = "down" => ws["source"] = "down"
    BY Zenon, <1>6
  <2> QED BY Zenon, <1>1, <2>1 DEF BInv, BytesInOrder, Reading, Undirected
<1>10. DirectWay'
  BY Zenon, <1>1, <1>7 DEF BInv, DirectWay, Released
<1>11. RelayWay'
  BY Zenon, <1>1, <1>7, <1>8 DEF BInv, RelayWay
<1>12. Linked'
  <2>1. \A y \in Ends : conn'[y] = "up" <=> ws'[y] = "up"
    BY Zenon, <1>6 DEF BInv, Linked
  <2>2. conn'["destination"] = "down" => conn["destination"] = "down"
    BY Zenon, <1>6
  <2> QED BY Zenon, <1>1, <2>1, <2>2 DEF BInv, Linked
<1>13. PICK a \in Nat, b \in Nat : Relays(a, b)
  BY Zenon DEF BInv, Relayed
<1>14. CASE x = "source"
  <2>1. down'["destination"] = down["destination"] /\ conn'["destination"] = conn["destination"]
    BY Zenon, <1>5, <1>6, <1>14
  <2>2. ~Writing'
    BY Zenon, <1>6, <1>14 DEF Writing
  <2>3. CASE ~Serving
    <3>1. ~Serving'
      BY Zenon, <1>1, <2>1, <2>3 DEF Serving
    <3>2. Relays(a, b)'
      BY Zenon, <1>1, <1>13, <2>1, <3>1 DEF Relays
    <3> QED BY Zenon, <1>9, <1>10, <1>11, <1>12, <3>2 DEF BInv, Relayed
  <2>4. CASE Serving
    <3>1. a <= b /\ Run(up[x], a, b)
      BY Zenon, <1>13, <1>14, <2>4 DEF Relays
    <3>2. PICK e \in Nat : a <= e /\ e <= b /\ Run(u, a, e)
      BY Zenon, <1>3, <1>4, <3>1, RunPrefix
    <3>3. Run(up'["source"], a, e)
      BY Zenon, <1>5, <1>14, <3>2
    <3>4. Relays(a, e)'
      BY Zenon, <1>1, <1>13, <2>1, <2>2, <3>2, <3>3 DEF Relays
    <3> QED BY Zenon, <1>9, <1>10, <1>11, <1>12, <3>4 DEF BInv, Relayed
  <2> QED BY Zenon, <2>3, <2>4
<1>15. CASE x = "destination"
  <2>1. ~Serving'
    BY Zenon, <1>6, <1>15 DEF Serving
  <2>2. CASE rel # "open"
    <3>1. Relays(a, b)'
      BY Zenon, <1>1, <1>13, <2>1, <2>2 DEF Relays
    <3> QED BY Zenon, <1>9, <1>10, <1>11, <1>12, <3>1 DEF BInv, Relayed
  <2>3. CASE rel = "open"
    <3>1. PICK l \in Nat : l = Len(got)
      BY DEF IInv, TypeOK
    <3>2. l <= a /\ a <= b /\ Run(down[x], l, a)
      BY Zenon, <1>13, <1>15, <2>3, <3>1 DEF Relays
    <3>3. PICK e \in Nat : l <= e /\ e <= a /\ Run(d, l, e)
      BY Zenon, <1>3, <1>4, <3>1, <3>2, RunPrefix
    <3>4. e <= b
      BY <3>2, <3>3
    <3>5. Run(down'["destination"], l, e)
      BY Zenon, <1>5, <1>15, <3>3
    <3>6. Relays(e, b)'
      BY Zenon, <1>1, <2>1, <3>1, <3>3, <3>4, <3>5 DEF Relays
    <3> QED BY Zenon, <1>9, <1>10, <1>11, <1>12, <3>6 DEF BInv, Relayed
  <2> QED BY Zenon, <2>2, <2>3
<1>16. x = "source" \/ x = "destination"
  BY Zenon DEF Ends
<1> QED BY Zenon, <1>14, <1>15, <1>16

\* A stream relayed from its start has lost no target, and a source that comes
\* back reads nothing until it is resumed.
LEMMA RejoinMoves ==
  ASSUME IInv, BInv, NEW x \in Ends, Rejoin(x)
  PROVE  BInv'
<1> USE EndsAre
<1>1. up \in Queues /\ down \in Queues /\ down' = down
  BY Zenon, TypedQueues DEF Rejoin, IInv
<1>2. GrowAll(up, up', Calm)
  <2>1. PICK ms \in Seq(Messages) :
          up' = [up EXCEPT ![x] = @ \o ms] /\ \A t : Has(ms, t) => t \in Calm
    <3> DEFINE m == Note("resume", sgen)
               n == Note("resume", dgen)
    <3>1. m \in Messages /\ n \in Messages /\ m.t \in Calm /\ n.t \in Calm
      BY Zenon, GenTypes, ResumeNote DEF IInv
    <3>2. \/ up' = [up EXCEPT ![x] = @ \o <<m>>]
          \/ up' = [up EXCEPT ![x] = @ \o <<n>>]
          \/ up' = [up EXCEPT ![x] = @ \o <<>>]
      BY Zenon DEF Rejoin
    <3> HIDE DEF m, n
    <3> QED BY Zenon, <3>1, <3>2, SingleHas
  <2> DEFINE a == up[x] \o ms
  <2>2. a \in Seq(Messages) /\ Grows(up[x], a, Calm)
    BY Zenon, <1>1, <2>1, ConcatHas, GrowsSent DEF Queues
  <2>3. up' = [up EXCEPT ![x] = a]
    BY Zenon, <2>1
  <2> HIDE DEF a
  <2> QED BY Zenon, <1>1, <2>2, <2>3, GrowsSame DEF Queues, GrowAll
<1>3. Steady
  BY Zenon, <1>1, <1>2, GrowAllSame, SteadilyAll
<1>4. UNCHANGED <<mode, gen, ses, flow, susp, sgen, pipe, sent, dst, rel, got>>
  BY Zenon DEF Rejoin, hub, source, destination, peers, bytes
<1>5. /\ ws[x] = "down" /\ conn[x] = "down" /\ ws'[x] = "up" /\ conn'[x] = "up"
      /\ \A y \in Ends : y # x => conn'[y] = conn[y] /\ ws'[y] = ws[y]
  BY Zenon DEF Rejoin, IInv, TypeOK
<1>6. LinksSteady
  <2>1. \A y \in Ends : conn'[y] = "up" <=> ws'[y] = "up"
    BY Zenon, <1>5 DEF BInv, Linked
  <2>2. Writing' => ws["source"] = "up"
    <3>1. CASE x = "source"
      <4>1. ses = "relay" /\ sgen = 0 => flow # "flowing"
        BY Zenon, <1>5, <3>1 DEF BInv, Reading, Undirected
      <4> QED BY Zenon, <1>4, <4>1 DEF Writing
    <3>2. CASE x # "source"
      BY Zenon, <1>5, <3>2 DEF Writing
    <3> QED BY Zenon, <3>1, <3>2
  <2>3. ws'["source"] = "down" => ws["source"] = "down"
    BY Zenon, <1>5
  <2>4. mode' = "relay" /\ gen' = 0 => conn'["destination"] = conn["destination"]
    <3>1. mode = "relay" /\ gen = 0 => x # "destination"
      BY Zenon, <1>5 DEF BInv, Linked
    <3> QED BY Zenon, <1>4, <1>5, <3>1
  <2> QED BY Zenon, <2>1, <2>2, <2>3, <2>4 DEF LinksSteady
<1> QED BY Zenon, <1>3, <1>4, <1>6, SourceKept, TargetKept, HubKept, SteadyStep

\* Steps that touch none of it.
LEMMA QuietMoves ==
  ASSUME IInv, BInv, DestinationNoticesLink \/ ChannelBreaks \/ UNCHANGED vars
  PROVE  BInv'
<1> USE EndsAre
<1>1. UNCHANGED <<mode, gen, ses, flow, susp, sgen, pipe, sent, dst, rel, got, up, down, conn>>
  BY Zenon DEF DestinationNoticesLink, ChannelBreaks, vars, hub, source, destination, peers, links, bytes
<1>2. Steady
  BY Zenon, <1>1, TypedQueues, GrowAllSame, SteadilyAll DEF IInv
<1>3. LinksSteady
  <2>1. CASE ws' = ws
    BY Zenon, <1>1, <2>1, LinksKept
  <2>2. CASE DestinationNoticesLink
    <3>1. ws["destination"] = "lost" /\ ws' = [ws EXCEPT !["destination"] = "down"]
      BY Zenon, <2>2 DEF DestinationNoticesLink
    <3>2. ws'["destination"] = "down" /\ ws'["source"] = ws["source"]
      BY Zenon, <3>1 DEF IInv, TypeOK
    <3>3. conn["destination"] # "up" /\ (conn["source"] = "up" <=> ws["source"] = "up")
      BY Zenon, <3>1 DEF BInv, Linked
    <3>4. \A y \in Ends : y = "source" \/ y = "destination"
      BY Zenon DEF Ends
    <3>5. \A y \in Ends : conn'[y] = "up" <=> ws'[y] = "up"
      BY Zenon, <1>1, <3>2, <3>3, <3>4
    <3> QED BY Zenon, <1>1, <3>2, <3>5 DEF LinksSteady, Writing
  <2> QED BY Zenon, <2>1, <2>2 DEF ChannelBreaks, vars, links
<1> QED BY Zenon, <1>1, <1>2, <1>3, SourceKept, TargetKept, HubKept, SteadyStep

LEMMA BytesInit == Init => BInv
<1> SUFFICES ASSUME Init PROVE BInv
  OBVIOUS
<1> USE EndsAre
<1>1. /\ mode = "none" /\ ses = "negotiating" /\ flow = "paused" /\ dst = "none" /\ rel = "none"
      /\ pipe = <<>> /\ sent = 0 /\ got = <<>> /\ susp = FALSE
  BY Zenon DEF Init
<1>2. /\ down["source"] = <<>> /\ down["destination"] = <<>> /\ up["destination"] = <<>>
      /\ up["source"] = <<Msg("open")>>
      /\ \A x \in Ends : conn[x] = "up" /\ ws[x] = "up"
  BY Zenon DEF Init, Ends
<1>3. \A t : ~Has(<<>>, t)
  BY DEF Has
<1>4. ~Has(up["source"], "data")
  BY Zenon, <1>2, NoticeHas, ControlsAre
<1>5. Once(<<>>) /\ \A i \in DOMAIN <<>> : FALSE
  BY DEF Once
<1>6. BytesInOrder /\ Reading
  BY Zenon, <1>1, <1>2, <1>5 DEF BytesInOrder, Reading
<1>7. DirectWay
  BY Zenon, <1>1, <1>2, <1>3 DEF DirectWay
<1>8. RelayWay
  BY Zenon, <1>1, <1>2, <1>3, <1>4, <1>5 DEF RelayWay
<1>9. Linked
  BY Zenon, <1>1, <1>2, <1>3 DEF Linked
<1>10. 0 \in Nat /\ 0 <= 0
  OBVIOUS
<1>11. Relays(0, 0)
  BY Zenon, <1>1, <1>10 DEF Relays, Serving
<1> QED BY Zenon, <1>6, <1>7, <1>8, <1>9, <1>10, <1>11 DEF BInv, Relayed

LEMMA BytesStep ==
  ASSUME IInv, BInv, [Next]_vars
  PROVE  BInv'
<1>1. CASE HubStep
  BY Zenon, <1>1, OnOpenMoves, HubHandlesMoves, OnEstablishedMoves, OnCommittedMoves, OnOpenedMoves,
     OnDataMoves, OnTerminalMoves, HubNoticesMoves DEF HubStep
<1>2. CASE SourceStep
  BY Zenon, <1>2, DialMoves, OnSourceCommitMoves, OnSourceCancelMoves, OnRelayOpenedMoves,
     OnSourceTerminalMoves, OnSuspendMoves, SourceEndsMoves, SourceNoticesLinkMoves DEF SourceStep
<1>3. CASE DestinationStep
  BY Zenon, <1>3, OnOfferMoves, OnDestinationCommitMoves, DestinationEndsMoves, ReceiveByteMoves,
     RelayOpensMoves, RelayEndsMoves, RelayRecoveryMoves, OnRelayDataMoves, QuietMoves DEF DestinationStep
<1>4. CASE Timers
  BY Zenon, <1>4, HubTimerMoves, DialMoves, MarkerFailsMoves, SourceEndsMoves, AcceptMoves,
     RelayEndsMoves, DestinationEndsMoves DEF Timers
<1>5. CASE Environment
  BY Zenon, <1>5, DialMoves, SourceEndsMoves, WriteMoves, AcceptMoves, DestinationEndsMoves,
     RelayOpensMoves, QuietMoves, BreakMoves, RejoinMoves DEF Environment
<1>6. CASE UNCHANGED vars
  BY Zenon, <1>6, QuietMoves
<1> QED BY Zenon, <1>1, <1>2, <1>3, <1>4, <1>5, <1>6 DEF Next

\* The target's process reads the source's bytes in the order they were
\* written, with none left out and none twice, whichever route was taken and
\* whatever was lost, late or retried on the way to it.
THEOREM BytesStayInOrder == Spec => []BytesInOrder
<1>1. Init => BInv
  BY Zenon, BytesInit
<1>2. IInv /\ BInv /\ [Next]_vars => BInv'
  BY Zenon, BytesStep
<1>3. BInv => BytesInOrder
  BY Zenon DEF BInv
<1> QED BY <1>1, <1>2, <1>3, RouteInvariant, PTL DEF Spec

=============================================================================
