---------------------------- MODULE AndroidEvents ----------------------------
(***************************************************************************)
(* The event streams and the detail cache of the Android copy of the       *)
(* session synchronisation: converted events are remembered in the order   *)
(* of their arrival, replayed to a new subscriber and followed by the live *)
(* ones, through a bounded queue; texts that are too large for an event    *)
(* are kept by reference, dropped, and read again from the history.        *)
(***************************************************************************)
EXTENDS Integers, Sequences, FiniteSets, SequencesExt

CONSTANTS
  Readers,                     \* phones that open an event stream
  FeedAsks,                    \* approvals and questions of the host, each named once
  CachedEvents, QueueBound,    \* maxCachedEvents, maxSubscriberQueue
  SeenBound,                   \* maxSubscriberSeen
  DetailBound,                 \* maxDetailCacheBytes
  TextOf,                      \* per event the widths of the code points of its text
  LastEvent, MaxOpens          \* bounds: sequences, streams

ASSUME AndroidEventsAssumption ==
  /\ {CachedEvents, QueueBound, SeenBound, DetailBound, LastEvent, MaxOpens} \subseteq Nat
  /\ TextOf \in [0..LastEvent -> Seq(1..4)] /\ IsFiniteSet(FeedAsks)

VARIABLES
  logTop,                      \* the last event of the session's log
  live, muxSeq,                \* the mux is open, and the event it told last
  cached,                      \* events: sequences in the order of arrival
  hostAsks, feedAsks,          \* an ask at the host, and pendingControls of the hub
  feed,                      \* of each phone: its subscriber and what came out of it
  detailOrder, details,        \* keys in the order of arrival, and resident texts
  chunkRead,                   \* a phone that reads a text in chunks
  opens

feedVars == <<logTop, live, muxSeq, cached, hostAsks, feedAsks, feed, detailOrder, details, chunkRead, opens>>
texts == <<detailOrder, details>>

FeedItem(type, n) == [type |-> type, id |-> n]
Event(n) == FeedItem("event", n)
Overflowed == FeedItem("stream-overflow", 0)
NoFeed == [done |-> TRUE, since |-> -1, last |-> -1, seen |-> <<>>, queue |-> <<>>,
           taken |-> <<>>, asks |-> {}]
NoChunk == [seq |-> -1, offset |-> 0, points |-> 0, done |-> FALSE]

-----------------------------------------------------------------------------
(* Details. *)

\* sums[i] of the first i
Sums(width) ==
  LET sums[i \in 0..Len(width)] == IF i = 0 THEN 0 ELSE sums[i - 1] + width[i] IN sums
WidthsOf(text, n) == Sums(text)[n]
TotalBytes(n) == WidthsOf(TextOf[n], Len(TextOf[n]))
KeptBytes(kept) == [i \in 1..(LastEvent + 1) |-> IF i - 1 \in kept THEN TotalBytes(i - 1) ELSE 0]
BytesOf(kept) == Sums(KeptBytes(kept))[LastEvent + 1]

PutKey(order, n) == IF n \in ToSet(order) THEN order ELSE Append(order, n)

\* putDetail: the oldest go until the rest is within the bounds.
Put(n) ==
  LET order == PutKey(detailOrder, n)
      kept == IF TotalBytes(n) <= DetailBound THEN details \cup {n} ELSE details \ {n}
      Over(k) == Len(order) - k > CachedEvents * 4 \/ BytesOf(kept \ ToSet(SubSeq(order, 1, k))) > DetailBound
      k == CHOOSE k \in 0..Len(order) : ~Over(k) /\ \A j \in 0..k - 1 : Over(j)
  IN <<SubSeq(order, k + 1, Len(order)), kept \ ToSet(SubSeq(order, 1, k))>>

putDetail(n) == detailOrder' = Put(n)[1] /\ details' = Put(n)[2]

\* readMobileV3Details of the text, from the cache or by the loader: whole code points up
\* to the limit, and one in any case.
ChunkEnd(text, start, limit) ==
  CHOOSE e \in start..Len(text) :
    LET Fit(j) == j <= start + 1 \/ WidthsOf(text, j) - WidthsOf(text, start) <= limit IN
    /\ \A j \in start + 1..e : Fit(j)
    /\ e < Len(text) => ~Fit(e + 1)

\* resolveDetail and installDetailLoader: a text is there while the log has it.
ReadChunk(limit) ==
  /\ chunkRead.seq >= 0 /\ ~chunkRead.done
  /\ LET text == TextOf[chunkRead.seq]
         start == CHOOSE i \in 0..Len(text) : WidthsOf(text, i) = chunkRead.offset
         end == ChunkEnd(text, start, limit)
     IN chunkRead' = [chunkRead EXCEPT !.offset = WidthsOf(text, end), !.points = @ + (end - start),
                                       !.done = WidthsOf(text, end) >= TotalBytes(chunkRead.seq)]
  /\ UNCHANGED <<logTop, live, muxSeq, cached, hostAsks, feedAsks, feed, texts, opens>>

AskDetail(n) ==
  /\ chunkRead = NoChunk /\ n <= logTop /\ chunkRead' = [NoChunk EXCEPT !.seq = n]
  /\ UNCHANGED <<logTop, live, muxSeq, cached, hostAsks, feedAsks, feed, texts, opens>>

DetailFails ==
  /\ chunkRead # NoChunk /\ chunkRead' = NoChunk
  /\ UNCHANGED <<logTop, live, muxSeq, cached, hostAsks, feedAsks, feed, texts, opens>>

-----------------------------------------------------------------------------
(* Subscribers. *)

\* subscriberEventKey, rememberSubscriberKey: what names itself is told once, as far as
\* the memory reaches.
Named(item) == item.type \in {"event", "requested", "resolved"}
SeenAlready(sub, item) == Named(item) /\ Contains(sub.seen, item)
WithSeen(seen, item) ==
  IF ~Named(item) THEN seen
  ELSE IF Len(seen) < SeenBound THEN Append(seen, item) ELSE Tail(Append(seen, item))

\* An overflow takes the place of all that waits.
FeedFailed(sub) == [sub EXCEPT !.queue = <<Overflowed>>, !.done = TRUE, !.last = -1, !.seen = <<>>]

Offered(sub, item) ==
  IF SeenAlready(sub, item) THEN sub
  ELSE IF Len(sub.queue) >= QueueBound THEN FeedFailed(sub)
  ELSE [sub EXCEPT !.queue = Append(@, item), !.seen = WithSeen(@, item)]

\* Variant, not the code: an event that comes late is let through.
EnqueuedAgain(sub, item) ==
  IF sub.done \/ (item.type = "event" /\ item.id <= sub.since) THEN sub
  ELSE Offered([sub EXCEPT !.last = IF item.type = "event" THEN item.id ELSE @], item)

\* enqueue: no event that is not newer.
FeedEnqueued(sub, item) ==
  IF sub.done \/ (item.type = "event" /\ (item.id <= sub.last \/ item.id <= sub.since)) THEN sub
  ELSE Offered([sub EXCEPT !.last = IF item.type = "event" THEN item.id ELSE @], item)

\* emit.
FeedEmit(item, S) == [p \in Readers |-> FeedEnqueued(S[p], item)]

\* rememberEvent.
FeedRemembered(order, n) ==
  IF n \in ToSet(order) THEN order
  ELSE LET new == Append(order, n) IN
       IF Len(new) > CachedEvents THEN Tail(new) ELSE new

\* cachedEvents, in the order of their numbers
WithEvents(sub, remembered) ==
  FoldLeft(LAMBDA t, n : IF n \in remembered THEN FeedEnqueued(t, Event(n)) ELSE t,
           sub, [i \in 1..(LastEvent + 1) |-> i - 1])

WithAsks(sub, asks) == FoldLeft(FeedEnqueued, sub, [i \in DOMAIN asks |-> FeedItem("requested", asks[i])])

\* subscribe: what waits for an answer, then the cached events of the session, if it
\* is the stream of one.
OpenFeed(p, scoped, since) ==
  /\ opens < MaxOpens /\ opens' = opens + 1 /\ feed[p] = NoFeed
  /\ \E asks \in SetToSeqs(feedAsks) :
       LET new == WithAsks([NoFeed EXCEPT !.done = FALSE, !.since = since], asks)
       IN  feed' = [feed EXCEPT ![p] = IF scoped THEN WithEvents(new, ToSet(cached)) ELSE new]
  /\ UNCHANGED <<logTop, live, muxSeq, cached, hostAsks, feedAsks, texts, chunkRead>>

\* The response takes the next one, as fast as the connection drains.
Written(sub) ==
  LET item == Head(sub.queue) left == [sub EXCEPT !.queue = Tail(@)] IN
  CASE item.type = "event" -> [left EXCEPT !.taken = Append(@, item.id)]
    [] item.type = "requested" -> [left EXCEPT !.asks = @ \cup {item.id}]
    [] item.type = "resolved" -> [left EXCEPT !.asks = @ \ {item.id}]
    [] OTHER -> left

SseTakes(p) ==
  /\ feed[p].queue # <<>> /\ feed' = [feed EXCEPT ![p] = Written(@)]
  /\ UNCHANGED <<logTop, live, muxSeq, cached, hostAsks, feedAsks, texts, chunkRead, opens>>

\* The connection closes: closeSubscriber.
PhoneGone(p) ==
  /\ feed[p] # NoFeed /\ feed' = [feed EXCEPT ![p] = NoFeed]
  /\ UNCHANGED <<logTop, live, muxSeq, cached, hostAsks, feedAsks, texts, chunkRead, opens>>

-----------------------------------------------------------------------------
(* The mux and the history. *)

EventLogged ==
  /\ logTop < LastEvent /\ logTop' = logTop + 1
  /\ UNCHANGED <<live, muxSeq, cached, hostAsks, feedAsks, feed, texts, chunkRead, opens>>

\* runMux; a stream tells of what comes after its session/subscribed.
MuxStarts ==
  /\ ~live /\ live' = TRUE /\ muxSeq' = logTop
  /\ UNCHANGED <<logTop, cached, hostAsks, feedAsks, feed, texts, chunkRead, opens>>

\* Its end is told as a control/stream-error.
MuxEnds ==
  /\ live /\ live' = FALSE
  /\ feed' = FeedEmit(FeedItem("stream-error", 0), feed)
  /\ UNCHANGED <<logTop, muxSeq, cached, hostAsks, feedAsks, texts, chunkRead, opens>>

MuxEvent ==
  /\ live /\ muxSeq < logTop /\ muxSeq' = muxSeq + 1
  /\ putDetail(muxSeq')
  /\ cached' = FeedRemembered(cached, muxSeq')
  /\ feed' = FeedEmit(Event(muxSeq'), feed)
  /\ UNCHANGED <<logTop, live, hostAsks, feedAsks, chunkRead, opens>>

\* A page of the history or of a delta is converted: remembered, not emitted.
PageRemembered ==
  /\ \E n \in 0..logTop :
       /\ putDetail(n)
       /\ cached' = FeedRemembered(cached, n)
  /\ UNCHANGED <<logTop, live, muxSeq, hostAsks, feedAsks, feed, chunkRead, opens>>

\* emit of a control/approval or control/question, with its updatePendingControl. While
\* the mux is down the hub hears nothing.
Hears(kind, id) ==
  IF ~live THEN UNCHANGED <<feedAsks, feed>>
  ELSE /\ feedAsks' = IF kind = "requested" THEN feedAsks \cup {id} ELSE feedAsks \ {id}
       /\ feed' = FeedEmit(FeedItem(kind, id), feed)

HostAsks(id) ==
  /\ hostAsks[id] = "new" /\ hostAsks' = [hostAsks EXCEPT ![id] = "open"]
  /\ Hears("requested", id)
  /\ UNCHANGED <<logTop, live, muxSeq, cached, texts, chunkRead, opens>>

\* A stream of the host tells what waits, also when it told it before.
HostAsksAgain(id) ==
  /\ live /\ hostAsks[id] = "open"
  /\ Hears("requested", id)
  /\ UNCHANGED <<logTop, live, muxSeq, cached, hostAsks, texts, chunkRead, opens>>

HostCloses(id) ==
  /\ hostAsks[id] = "open" /\ hostAsks' = [hostAsks EXCEPT ![id] = "closed"]
  /\ Hears("resolved", id)
  /\ UNCHANGED <<logTop, live, muxSeq, cached, texts, chunkRead, opens>>

-----------------------------------------------------------------------------
FeedInit ==
  /\ logTop \in {-1, 0} /\ live = FALSE /\ muxSeq = -1 /\ cached = <<>>
  /\ hostAsks = [id \in FeedAsks |-> "new"] /\ feedAsks = {} /\ feed = [p \in Readers |-> NoFeed]
  /\ detailOrder = <<>> /\ details = {} /\ chunkRead = NoChunk /\ opens = 0

FeedNext ==
  \/ EventLogged \/ MuxStarts \/ MuxEnds \/ MuxEvent \/ PageRemembered \/ DetailFails
  \/ \E id \in FeedAsks : HostAsks(id) \/ HostAsksAgain(id) \/ HostCloses(id)
  \/ \E n \in 0..LastEvent : AskDetail(n)
  \/ \E limit \in 1..3 : ReadChunk(limit)
  \/ \E p \in Readers :
       \/ SseTakes(p)
       \/ PhoneGone(p)
       \/ \E scoped \in BOOLEAN, since \in -1..LastEvent : OpenFeed(p, scoped, since)

FeedSpec == FeedInit /\ [][FeedNext]_feedVars

-----------------------------------------------------------------------------
(* What makes it correct. *)

Increasing(s) == \A i, j \in DOMAIN s : i < j => s[i] < s[j]

\* Over replay and live events a phone gets the events in the order of the log, each once,
\* of those it asked for.
FeedInOrder ==
  \A p \in Readers : Increasing(feed[p].taken) /\ \A i \in DOMAIN feed[p].taken : feed[p].taken[i] > feed[p].since

\* A phone that has taken all that waited for it shows the asks that the hub has open.
FeedShowsAsks ==
  \A p \in Readers : ~feed[p].done /\ feed[p].queue = <<>> => feed[p].asks = feedAsks

\* The texts are within their bound, whatever was put again and dropped in between.
DetailsBounded ==
  /\ BytesOf(details) <= DetailBound /\ Len(detailOrder) <= CachedEvents * 4
  /\ details \subseteq ToSet(detailOrder) /\ Cardinality(ToSet(detailOrder)) = Len(detailOrder)

\* A text that is read to its end is complete, whatever the limits were on the way.
DetailComplete == chunkRead.done => chunkRead.points = Len(TextOf[chunkRead.seq])

FeedSound == FeedInOrder /\ FeedShowsAsks /\ DetailsBounded /\ DetailComplete
=============================================================================
