---------------------------- MODULE MobileEvents ----------------------------
(***************************************************************************)
(* Session events on their way to the phones (MobileSessionSyncState of    *)
(* mobile-stream-compat-rc1).  The live events of the official runtime     *)
(* come over one global seam, wait until the archived sessions are known,  *)
(* are cached and go to every open stream; history reads that phones make  *)
(* meanwhile fill the same cache and the same watermark.                   *)
(* Sequence numbers start at 1 here, and 0 stands for none.                *)
(***************************************************************************)
EXTENDS Integers, Sequences, SequencesExt

CONSTANTS Sessions, Phones,
          AnySession,                \* the scope of a stream without a session
          MaxSeq,                    \* bound: events of a session
          MaxStreams,                \* bound: streams a phone opens
          MaxReads,                  \* bound: history reads of a session
          MaxCachedEvents, MaxPendingGlobalEvents, MaxSubscriberQueue

ASSUME MobileEventsAssumption ==
  /\ AnySession \notin Sessions
  /\ {MaxSeq, MaxStreams, MaxReads, MaxCachedEvents, MaxPendingGlobalEvents,
      MaxSubscriberQueue} \subseteq Nat \ {0}

VARIABLES
  log,                    \* the official log of a session: its last event
  firstLiveSeq,           \* its first live event, 0 while it is not live
  reading,                \* cursor of a history read that is under way, 0 for none
  reads,                  \* how many there were
  events,                 \* cached events of a session, oldest entry first
  watermark,              \* what the snapshot tells of a session
  archivedSessions,
  workspaceBaselineKnown,
  pendingGlobalEvents, globalBaselineRequired,
  stream,                 \* the subscriber of a phone
  skipped                 \* history: why the hub left an event out

hub == <<events, watermark, archivedSessions, workspaceBaselineKnown,
         pendingGlobalEvents, globalBaselineRequired, stream, skipped>>
eventVars == <<log, firstLiveSeq, reading, reads, hub>>

Seqs == 1..MaxSeq
Item == Sessions \X Seqs
Overflow == <<AnySession, 0>>            \* controls: no session, no sequence
BaselineRequired == <<AnySession, 1>>
NoStream ==
  [on |-> FALSE, done |-> TRUE, scope |-> AnySession, since |-> 0, queue |-> <<>>,
   last |-> [s \in Sessions |-> 0],                   \* lastSeqBySession
   opened |-> 0, from |-> [s \in Sessions |-> 0],     \* history: the logs when it opened,
   got |-> {}, told |-> FALSE,                        \* what was queued, a baseline asked for,
   taken |-> [s \in Sessions |-> 0]]                  \* the last event taken

EventTypeOK ==
  /\ log \in [Sessions -> 0..MaxSeq]
  /\ firstLiveSeq \in [Sessions -> 0..MaxSeq]
  /\ reading \in [Sessions -> 0..MaxSeq] /\ reads \in [Sessions -> 0..MaxReads]
  /\ events \in [Sessions -> Seq(Seqs)]
  /\ \A s \in Sessions : Len(events[s]) <= MaxCachedEvents
  /\ watermark \in [Sessions -> [last : 0..MaxSeq, source : {"none", "mux", "history"}]]
  /\ archivedSessions \subseteq Sessions
  /\ workspaceBaselineKnown \in BOOLEAN /\ globalBaselineRequired \in BOOLEAN
  /\ pendingGlobalEvents \in Seq(Item)
  /\ Len(pendingGlobalEvents) <= MaxPendingGlobalEvents
  /\ \A p \in Phones :
       /\ Len(stream[p].queue) <= MaxSubscriberQueue
       /\ \A i \in 1..Len(stream[p].queue) :
            stream[p].queue[i] \in Item \cup {Overflow, BaselineRequired}
  /\ skipped \in [Item -> {"no", "archived", "cached", "overflow"}]

\* A session may exist when the seam is installed; its events so far are history.
EventsInit ==
  /\ log \in [Sessions -> 0..1] /\ firstLiveSeq = [s \in Sessions |-> 0]
  /\ reading = [s \in Sessions |-> 0] /\ reads = [s \in Sessions |-> 0]
  /\ events = [s \in Sessions |-> <<>>]
  /\ watermark = [s \in Sessions |-> [last |-> 0, source |-> "none"]]
  /\ archivedSessions = {} /\ workspaceBaselineKnown = FALSE
  /\ pendingGlobalEvents = <<>> /\ globalBaselineRequired = FALSE
  /\ stream = [p \in Phones |-> NoStream]
  /\ skipped = [i \in Item |-> "no"]

-----------------------------------------------------------------------------
(* The cache and the watermark. *)

Interval(lo, hi) == [i \in 1..(IF lo <= hi THEN hi - lo + 1 ELSE 0) |-> lo + i - 1]

\* rememberEvent: the oldest entries go, whatever their numbers.
Remembered(cache, q) ==
  IF Contains(cache, q) THEN cache
  ELSE IF Len(cache) < MaxCachedEvents THEN Append(cache, q)
  ELSE Tail(Append(cache, q))

\* The events of a page that was read.
Brought(cache, lo, hi) == FoldLeft(Remembered, cache, Interval(lo, hi))

\* updateWatermark
Marked(mark, last, source) ==
  IF \/ mark.source # "none" /\ last < mark.last
     \/ mark.source = "mux" /\ source = "history" /\ last = mark.last
  THEN mark ELSE [last |-> last, source |-> source]

-----------------------------------------------------------------------------
(* The stream of a phone. *)

Failed(st) == [st EXCEPT !.queue = <<Overflow>>, !.done = TRUE]

\* A control has no number and is not de-duplicated.
Control(st, c) ==
  IF st.done THEN st
  ELSE IF Len(st.queue) >= MaxSubscriberQueue THEN Failed(st)
  ELSE [st EXCEPT !.queue = Append(@, c), !.told = @ \/ c = BaselineRequired]

Later(st, s, q) == q > st.last[s] /\ q > st.since

Enqueued(st, s, q) ==
  IF st.done \/ ~Later(st, s, q) THEN st
  ELSE IF Len(st.queue) >= MaxSubscriberQueue THEN Failed(st)
  ELSE [st EXCEPT !.queue = Append(@, <<s, q>>), !.last[s] = q, !.got = @ \cup {<<s, q>>}]

\* emit
Emitted(streams, s, q) ==
  [p \in Phones |-> IF streams[p].on /\ streams[p].scope \in {s, AnySession}
                    THEN Enqueued(streams[p], s, q) ELSE streams[p]]

-----------------------------------------------------------------------------
(* The hub as a value: a flush and a snapshot tell several events in a turn. *)

Hub == [events |-> events, watermark |-> watermark, stream |-> stream, skipped |-> skipped,
        pending |-> pendingGlobalEvents, required |-> globalBaselineRequired]
Becomes(h) ==
  /\ events' = h.events /\ watermark' = h.watermark
  /\ stream' = h.stream /\ skipped' = h.skipped
  /\ pendingGlobalEvents' = h.pending /\ globalBaselineRequired' = h.required

\* Variant, not the code: an event at or below the watermark is old.
KnownByMark(h, s, q) == q <= h.watermark[s].last

Known(h, s, q) == Contains(h.events[s], q)

\* applyGlobalSessionEvent, with the archived sessions of the moment.
Applied(h, archived, s, q) ==
  IF s \in archived THEN [h EXCEPT !.skipped[<<s, q>>] = "archived"]
  ELSE IF Known(h, s, q) THEN h
  ELSE [h EXCEPT !.events[s] = Remembered(@, q), !.stream = Emitted(@, s, q),
                 !.watermark[s] = Marked(@, q, "mux")]

\* Every stream is told once that it has to read a baseline.
Told(streams) ==
  [p \in Phones |-> IF streams[p].on THEN Control(streams[p], BaselineRequired) ELSE streams[p]]

\* queuePendingGlobalEvent: the oldest gives way.
Queued(h, s, q) ==
  IF Len(h.pending) < MaxPendingGlobalEvents THEN [h EXCEPT !.pending = Append(@, <<s, q>>)]
  ELSE [h EXCEPT !.pending = Tail(Append(@, <<s, q>>)), !.required = TRUE,
                 !.stream = IF h.required THEN @ ELSE Told(@),
                 !.skipped[Head(h.pending)] = IF @ = "no" THEN "overflow" ELSE @]

\* ingestGlobalSessionEvent
Ingested(h, s, q) ==
  IF workspaceBaselineKnown \/ s \in archivedSessions
  THEN Applied(h, archivedSessions, s, q)
  ELSE Queued(h, s, q)

\* The events of a session, one after the other.
IngestedEach(h, s, suffix) == FoldLeft(LAMBDA g, q : Ingested(g, s, q), h, suffix)

-----------------------------------------------------------------------------
\* The official runtime appends an event to a live session and tells it at once.
AppendLive(s) ==
  /\ firstLiveSeq[s] > 0 /\ log[s] < MaxSeq
  /\ log' = [log EXCEPT ![s] = @ + 1]
  /\ Becomes(Ingested(Hub, s, log[s] + 1))
  /\ UNCHANGED <<firstLiveSeq, reading, reads, archivedSessions, workspaceBaselineKnown>>

\* session/created: a session becomes live with a first event, or is told again.
\* Its live events are taken from the snapshot, past the watermark if there is one.
Created(s) ==
  /\ firstLiveSeq[s] > 0 \/ log[s] < MaxSeq
  /\ firstLiveSeq' = [firstLiveSeq EXCEPT ![s] = IF @ > 0 THEN @ ELSE log[s] + 1]
  /\ log' = [log EXCEPT ![s] = IF firstLiveSeq[s] > 0 THEN @ ELSE @ + 1]
  /\ LET start == IF watermark[s].source = "none" THEN firstLiveSeq'[s] ELSE watermark[s].last + 1
         suffix == IF s \in archivedSessions THEN <<>>
                   ELSE Interval(IF start > firstLiveSeq'[s] THEN start ELSE firstLiveSeq'[s], log'[s])
         unseen == IF s \in archivedSessions /\ firstLiveSeq[s] = 0
                   THEN [Hub EXCEPT !.skipped[<<s, log'[s]>>] = "archived"] ELSE Hub
     IN  \E h \in {IngestedEach(unseen, s, suffix)} : Becomes(h)
  /\ UNCHANGED <<reading, reads, archivedSessions, workspaceBaselineKnown>>

\* Variant, not the code: the archived sessions of before the baseline.
FlushedBefore(h, archived) ==
  FoldLeft(LAMBDA g, i : Applied(g, archivedSessions, i[1], i[2]), [h EXCEPT !.pending = <<>>], h.pending)

\* flushPendingGlobalEvents
Flushed(h, archived) ==
  FoldLeft(LAMBDA g, i : Applied(g, archived, i[1], i[2]), [h EXCEPT !.pending = <<>>], h.pending)

\* The workspace stream's baseline, the first or one after a reconnect.
WorkspaceBaseline(archived) ==
  /\ archivedSessions' = archived /\ workspaceBaselineKnown' = TRUE
  /\ \E h \in {Flushed(Hub, archived)} : Becomes(h)
  /\ UNCHANGED <<log, firstLiveSeq, reading, reads>>

\* A session is archived or restored.
Archived(archived) ==
  /\ archived # archivedSessions
  /\ archivedSessions' = archived
  /\ UNCHANGED <<log, firstLiveSeq, reading, reads, events, watermark, workspaceBaselineKnown,
                 pendingGlobalEvents, globalBaselineRequired, stream, skipped>>

-----------------------------------------------------------------------------
(* A phone reads history, of any range below the cursor of its snapshot. *)

ReadStarts(s) ==
  /\ reading[s] = 0 /\ log[s] > 0 /\ reads[s] < MaxReads
  /\ reading' = [reading EXCEPT ![s] = log[s]]
  /\ reads' = [reads EXCEPT ![s] = @ + 1]
  /\ UNCHANGED <<log, firstLiveSeq, hub>>

\* Only the live events that wait in the buffer, or are yet to come, are affected.
LeftToRead(s, lo, hi) ==
  [i \in Item |-> IF i[1] = s /\ i[2] \in lo..hi /\ skipped[i] = "no"
                       /\ ~Contains(events[s], i[2]) /\ Contains(pendingGlobalEvents, i)
                  THEN "cached" ELSE skipped[i]]

\* Head reads and deltas move the watermark, pages further back do not.
ReadEnds(s, lo, hi, head) ==
  /\ reading[s] > 0 /\ lo <= hi /\ hi <= reading[s]
  /\ reading' = [reading EXCEPT ![s] = 0]
  /\ events' = [events EXCEPT ![s] = Brought(@, lo, hi)]
  /\ watermark' = IF head THEN [watermark EXCEPT ![s] = Marked(@, reading[s], "history")]
                  ELSE watermark
  /\ skipped' = LeftToRead(s, lo, hi)
  /\ UNCHANGED <<log, firstLiveSeq, reads, archivedSessions, workspaceBaselineKnown,
                 pendingGlobalEvents, globalBaselineRequired, stream>>

-----------------------------------------------------------------------------
(* Phones. *)

\* cachedEvents of a stream's session
Replayed(scope) ==
  IF scope = AnySession \/ scope \in archivedSessions THEN {} ELSE ToSet(events[scope])

\* They come first, in the order of their numbers.
WithReplay(st, scope, replayed) ==
  FoldLeft(LAMBDA t, q : IF q \in replayed THEN Enqueued(t, scope, q) ELSE t, st, Interval(1, MaxSeq))

\* subscribe
Subscribe(p, scope, since) ==
  /\ ~stream[p].on /\ stream[p].opened < MaxStreams
  /\ LET new == [NoStream EXCEPT !.on = TRUE, !.done = FALSE, !.scope = scope, !.since = since,
                                 !.from = log, !.opened = stream[p].opened + 1]
         told == IF globalBaselineRequired THEN Control(new, BaselineRequired) ELSE new
     IN  stream' = [stream EXCEPT ![p] = WithReplay(told, scope, Replayed(scope))]
  /\ UNCHANGED <<log, firstLiveSeq, reading, reads, events, watermark, archivedSessions,
                 workspaceBaselineKnown, pendingGlobalEvents, globalBaselineRequired, skipped>>

\* The phone takes the next event; after an overflow its stream ends.
Taken(st) ==
  LET e == Head(st.queue) IN
  [st EXCEPT !.queue = Tail(@), !.on = e # Overflow,
             !.taken = IF e \in Item THEN [@ EXCEPT ![e[1]] = e[2]] ELSE @]
TakeQueued(p) ==
  /\ stream[p].on /\ stream[p].queue # <<>>
  /\ stream' = [stream EXCEPT ![p] = Taken(@)]
  /\ UNCHANGED <<log, firstLiveSeq, reading, reads, events, watermark, archivedSessions,
                 workspaceBaselineKnown, pendingGlobalEvents, globalBaselineRequired, skipped>>

\* closeSubscriber
CloseSubscriber(p) ==
  /\ stream[p].on
  /\ stream' = [stream EXCEPT ![p] = [NoStream EXCEPT !.opened = stream[p].opened]]
  /\ UNCHANGED <<log, firstLiveSeq, reading, reads, events, watermark, archivedSessions,
                 workspaceBaselineKnown, pendingGlobalEvents, globalBaselineRequired, skipped>>

-----------------------------------------------------------------------------
EventsNext ==
  \/ \E s \in Sessions :
       \/ AppendLive(s) \/ Created(s) \/ ReadStarts(s)
       \/ \E lo, hi \in Seqs : \E head \in BOOLEAN : ReadEnds(s, lo, hi, head)
  \/ \E archived \in SUBSET Sessions : WorkspaceBaseline(archived) \/ Archived(archived)
  \/ \E p \in Phones :
       \/ \E scope \in Sessions \cup {AnySession} : \E since \in 0..MaxSeq : Subscribe(p, scope, since)
       \/ TakeQueued(p) \/ CloseSubscriber(p)

EventsSpec == EventsInit /\ [][EventsNext]_eventVars

-----------------------------------------------------------------------------
(* What makes it correct. *)

Owed(p) ==
  {i \in Item : /\ stream[p].scope \in {i[1], AnySession}
                /\ i[2] > stream[p].from[i[1]] /\ i[2] <= log[i[1]] /\ i[2] > stream[p].since}

\* An open stream has what was told while it was open, unless one of the reasons holds.
Delivered(reasons) ==
  \A p \in Phones : stream[p].on /\ ~stream[p].done =>
    \A i \in Owed(p) :
      \/ i \in stream[p].got \/ Contains(pendingGlobalEvents, i)
      \/ skipped[i] \in reasons
      \/ skipped[i] = "overflow" /\ stream[p].told

\* An open stream misses nothing that was told while it was open, except what it
\* was told to read a baseline for, what a history read brought first, and what
\* belonged to an archived session.
NoSilentGap == Delivered({"archived", "cached"})

\* The events endpoint "delivers only live events" and an overflow is "never a
\* silent drop" (mobile-stream-compat-rc1/README.md:42 and 113): an open stream gets
\* the live events of sessions that are not archived, whatever others read.
LiveDelivered == Delivered({"archived"})

\* A phone gets the events of a session in their order, each once, whatever is
\* replayed, told twice or read meanwhile.
InOrder ==
  \A p \in Phones :
    LET queue == stream[p].queue IN
    \A j \in 1..Len(queue) : queue[j] \in Item =>
      /\ queue[j][2] > stream[p].taken[queue[j][1]]
      /\ \A k \in 1..(j - 1) : queue[k][1] = queue[j][1] => queue[k][2] < queue[j][2]

\* No event of an archived session enters a stream.
ArchivedSilent ==
  [][\A p \in Phones : stream'[p].opened = stream[p].opened =>
       \A i \in stream'[p].got \ stream[p].got : i[1] \notin archivedSessions']_eventVars

\* The watermark is never beyond the log, and once the archived sessions are known
\* it is never behind a live event that was told, whatever reads end late.
LiveTailKept ==
  \A s \in Sessions :
    /\ watermark[s].last <= log[s]
    /\ workspaceBaselineKnown /\ firstLiveSeq[s] > 0 =>
         \A q \in firstLiveSeq[s]..log[s] : skipped[<<s, q>>] = "no" => q <= watermark[s].last

\* No event is missed silently or told twice or late, and the watermark is true: over
\* the buffer, the cache, the replays, the history reads and the overflow of a stream.
EventsSound == EventTypeOK /\ NoSilentGap /\ InOrder /\ LiveTailKept
=============================================================================
