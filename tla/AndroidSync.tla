----------------------------- MODULE AndroidSync -----------------------------
(***************************************************************************)
(* The compatibility copy of the session synchronisation for the Android   *)
(* shell: watermarks fed by the mux and by cold tail reads, snapshots made *)
(* of them, and deltas and history pages read from a live tail, which the  *)
(* phone's budget of events and bytes cuts on one side.                    *)
(***************************************************************************)
EXTENDS Integers, Sequences, FiniteSets, SequencesExt

CONSTANTS
  AndroidSessions,
  ScanPages,                   \* options.maxScanPages
  FitEvents, FitBytes,         \* options.maxEvents and maxBytes of a v3 answer
  SizeOfEvent,                 \* the size of an event, by its sequence
  MaxTop, MaxReads             \* bounds: sequences, requests

ASSUME AndroidAssumption ==
  /\ {ScanPages, FitEvents, FitBytes, MaxTop, MaxReads} \subseteq Nat /\ FitEvents # 0
  /\ IsFiniteSet(AndroidSessions)

VARIABLES
  top,                         \* the last event of each session's log, without gaps
  muxOpen, muxTold,            \* the mux stream, and up to where it has told of each log
  watermarks,                  \* MobileSessionSyncState
  coldPending, coldQueue, coldTail,
  read,                        \* the request in progress
  result,                      \* the last answer
  reads

androidVars == <<top, muxOpen, muxTold, watermarks, coldPending, coldQueue, coldTail, read, result, reads>>
cold == <<coldPending, coldQueue, coldTail>>
hostSide == <<top, muxOpen, muxTold>>

Unknown == -2
NoWatermark == [lastSeq |-> Unknown, source |-> "none"]
NoTail == [session |-> {}, lastSeq |-> Unknown]
NoRead == [kind |-> "none", session |-> {}, after |-> -1, limit |-> 0, from |-> 0, tail |-> Unknown, pages |-> 0]
NoResult == [kind |-> "none"]
Asked == CHOOSE s \in read.session : TRUE

-----------------------------------------------------------------------------
(* Watermarks. *)

updateWatermark(s, lastSeq, source) ==
  watermarks' = IF lastSeq < watermarks[s].lastSeq \/ (watermarks[s].source = "mux" /\ source = "history")
                THEN watermarks
                ELSE [watermarks EXCEPT ![s] = [lastSeq |-> lastSeq, source |-> source]]

LogsGrow(s) ==
  /\ top[s] < MaxTop /\ top' = [top EXCEPT ![s] = @ + 1]
  /\ UNCHANGED <<muxOpen, muxTold, watermarks, cold, read, result, reads>>

\* runMux: the stream opens again after its end, with the cursors of all sessions.
MuxOpens ==
  /\ ~muxOpen /\ muxOpen' = TRUE
  /\ muxTold' = [s \in AndroidSessions |-> Unknown]
  /\ UNCHANGED <<top, watermarks, cold, read, result, reads>>

MuxBreaks ==
  /\ muxOpen /\ muxOpen' = FALSE
  /\ UNCHANGED <<top, muxTold, watermarks, cold, read, result, reads>>

\* convertMobileMuxFrame: session/subscribed of a session, then its events.
MuxTells(s) ==
  /\ muxOpen /\ muxTold[s] < top[s]
  /\ muxTold' = [muxTold EXCEPT ![s] = IF @ = Unknown THEN top[s] ELSE @ + 1]
  /\ updateWatermark(s, muxTold'[s], "mux")
  /\ UNCHANGED <<top, muxOpen, cold, read, result, reads>>

-----------------------------------------------------------------------------
(* Cold tails: one read at a time. *)

\* scheduleColdTail of several sessions, in the order of the list.
Scheduled(sessions) ==
  LET new == {s \in sessions \ coldPending : watermarks[s].source # "mux"} IN
  /\ coldPending' = coldPending \cup new
  /\ coldQueue' = coldQueue \o SetToSeq(new)

\* drainColdTails takes the next.
TailAsked ==
  /\ coldTail = NoTail /\ coldQueue # <<>>
  /\ coldTail' = [session |-> {Head(coldQueue)}, lastSeq |-> Unknown]
  /\ coldQueue' = Tail(coldQueue)
  /\ UNCHANGED <<hostSide, watermarks, coldPending, read, result, reads>>

\* readSessionTailWatermark: the host reads the newest page at this instant.
TailRead ==
  /\ coldTail # NoTail /\ coldTail.lastSeq = Unknown
  /\ coldTail' = [coldTail EXCEPT !.lastSeq = top[CHOOSE s \in coldTail.session : TRUE]]
  /\ UNCHANGED <<hostSide, watermarks, coldPending, coldQueue, read, result, reads>>

TailOver ==
  /\ coldPending' = coldPending \ coldTail.session /\ coldTail' = NoTail
  /\ UNCHANGED <<hostSide, coldQueue, read, result, reads>>

TailArrives ==
  /\ coldTail.lastSeq # Unknown
  /\ \A s \in coldTail.session : updateWatermark(s, coldTail.lastSeq, "history")
  /\ TailOver

\* Variant, not the code: a read that has not begun to answer is waited for.
OnceRead == coldTail.lastSeq # Unknown

\* withTimeout, or the read fails: the session stays unknown.
TailOverdue == coldTail # NoTail
TailFails == TailOverdue /\ UNCHANGED watermarks /\ TailOver

-----------------------------------------------------------------------------
(* readSessionSyncSnapshot and its handlers, of v2 and v3. *)

\* The list and the workspaces are read; what follows is of one piece.
Snapshot(version) ==
  /\ read = NoRead /\ reads < MaxReads /\ reads' = reads + 1
  /\ \E listed \in SUBSET AndroidSessions :
       LET unknown == {s \in listed : watermarks[s] = NoWatermark} IN
       /\ Scheduled(unknown)
       /\ result' = IF version = 2 /\ unknown # {} THEN [kind |-> "snapshot-pending"]
                    ELSE [kind |-> "snapshot", rows |-> [s \in listed |-> watermarks[s].lastSeq]]
  /\ UNCHANGED <<hostSide, watermarks, coldTail, read>>

-----------------------------------------------------------------------------
(* Reading. *)

AskedWith(kind, s, after, limit) ==
  /\ read = NoRead /\ reads < MaxReads /\ reads' = reads + 1
  /\ read' = [NoRead EXCEPT !.kind = kind, !.session = {s}, !.after = after, !.limit = limit]
  /\ UNCHANGED <<hostSide, watermarks, cold, result>>

\* validateDeltaRequest, of v2 and v3: -1 or a sequence, and a limit.
DeltaAsked(s) == \E kind \in {"delta", "v3-delta"}, after \in -1..MaxTop, limit \in 1..2 : AskedWith(kind, s, after, limit)

\* validateV3HistoryRequest; -1 for no beforeSeq.
HistoryAsked(s) == \E before \in {-1} \cup 1..MaxTop : AskedWith("history", s, before, 0)

Answered(answer) ==
  /\ result' = answer /\ read' = NoRead
  /\ UNCHANGED <<hostSide, cold, reads>>

ReadFails == read # NoRead /\ Answered(NoResult) /\ UNCHANGED watermarks

SeqInterval(a, b) == [i \in 1..(IF b < a THEN 0 ELSE b - a + 1) |-> a + i - 1]

\* fitV3Events: as many as the budget of events and of bytes takes, from the front; the
\* first is there in any case, without its body when it is too large.
Sizes(events, n) == FoldFunctionOnSet(LAMBDA a, b : a + b, 0, [i \in 1..n |-> SizeOfEvent[events[i]]], 1..n)
Fits(events, n) == n <= FitEvents /\ (n = 1 \/ (SizeOfEvent[events[1]] <= FitBytes /\ Sizes(events, n) <= FitBytes))
fitV3Events(events) ==
  LET n == CHOOSE n \in 0..Len(events) : /\ n = 0 \/ Fits(events, n)
                                         /\ n < Len(events) => ~Fits(events, n + 1) IN
  [events |-> SubSeq(events, 1, n), truncated |-> n < Len(events) \/ (n = 1 /\ SizeOfEvent[events[1]] > FitBytes)]

\* Variant, not the code: the oldest, as a delta does.
OldestFit(events) == fitV3Events(events)

\* History keeps the newest.
NewestFit(events) == LET fit == fitV3Events(Reverse(events)) IN [fit EXCEPT !.events = Reverse(@)]

\* readMobileV3History: one page.
HistoryPage(s, from, to) ==
  LET fit == NewestFit(SeqInterval(from, to)) more == from > 0 \/ fit.truncated IN
  Answered([kind |-> "history", session |-> s, to |-> to, events |-> fit.events, hasMore |-> more,
            nextBeforeSeq |-> IF more THEN fit.events[1] ELSE -1, lastSeq |-> watermarks'[s].lastSeq])

\* A page has some of the events before beforeSeq, or of all.
HistoryArrives ==
  /\ read.kind = "history"
  /\ LET s == Asked to == IF read.after < 0 THEN top[s] ELSE IF read.after <= top[s] THEN read.after - 1 ELSE top[s] IN
     \E from \in IF to < 0 THEN {0} ELSE 0..to :
       /\ IF read.after < 0 THEN updateWatermark(s, to, "history") ELSE UNCHANGED watermarks
       /\ HistoryPage(s, from, to)

\* readSessionDelta, when the walk is over: at the phone's cursor, the origin or the limit.
DeltaAnswer(s, r, over) ==
  LET lastSeq == IF watermarks[s] # NoWatermark THEN watermarks[s].lastSeq ELSE r.tail
      later == SeqInterval(IF r.from > r.after THEN r.from ELSE r.after + 1, r.tail)
      reached == over \/ (later # <<>> /\ later[1] = r.after + 1)
      events == IF reached THEN SubSeq(later, 1, IF Len(later) < r.limit THEN Len(later) ELSE r.limit) ELSE <<>>
      through == IF events = <<>> THEN r.after ELSE events[Len(events)]
  IN [kind |-> "delta", session |-> s, after |-> r.after, tail |-> r.tail, events |-> events,
      through |-> through, lastSeq |-> lastSeq, caughtUp |-> reached /\ through >= lastSeq,
      hasMore |-> through < lastSeq, scanLimitReached |-> ~reached]

\* readMobileV3Delta cuts it at the end.
V3Answer(delta) ==
  LET fit == fitV3Events(delta.events) IN
  [delta EXCEPT !.events = fit.events,
                !.through = IF fit.events = <<>> THEN delta.after ELSE fit.events[Len(fit.events)],
                !.caughtUp = @ /\ ~fit.truncated, !.hasMore = @ \/ fit.truncated]

\* A page: the first one is of the live tail, the others end before it.
AndroidPage ==
  /\ read.kind \in {"delta", "v3-delta"}
  /\ LET s == Asked first == read.tail = Unknown to == IF first THEN top[s] ELSE read.from - 1 IN
     \E from \in IF to < 0 THEN {0} ELSE 0..to :
       LET r == [read EXCEPT !.from = from, !.pages = @ + 1, !.tail = IF first THEN to ELSE @]
           over == from <= r.after \/ from = 0
       IN IF over \/ r.pages >= ScanPages
          THEN LET delta == DeltaAnswer(s, r, over) IN
               Answered(IF read.kind = "delta" THEN delta ELSE V3Answer(delta))
          ELSE read' = r /\ UNCHANGED <<hostSide, cold, result, reads>>
  /\ UNCHANGED watermarks

-----------------------------------------------------------------------------
AndroidInit ==
  /\ top \in [AndroidSessions -> {-1, 1}]
  /\ muxOpen = FALSE /\ muxTold = [s \in AndroidSessions |-> Unknown]
  /\ watermarks = [s \in AndroidSessions |-> NoWatermark]
  /\ coldPending = {} /\ coldQueue = <<>> /\ coldTail = NoTail
  /\ read = NoRead /\ result = NoResult /\ reads = 0

AndroidNext ==
  \/ \E s \in AndroidSessions : LogsGrow(s) \/ MuxTells(s) \/ DeltaAsked(s) \/ HistoryAsked(s)
  \/ MuxOpens \/ MuxBreaks \/ TailAsked \/ TailRead \/ TailArrives \/ TailFails
  \/ \E version \in {2, 3} : Snapshot(version)
  \/ ReadFails \/ HistoryArrives \/ AndroidPage

TailsAreRead == WF_androidVars(TailAsked) /\ WF_androidVars(TailFails)
AndroidSpec == AndroidInit /\ [][AndroidNext]_androidVars /\ TailsAreRead

-----------------------------------------------------------------------------
(* What makes it correct. *)

Run(events, from, to) == events = SeqInterval(from, to)

\* A delta is the log from the phone's cursor on without a gap, or nothing; a cut one says
\* that there is more, and with the limit of the scan nothing is told.
DeltaContinuous ==
  result.kind = "delta" =>
    /\ Run(result.events, result.after + 1, result.through) \/ (result.events = <<>> /\ result.through = result.after)
    /\ result.through <= top[result.session] \/ result.events = <<>>
    /\ result.scanLimitReached => result.events = <<>> /\ ~result.caughtUp
    /\ ~result.caughtUp /\ ~result.scanLimitReached => result.hasMore

\* A history page ends where the one before it began, and its cursor goes on from where
\* it begins: paging back, the phone sees each event once, until the origin.
HistoryContinuous ==
  result.kind = "history" =>
    LET from == IF result.hasMore THEN result.nextBeforeSeq ELSE 0 IN Run(result.events, from, result.to)

\* What is told of a tail was true: it is in the log, an empty log was seen empty, and no
\* tail that was told is taken back.
TailsTrue ==
  /\ \A s \in AndroidSessions : watermarks[s].lastSeq <= top[s]
  /\ result.kind = "snapshot" =>
       \A s \in DOMAIN result.rows :
         result.rows[s] <= watermarks[s].lastSeq

AndroidSound == DeltaContinuous /\ HistoryContinuous /\ TailsTrue

\* A tail that is asked for is found or given up, also of a session that waits in the
\* queue behind a read that hangs, while the phone goes on listing (drainColdTails with
\* withTimeout, scheduleColdTail).
ColdTailsSettle == \A s \in AndroidSessions : s \in coldPending ~> s \notin coldPending
=============================================================================
