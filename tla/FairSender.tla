----------------------------- MODULE FairSender -----------------------------
(***************************************************************************)
(* The bounded, fair sender that one browser WebSocket owns (class         *)
(* FairSocketSender of browser-host-hub-rc1/src/stream-mux.js), as         *)
(* operators on its state.  Frames of many streams share the socket: every *)
(* stream has its own queue, the streams with something to send wait in a  *)
(* round-robin line, and one frame at a time is handed to the socket.      *)
(*                                                                         *)
(* A frame is abstracted to its kind, its number among the frames of its   *)
(* stream and its size.  The wire records what was handed to the socket.   *)
(***************************************************************************)
EXTENDS Integers, Sequences, SequencesExt

CONSTANTS Streams,              \* the stream ids one socket may carry
          NoStream,             \* "no frame in flight"
          MaxFrameBytes,        \* limit of one frame
          MaxStreamQueuedBytes, \* limit of what one stream holds back
          MaxSocketQueuedBytes  \* limit of what the socket holds back

ASSUME LimitsAssumption ==
  /\ MaxFrameBytes \in Nat \ {0}
  /\ MaxStreamQueuedBytes \in Nat \ {0}
  /\ MaxSocketQueuedBytes \in Nat \ {0}
  /\ NoStream \notin Streams

Frames == [kind : {"item", "end", "error"}, seq : Nat, bytes : Nat]
NoFrame == [kind |-> "item", seq |-> 0, bytes |-> 0]

StreamSets == SUBSET Streams
InFlights  == Streams \cup {NoStream}
Backlogs == [Streams -> Seq(Frames)]
Lines    == Seq(Streams)

NothingHeld == [s \in Streams |-> <<>>]

Senders == [ queues   : StreamSets,                \* keys of #queues
             items    : Backlogs,                 \* queue.items
             flagged  : StreamSets,                \* queue.ready
             ready    : Lines,                     \* #ready
             inFlight : InFlights,                 \* #sending, #inFlightStream
             flight   : Frames,                    \* the frame in the socket
             closed   : BOOLEAN,                   \* #closed
             wire     : Backlogs ]                \* frames given to the socket

NewSender == [ queues   |-> {},
               items    |-> NothingHeld,
               flagged  |-> {},
               ready    |-> <<>>,
               inFlight |-> NoStream,
               flight   |-> NoFrame,
               closed   |-> FALSE,
               wire     |-> NothingHeld ]

(***************************************************************************)
(* The byte account beside the queues: what each stream is charged         *)
(* (queue.bytes) and what the socket is charged (#queuedBytes).            *)
(***************************************************************************)
NothingCharged == [stream |-> [s \in Streams |-> 0], socket |-> 0]

Charged(c, s, b) == [c EXCEPT !.stream[s] = @ + b, !.socket = @ + b]

SumBytes(frames) == FoldSeq(LAMBDA f, total : f.bytes + total, 0, frames)
\* All frames of s so far: on the wire, then held back.
Story(q, s) == q.wire[s] \o q.items[s]

FlightBytes(q, s) == IF q.inFlight = s THEN q.flight.bytes ELSE 0

(***************************************************************************)
(* The limit a frame of s would break, in the order enqueue tests them.    *)
(***************************************************************************)
Exceeds(c, s, f) ==
  CASE f.bytes > MaxFrameBytes -> "frame"
    [] f.bytes <= MaxFrameBytes /\ c.stream[s] + f.bytes > MaxStreamQueuedBytes -> "stream"
    [] /\ f.bytes <= MaxFrameBytes
       /\ c.stream[s] + f.bytes <= MaxStreamQueuedBytes
       /\ c.socket + f.bytes > MaxSocketQueuedBytes -> "socket"
    [] OTHER -> "none"

(***************************************************************************)
(* #drain: unless a frame is in flight, hand the next frame of the first   *)
(* stream in line that still has one to the socket.  Streams ahead of it   *)
(* whose queue is gone or empty leave the line.                            *)
(***************************************************************************)
HasNext(q, i) == q.ready[i] \in q.queues /\ q.items[q.ready[i]] # <<>>
Sendable(q) == {i \in 1..Len(q.ready) : HasNext(q, i)}

\* Variant, not the code: takes the newest frame instead of the oldest.
SendNewest(q, i) ==
  LET s == q.ready[i]
  IN  [q EXCEPT !.ready    = SubSeq(@, i + 1, Len(@)),
                !.flagged  = @ \ Range(SubSeq(q.ready, 1, i)),
                !.items[s] = Front(@),
                !.inFlight = s,
                !.flight   = Last(q.items[s]),
                !.wire[s]  = Append(@, Last(q.items[s]))]

Send(q, i) ==
  LET s == q.ready[i]
  IN  [q EXCEPT !.ready    = SubSeq(@, i + 1, Len(@)),
                !.flagged  = @ \ Range(SubSeq(q.ready, 1, i)),
                !.items[s] = Tail(@),
                !.inFlight = s,
                !.flight   = Head(q.items[s]),
                !.wire[s]  = Append(@, Head(q.items[s]))]

Drained(q) ==
  IF q.closed \/ q.inFlight # NoStream \/ q.ready = <<>> THEN q
  ELSE IF Sendable(q) # {} THEN Send(q, Min(Sendable(q)))
  ELSE [q EXCEPT !.ready = <<>>, !.flagged = @ \ Range(q.ready)]

(***************************************************************************)
(* The accepting path of enqueue: append, get in line, drain.             *)
(***************************************************************************)
Held(q, s, f) == [q EXCEPT !.queues = @ \cup {s}, !.items[s] = Append(@, f)]

InLine(q, s) ==
  IF s \in q.flagged \/ q.inFlight = s THEN q
  ELSE [q EXCEPT !.flagged = @ \cup {s}, !.ready = Append(@, s)]

Accepted(q, s, f) == Drained(InLine(Held(q, s, f), s))

(***************************************************************************)
(* drop: forget what s still holds back.  A frame of s already in flight   *)
(* keeps its queue and its bytes until the socket reports it.  The code    *)
(* filters the line; a stream is in line at most once (LineConsistent),    *)
(* so removing its first occurrence is the same.                           *)
(***************************************************************************)
Dropped(q, s) ==
  IF s \notin q.queues THEN q
  ELSE [q EXCEPT !.items[s] = <<>>,
                 !.flagged  = @ \ {s},
                 !.ready    = RemoveFirst(@, s),
                 !.queues   = IF q.inFlight = s THEN @ ELSE @ \ {s}]

\* Variant, not the code: forgets the bytes of the frame in flight.
RefundedWhole(c, q, s) ==
  IF s \notin q.queues THEN c
  ELSE [c EXCEPT !.socket = @ - SumBytes(q.items[s]), !.stream[s] = 0]

Refunded(c, q, s) ==
  IF s \notin q.queues THEN c
  ELSE LET pending == SumBytes(q.items[s])
       IN  [c EXCEPT !.socket    = @ - pending,
                     !.stream[s] = IF q.inFlight = s THEN @ - pending ELSE 0]

(***************************************************************************)
(* close: every queue is forgotten; a frame in flight still reports back.  *)
(***************************************************************************)
Closed(q) == [q EXCEPT !.closed  = TRUE,
                       !.queues  = {},
                       !.items   = NothingHeld,
                       !.flagged = {},
                       !.ready   = <<>>]

(***************************************************************************)
(* The socket's callback of a successful send: release the bytes, put the  *)
(* stream at the back of the line if it holds more, and drain.             *)
(***************************************************************************)
Landed(q) == [q EXCEPT !.inFlight = NoStream, !.flight = NoFrame]

\* Variant, not the code: the stream is not put back in line.
ReleasedOffLine(q) ==
  IF q.inFlight \in q.queues /\ q.items[q.inFlight] = <<>>
  THEN [Landed(q) EXCEPT !.queues = @ \ {q.inFlight}]
  ELSE Landed(q)

\* Variant, not the code: a stream that holds more goes to the front of the line.
ReleasedFirst(q) ==
  LET s == q.inFlight
  IN  IF s \notin q.queues THEN Landed(q)
      ELSE IF q.items[s] # <<>>
      THEN [Landed(q) EXCEPT !.flagged = @ \cup {s}, !.ready = <<s>> \o @]
      ELSE [Landed(q) EXCEPT !.queues = @ \ {s}]

Released(q) ==
  LET s == q.inFlight
  IN  IF s \notin q.queues THEN Landed(q)
      ELSE IF q.items[s] # <<>>
      THEN [q EXCEPT !.inFlight = NoStream, !.flight = NoFrame,
                     !.flagged = @ \cup {s}, !.ready = Append(@, s)]
      ELSE [q EXCEPT !.inFlight = NoStream, !.flight = NoFrame, !.queues = @ \ {s}]

Settled(c, q) ==
  LET s == q.inFlight
      b == q.flight.bytes
  IN  IF s \notin q.queues THEN c
      ELSE [c EXCEPT !.socket    = @ - b,
                     !.stream[s] = IF q.items[s] # <<>> THEN @ - b ELSE 0]

-----------------------------------------------------------------------------
(***************************************************************************)
(* What holds of a sender between two operations.                          *)
(***************************************************************************)

\* A stream is in line exactly when its flag says so, and only once.
Lined(line, members) ==
  /\ \A i, j \in 1..Len(line) : line[i] = line[j] => i = j
  /\ \A s \in Streams : s \in members <=> \E i \in 1..Len(line) : line[i] = s

LineConsistent(q) == Lined(q.ready, q.flagged)

\* The streams that stand in a line before s.
Before(line, s) ==
  {line[i] : i \in {i \in 1..Len(line) : \E j \in (i + 1)..Len(line) : line[j] = s}}

\* A queue that holds something is in line or has its previous frame in
\* flight (whose callback will put it back in line); nothing else is in line.
NoLostWakeup(q) ==
  /\ \A s \in Streams : q.items[s] # <<>> => s \in q.flagged \/ q.inFlight = s
  /\ \A s \in q.flagged : q.items[s] # <<>> /\ s \in q.queues /\ q.inFlight # s
  /\ ~q.closed /\ q.inFlight # NoStream => q.inFlight \in q.queues

\* Both, with the emptiness of a closed sender: kept by every operation.
SenderInv(q) ==
  /\ q \in Senders
  /\ LineConsistent(q)
  /\ NoLostWakeup(q)
  /\ q.closed => q.ready = <<>> /\ \A s \in Streams : q.items[s] = <<>>
=============================================================================
