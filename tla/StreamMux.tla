----------------------------- MODULE StreamMux -----------------------------
(***************************************************************************)
(* One accepted browser WebSocket and the hub streams it multiplexes       *)
(* (serveStreamSocket of browser-host-hub-rc1/src/stream-mux.js).  The     *)
(* browser opens and cancels streams by message; every open stream has a   *)
(* pump that waits for the next item of its hub iterator and enqueues it   *)
(* in the fair sender; overflow, cancellation, a failed send and the       *)
(* socket's own events end one stream or all of them.  Every handler runs  *)
(* to completion; the handlers interleave.                                 *)
(***************************************************************************)
EXTENDS FairSender

CONSTANTS PagePrefixes,          \* page epochs a stream id can be prefixed with
          NoPrefix,          \* no stream accepted yet
          ItemSizes,         \* sizes of item frames the hub can produce
          ErrorSizes,        \* sizes of error frames (their message varies)
          EndBytes,          \* size of an end frame
          OverflowBytes,     \* size of the error frame that reports overflow
          MaxItems           \* bound: items one hub stream produces

ASSUME MuxAssumption ==
  /\ Streams \subseteq Nat \ {0} /\ IsFiniteSet(Streams)   \* safe integers
  /\ NoPrefix \notin PagePrefixes
  /\ ItemSizes \subseteq Nat \ {0}
  /\ ErrorSizes \subseteq Nat \ {0}
  /\ EndBytes \in Nat \ {0} /\ OverflowBytes \in Nat \ {0}
  /\ MaxItems \in Nat

VARIABLES sender,      \* the queues of the FairSocketSender
          charges,     \* and its byte counters
          readyState,  \* of the WebSocket: "open", "closing" or "closed"
          status,      \* "new", "open" (in the streams map) or "gone"
          pump,        \* of the stream's loop over its hub iterator
          returned,    \* record.returned: iterator released and aborted
          produced,    \* items the iterator has handed to the pump
          streamPrefix, lastStreamNumber

muxVars == <<sender, charges, readyState, status, pump, returned, produced,
             streamPrefix, lastStreamNumber>>

TypeOK ==
  /\ sender \in Senders
  /\ readyState \in {"open", "closing", "closed"}
  /\ status \in [Streams -> {"new", "open", "gone"}]
  /\ pump \in [Streams -> {"none", "awaiting", "stopped", "exhausted"}]
  /\ returned \in [Streams -> BOOLEAN]
  /\ produced \in [Streams -> Nat]
  /\ streamPrefix \in PagePrefixes \cup {NoPrefix}
  /\ lastStreamNumber \in Nat

Init ==
  /\ sender = NewSender
  /\ charges = NothingCharged
  /\ readyState = "open"
  /\ status = [s \in Streams |-> "new"]
  /\ pump = [s \in Streams |-> "none"]
  /\ returned = [s \in Streams |-> FALSE]
  /\ produced = [s \in Streams |-> 0]
  /\ streamPrefix = NoPrefix
  /\ lastStreamNumber = 0

-----------------------------------------------------------------------------
(***************************************************************************)
(* failSocket, entered with sender q: closes the sender, releases every    *)
(* stream of the map.                                                      *)
(***************************************************************************)
FailSocket(q) ==
  /\ sender' = Closed(q)
  /\ charges' = NothingCharged
  /\ returned' = [s \in Streams |-> returned[s] \/ status[s] = "open"]
  /\ status' = [s \in Streams |-> IF status[s] = "open" THEN "gone" ELSE status[s]]

CloseSocket == readyState' = IF readyState = "open" THEN "closing" ELSE readyState

Frame(kind, n, b) == [kind |-> kind, seq |-> n, bytes |-> b]

\* A forced enqueue of frame f for s on the queues q and the account c: rest
\* holds if the sender takes it or is not writable, and the whole socket fails
\* if it cannot.
Forced(q, c, s, f, rest) ==
  \/ /\ readyState # "open"
     /\ sender' = q /\ charges' = c
     /\ rest
     /\ UNCHANGED readyState
  \/ /\ readyState = "open" /\ Exceeds(c, s, f) = "none"
     /\ sender' = Accepted(q, s, f) /\ charges' = Charged(c, s, f.bytes)
     /\ rest
     /\ UNCHANGED readyState
  \/ /\ readyState = "open" /\ Exceeds(c, s, f) # "none"
     /\ FailSocket(q)
     /\ CloseSocket

\* terminal: the last frame of stream s; an error also releases the iterator.
Terminal(q, c, s, f) ==
  Forced(q, c, s, f, /\ status' = [status EXCEPT ![s] = "gone"]
                     /\ returned' = [returned EXCEPT ![s] = @ \/ f.kind = "error"])

-----------------------------------------------------------------------------
(* Messages of the browser.  The page numbers its streams upwards and does  *)
(* not reuse a number, so an open the server refuses uses a fresh one.      *)

\* A closing socket still delivers what the page had sent.
Listening == ~sender.closed /\ readyState # "closed"

\* acceptStreamId
Acceptable(p, s) == s > lastStreamNumber /\ streamPrefix \in {p, NoPrefix}

Accept(p, s) == streamPrefix' = p /\ lastStreamNumber' = s

\* An open for an endpoint the socket does not serve is answered with an
\* error frame; its number is not consumed.
RefuseEndpoint(s) ==
  /\ Listening /\ status[s] = "new"
  /\ \E b \in ErrorSizes :
       Forced(sender, charges, s, Frame("error", 0, b),
              /\ status' = [status EXCEPT ![s] = "gone"]
              /\ UNCHANGED returned)
  /\ UNCHANGED <<pump, produced, streamPrefix, lastStreamNumber>>

\* A number that does not grow or another page's prefix fails the socket.
RejectOpen(p, s) ==
  /\ Listening /\ ~Acceptable(p, s)
  /\ FailSocket(sender) /\ CloseSocket
  /\ UNCHANGED <<pump, produced, streamPrefix, lastStreamNumber>>

\* hub.openStream throws: the number is consumed, an error frame answers.
HubRefuses(p, s) ==
  /\ Listening /\ status[s] = "new" /\ Acceptable(p, s)
  /\ Accept(p, s)
  /\ \E b \in ErrorSizes :
       Forced(sender, charges, s, Frame("error", 0, b),
              /\ status' = [status EXCEPT ![s] = "gone"]
              /\ UNCHANGED returned)
  /\ UNCHANGED <<pump, produced>>

Open(p, s) ==
  /\ Listening /\ status[s] = "new" /\ Acceptable(p, s)
  /\ Accept(p, s)
  /\ status' = [status EXCEPT ![s] = "open"]
  /\ pump' = [pump EXCEPT ![s] = "awaiting"]
  /\ UNCHANGED <<sender, charges, readyState, returned, produced>>

\* cancel: the record goes, what it held back is dropped, the iterator is
\* released; no terminal frame is sent.
Cancel(s) ==
  /\ Listening /\ status[s] = "open"
  /\ sender' = Dropped(sender, s)
  /\ charges' = Refunded(charges, sender, s)
  /\ status' = [status EXCEPT ![s] = "gone"]
  /\ returned' = [returned EXCEPT ![s] = TRUE]
  /\ UNCHANGED <<readyState, pump, produced, streamPrefix, lastStreamNumber>>

Malformed ==
  /\ Listening
  /\ FailSocket(sender) /\ CloseSocket
  /\ UNCHANGED <<pump, produced, streamPrefix, lastStreamNumber>>

-----------------------------------------------------------------------------
(* The pump of a stream: its iterator.next() settles.                       *)

\* Variant, not the code: the record is not looked at again after the await.
LiveSocket(s) == ~sender.closed

Live(s) == ~sender.closed /\ status[s] = "open"

Stop(s, how) == pump' = [pump EXCEPT ![s] = how]

\* overflow of one stream: forget its backlog, report, release.
Overflow(s) == Terminal(Dropped(sender, s), Refunded(charges, sender, s), s,
                        Frame("error", 0, OverflowBytes))

PumpItem(s) ==
  /\ pump[s] = "awaiting" /\ Live(s) /\ produced[s] < MaxItems
  /\ produced' = [produced EXCEPT ![s] = @ + 1]
  /\ \E b \in ItemSizes :
       LET f == Frame("item", produced[s] + 1, b)
           limit == Exceeds(charges, s, f)
       IN  \/ /\ readyState # "open"
              /\ Stop(s, "stopped")
              /\ UNCHANGED <<sender, charges, status, returned, readyState>>
           \/ /\ readyState = "open" /\ limit = "none"
              /\ sender' = Accepted(sender, s, f)
              /\ charges' = Charged(charges, s, b)
              /\ UNCHANGED <<pump, status, returned, readyState>>
           \/ /\ readyState = "open" /\ limit \in {"frame", "stream"}
              /\ Overflow(s)
              /\ Stop(s, "stopped")
           \/ /\ readyState = "open" /\ limit = "socket"
              /\ FailSocket(sender) /\ CloseSocket
              /\ Stop(s, "stopped")
  /\ UNCHANGED <<streamPrefix, lastStreamNumber>>

PumpEnd(s) ==
  /\ pump[s] = "awaiting" /\ Live(s)
  /\ Terminal(sender, charges, s, Frame("end", 0, EndBytes))
  /\ Stop(s, "exhausted")
  /\ UNCHANGED <<produced, streamPrefix, lastStreamNumber>>

PumpError(s) ==
  /\ pump[s] = "awaiting" /\ Live(s)
  /\ \E b \in ErrorSizes : Terminal(sender, charges, s, Frame("error", 0, b))
  /\ Stop(s, "exhausted")
  /\ UNCHANGED <<produced, streamPrefix, lastStreamNumber>>

\* A settlement after the stream or the socket ended is ignored.
PumpLate(s) ==
  /\ pump[s] = "awaiting" /\ ~Live(s)
  /\ Stop(s, "stopped")
  /\ UNCHANGED <<sender, charges, readyState, status, returned, produced,
                 streamPrefix, lastStreamNumber>>

-----------------------------------------------------------------------------
(* The socket: callbacks of send, and its own events.                       *)

Fail(q) == IF sender.closed
           THEN sender' = q /\ UNCHANGED <<charges, status, returned, readyState>>
           ELSE FailSocket(q) /\ CloseSocket

SendDone ==
  /\ sender.inFlight # NoStream
  /\ sender' = IF readyState = "open" THEN Drained(Released(sender))
                                      ELSE Released(sender)
  /\ charges' = Settled(charges, sender)
  /\ UNCHANGED <<readyState, status, pump, returned, produced,
                 streamPrefix, lastStreamNumber>>

\* The callback reports an error, or send itself throws.
SendFailed ==
  /\ sender.inFlight # NoStream
  /\ Fail(Landed(sender))
  /\ UNCHANGED <<pump, produced, streamPrefix, lastStreamNumber>>

\* The peer, or the service that stops, starts to close the socket; nothing of
\* this connection's own code runs yet.
PeerCloses ==
  /\ readyState = "open"
  /\ readyState' = "closing"
  /\ UNCHANGED <<sender, charges, status, pump, returned, produced,
                 streamPrefix, lastStreamNumber>>

SocketClosed ==
  /\ readyState = "closing"
  /\ readyState' = "closed"
  /\ IF sender.closed THEN UNCHANGED <<sender, charges, status, returned>>
                      ELSE FailSocket(sender)
  /\ UNCHANGED <<pump, produced, streamPrefix, lastStreamNumber>>

SocketError ==
  /\ readyState # "closed" /\ ~sender.closed
  /\ FailSocket(sender) /\ CloseSocket
  /\ UNCHANGED <<pump, produced, streamPrefix, lastStreamNumber>>

-----------------------------------------------------------------------------
Message(s) ==
  \/ \E p \in PagePrefixes : Open(p, s) \/ HubRefuses(p, s) \/ RejectOpen(p, s)
  \/ RefuseEndpoint(s)
  \/ Cancel(s)

Pump(s) == PumpItem(s) \/ PumpEnd(s) \/ PumpError(s) \/ PumpLate(s)

Socket == SendDone \/ SendFailed \/ PeerCloses \/ SocketClosed \/ SocketError

Next == (\E s \in Streams : Message(s) \/ Pump(s)) \/ Malformed \/ Socket

Spec == Init /\ [][Next]_muxVars

-----------------------------------------------------------------------------
(* What makes it correct.                                                   *)

\* The byte counters are exact: what a stream is charged is what it holds
\* back plus its frame in flight, the socket is charged the sum, and both
\* stay within the limits (enqueue, drop and the send callback agree).
BytesAccounted ==
  /\ ~sender.closed =>
       /\ \A s \in Streams :
            /\ charges.stream[s] = SumBytes(sender.items[s]) + FlightBytes(sender, s)
            /\ charges.stream[s] <= MaxStreamQueuedBytes
       /\ charges.socket = FoldFunction(+, 0, charges.stream)
       /\ charges.socket <= MaxSocketQueuedBytes
  /\ sender.closed => charges.socket = 0

\* No lost wakeup: a stream that holds frames is in line once or waits for
\* its own frame in flight, and while the socket is writable a nonempty line
\* means that a send is under way.
WakeupsKept ==
  /\ LineConsistent(sender)
  /\ NoLostWakeup(sender)
  /\ ~sender.closed /\ readyState = "open" /\ sender.ready # <<>>
       => sender.inFlight # NoStream

\* What a stream has sent and still holds back is its items in order with
\* none missing and none the hub did not produce, then at most one terminal frame
\* and nothing after it; an end frame follows every item the hub produced.

Ordered(story, over, made) ==
  \A i \in 1..Len(story) :
    /\ story[i].kind = "item" => story[i].seq = i /\ i <= made
    /\ story[i].kind # "item" => over /\ i = Len(story)
    /\ story[i].kind = "end" => i = made + 1

StreamsInOrder ==
  \A s \in Streams : Ordered(Story(sender, s), status[s] = "gone", produced[s])

\* A stream whose pump stopped without telling the browser is still open only
\* because the socket is going away: no stream of a usable socket stalls.
NoSilentStall ==
  \A s \in Streams :
    status[s] = "open" /\ readyState = "open" => ~sender.closed /\ pump[s] = "awaiting"

\* A stream that left the map has released its hub iterator, unless the
\* iterator ended by itself or was never opened.
IteratorsReleased ==
  \A s \in Streams :
    /\ status[s] = "gone" => returned[s] \/ pump[s] \in {"exhausted", "none"}
    /\ returned[s] => status[s] = "gone"

\* Whatever a stream still owes is on its way, and whatever it no longer needs is let go.
StreamsServed == WakeupsKept /\ NoSilentStall /\ IteratorsReleased

\* The inductive invariant behind these: what holds of one stream, whatever the
\* others do, and of the sender.
StreamInv(s) ==
  /\ Ordered(Story(sender, s), status[s] = "gone", produced[s])
  /\ status[s] = "new" =>
       Story(sender, s) = <<>> /\ produced[s] = 0 /\ ~returned[s] /\ pump[s] = "none"
  /\ status[s] = "open" => pump[s] \in {"awaiting", "stopped"}
  /\ status[s] = "open" /\ pump[s] = "awaiting" => Len(Story(sender, s)) = produced[s]
  /\ status[s] = "open" /\ readyState = "open" => pump[s] = "awaiting"
  /\ status[s] = "gone" => returned[s] \/ pump[s] \in {"exhausted", "none"}
  /\ returned[s] => status[s] = "gone"

IInv ==
  /\ TypeOK
  /\ SenderInv(sender)
  /\ ~sender.closed /\ readyState = "open" /\ sender.ready # <<>>
       => sender.inFlight # NoStream
  /\ sender.closed => \A s \in Streams : status[s] # "open"
  /\ \A s \in Streams : StreamInv(s)

\* The line is fair: while a frame of s waits, whoever is handed to the socket stood
\* before s and stands before it no more, and nobody gets in before s.  So a stream
\* that keeps producing, and gets back in line whenever its frame was sent, passes a
\* waiting one at most once, and no frame waits for more than one of each other stream.
StillWaits(q, r, s) == s \in q.flagged \cap r.flagged /\ Head(r.items[s]) = Head(q.items[s])
FairStep(q, r) ==
  \A s \in Streams : StillWaits(q, r, s) =>
    /\ Before(r.ready, s) \subseteq Before(q.ready, s)
    /\ \A t \in Streams : r.wire[t] # q.wire[t] =>
         t \in Before(q.ready, s) \ Before(r.ready, s)
NoOvertaking == [][FairStep(sender, sender')]_muxVars

\* The multiplexer keeps the promise of StreamPromise: what is on the wire of
\* a stream is a prefix of what its host produced, then its verdict.
Verdict(s) == LET w == sender.wire[s] IN
              IF w = <<>> \/ w[Len(w)].kind = "item" THEN "none" ELSE w[Len(w)].kind
Delivered(s) == IF Verdict(s) = "none" THEN Len(sender.wire[s]) ELSE Len(sender.wire[s]) - 1

Promise == INSTANCE StreamPromise
             WITH made <- produced,
                  delivered <- [s \in Streams |-> Delivered(s)],
                  verdict <- [s \in Streams |-> Verdict(s)]
KeepsPromise == Promise!Spec

\* COMPATIBILITY.md: a stream failure must not contaminate unrelated
\* resources.  The end of one stream, with room left on the socket, leaves
\* every other stream as it is.
EndIsolated ==
  [][\A s, t \in Streams :
       s # t /\ PumpEnd(s) /\ charges.socket + EndBytes <= MaxSocketQueuedBytes
         => status'[t] = status[t]]_muxVars

=============================================================================
