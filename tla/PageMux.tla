------------------------------ MODULE PageMux ------------------------------
(***************************************************************************)
(* The page's side of the stream multiplexer, in the bootstrap script: one *)
(* WebSocket at a time for all streams, its epochs, the records of the     *)
(* streams that wait for it or run on it.  A socket that begins to close   *)
(* is no longer used, and tells of its end only later.                     *)
(***************************************************************************)
EXTENDS Integers, Sequences

CONSTANTS Records,                   \* the page's streams
          MaxEpochs, MaxItems        \* bounds: sockets, items of a stream

VARIABLES
  sockets,       \* readyState of every socket, and whether its close was told
  socket,        \* the epoch of the page's socket, 0 for undefined
  socketPromise, \* somebody waits for it
  record,        \* the streams
  downlink,      \* per socket: frames on their way to the page
  serving        \* per socket: the streams its server has open, with the items sent

pageVars == <<sockets, socket, socketPromise, record, downlink, serving>>

NewRecord == [at |-> "new", epoch |-> 0, ready |-> "pending", end |-> "none", items |-> <<>>]
socketEpoch == Len(sockets)
UsableSocket == socket # 0 /\ sockets[socket] = "open"

-----------------------------------------------------------------------------
(* Records. *)

\* finishRecord, which keeps the first end.
Finished(rec, how) == IF rec.at = "over" THEN rec ELSE [rec EXCEPT !.at = "over", !.end = how]

\* failEpoch: the streams that run on the socket; and those that waited for it, whose
\* promise is rejected.
Failed(epoch, rejected) ==
  [r \in Records |->
     IF record[r].at = "running" /\ record[r].epoch = epoch THEN Finished(record[r], "failed")
     ELSE IF record[r].at = "waiting" /\ rejected
     THEN [Finished(record[r], "failed") EXCEPT !.ready = "rejected"]
     ELSE record[r]]

\* What is done when ensureSocket resolves: the open frame goes out.
Running(rec, epoch) == [rec EXCEPT !.at = "running", !.epoch = epoch, !.ready = "resolved"]

OpenAll(epoch, who) ==
  serving' = [serving EXCEPT ![epoch] =
                [r \in DOMAIN @ \cup who |-> IF r \in DOMAIN @ THEN @[r] ELSE 0]]

Delivered(rec, epoch, frame) == rec.at = "running" /\ rec.epoch = epoch

\* deliver.
Received(rec, epoch, frame) ==
  IF frame[1] = "item" THEN [rec EXCEPT !.items = Append(@, <<epoch, frame[3]>>)]
  ELSE Finished(rec, frame[1])

-----------------------------------------------------------------------------
(* The page. *)

\* protocolStream with ensureSocket.
OpenRecord(r) ==
  /\ record[r].at = "new"
  /\ IF UsableSocket
     THEN /\ record' = [record EXCEPT ![r] = Running(@, socket)]
          /\ OpenAll(socket, {r})
          /\ UNCHANGED <<sockets, socket, socketPromise, downlink>>
     ELSE /\ record' = [record EXCEPT ![r].at = "waiting"]
          /\ IF socketPromise
             THEN UNCHANGED <<sockets, socket, socketPromise, downlink, serving>>
             ELSE /\ socketEpoch < MaxEpochs
                  /\ sockets' = Append(sockets, "connecting")
                  /\ socket' = socketEpoch' /\ socketPromise' = TRUE
                  /\ downlink' = Append(downlink, <<>>)
                  /\ serving' = Append(serving, <<>>)

\* cancelRecord: by the reader's return or its signal.
CancelRecord(r) ==
  /\ record[r].at \in {"waiting", "running"}
  /\ record' = [record EXCEPT ![r] = Finished(@, "cancelled")]
  /\ serving' = IF record[r].at = "running" /\ record[r].epoch = socketEpoch /\ UsableSocket
                THEN [serving EXCEPT ![socket] = [x \in DOMAIN @ \ {r} |-> @[x]]]
                ELSE serving
  /\ UNCHANGED <<sockets, socket, socketPromise, downlink>>

\* shutdown: every stream is cancelled and the socket given up.
Shutdown ==
  /\ socket # 0
  /\ record' = [r \in Records |->
       IF record[r].at = "new" THEN record[r] ELSE Finished(record[r], "cancelled")]
  /\ sockets' = [sockets EXCEPT ![socket] =
       CASE @ = "open" -> "closing" [] @ = "connecting" -> "refused" [] OTHER -> @]
  /\ serving' = [serving EXCEPT ![socket] = <<>>]
  /\ socket' = 0 /\ socketPromise' = FALSE
  /\ UNCHANGED downlink

-----------------------------------------------------------------------------
(* Sockets. *)

\* Variant, not the code: the events of any socket are those of the page's.
AnyEpoch(e) == TRUE

Current(e) == e = socketEpoch /\ socket = e

SocketOpens(e) ==
  /\ sockets[e] = "connecting"
  /\ sockets' = [sockets EXCEPT ![e] = "open"]
  /\ LET waiting == {r \in Records : record[r].at = "waiting"} IN
     IF Current(e)
     THEN /\ socketPromise' = FALSE
          /\ record' = [r \in Records |-> IF r \in waiting THEN Running(record[r], e)
                         ELSE record[r]]
          /\ OpenAll(e, waiting)
     ELSE UNCHANGED <<socketPromise, record, serving>>
  /\ UNCHANGED <<socket, downlink>>

\* The closing begins, at either end or in the network: nobody is told of it.
SocketClosing(e) ==
  /\ sockets[e] \in {"connecting", "open"}
  /\ sockets' = [sockets EXCEPT ![e] = IF @ = "open" THEN "closing" ELSE "refused"]
  /\ serving' = [serving EXCEPT ![e] = <<>>]
  /\ UNCHANGED <<socket, socketPromise, record, downlink>>

\* The close event, after the messages; a connection that was refused has an error
\* event in the same turn, whose handler does the same.
SocketClosed(e) ==
  /\ sockets[e] \in {"closing", "refused"} /\ downlink[e] = <<>>
  /\ sockets' = [sockets EXCEPT ![e] = "closed"]
  /\ IF Current(e)
     THEN /\ socket' = 0 /\ socketPromise' = FALSE
          /\ record' = Failed(e, sockets[e] = "refused")
     ELSE UNCHANGED <<socket, socketPromise, record>>
  /\ UNCHANGED <<downlink, serving>>

\* The server sends of a stream it has open.
ServerSends(e, r) ==
  /\ sockets[e] = "open" /\ r \in DOMAIN serving[e]
  /\ \/ /\ serving[e][r] < MaxItems
        /\ serving' = [serving EXCEPT ![e][r] = @ + 1]
        /\ downlink' = [downlink EXCEPT ![e] = Append(@, <<"item", r, serving[e][r] + 1>>)]
     \/ \E type \in {"end", "error"} :
          /\ serving' = [serving EXCEPT ![e] = [x \in DOMAIN @ \ {r} |-> @[x]]]
          /\ downlink' = [downlink EXCEPT ![e] = Append(@, <<type, r, 0>>)]
  /\ UNCHANGED <<sockets, socket, socketPromise, record>>

\* The message handler.
MessageArrives(e) ==
  /\ downlink[e] # <<>>
  /\ downlink' = [downlink EXCEPT ![e] = Tail(@)]
  /\ LET frame == Head(downlink[e]) rec == record[frame[2]] IN
     IF Current(e) /\ Delivered(rec, e, frame)
     THEN record' = [record EXCEPT ![frame[2]] = Received(@, e, frame)]
     ELSE UNCHANGED record
  /\ UNCHANGED <<sockets, socket, socketPromise, serving>>

-----------------------------------------------------------------------------
PageInit ==
  /\ sockets = <<>> /\ socket = 0 /\ socketPromise = FALSE
  /\ record = [r \in Records |-> NewRecord] /\ downlink = <<>> /\ serving = <<>>

PageNext ==
  \/ \E r \in Records : OpenRecord(r) \/ CancelRecord(r)
  \/ Shutdown
  \/ \E e \in DOMAIN sockets :
       \/ SocketOpens(e) \/ SocketClosing(e) \/ SocketClosed(e) \/ MessageArrives(e)
       \/ \E r \in Records : ServerSends(e, r)

PageSpec == PageInit /\ [][PageNext]_pageVars

-----------------------------------------------------------------------------
(* What makes it correct. *)

\* A stream gets the items of one opening of its own, from the first, in order.
NoStaleFrame ==
  \A r \in Records :
    /\ \A i \in DOMAIN record[r].items : record[r].items[i] = <<record[r].epoch, i>>
    /\ record[r].end = "end" => record[r].ready = "resolved"

\* A stream that waits has a socket that will tell; one that runs has a socket whose
\* end it will be told, unless the page took a new socket before the old one told.
NoOrphan ==
  \A r \in Records :
    /\ record[r].at = "waiting" =>
         socketPromise /\ socket = socketEpoch /\ sockets[socket] \in {"connecting", "refused"}
    /\ record[r].at = "running" =>
         sockets[record[r].epoch] # "closed" \/ record[r].epoch < socketEpoch

\* What the server has open the page has open too: a reader that leaves is told.
ServerAgrees ==
  \A e \in DOMAIN sockets : sockets[e] = "open" =>
    \A r \in DOMAIN serving[e] : record[r].at = "running" /\ record[r].epoch = e

PageSound == NoStaleFrame /\ NoOrphan /\ ServerAgrees
=============================================================================
