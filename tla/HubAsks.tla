------------------------------ MODULE HubAsks ------------------------------
(***************************************************************************)
(* Asks through the browser hub: one $events stream of a page over the     *)
(* $events streams of all hosts. A host that reconnects or starts again    *)
(* counts its asks anew, so that the number alone does not name an ask.    *)
(***************************************************************************)
EXTENDS Integers, Sequences, FiniteSets

CONSTANTS AskHosts,
          MaxAskConnects, MaxOffers      \* bounds: connections of a host, asks of one

VARIABLES
  hostAsks,     \* the asks each host has open for its present connection
  client,       \* the connection of each host: remoteClientId, 0 before ready
  askWire,      \* frames each host has sent and the hub has not read
  mappings,     \* of the hub: the page's name of an ask to where it belongs
  byRaw,        \* of the hub, per host: the host's number to the page's name
  askQueue,     \* frames for the page
  shown,        \* what the page shows: its name and the ask it is
  given,        \* answers that are underway: to where, and to which ask they are
  heard,        \* asks a host has had an answer for, as [to, ask]
  pageReady,
  connects, offers   \* of each host: its connections, the asks of the present one

askVars == <<hostAsks, client, askWire, mappings, byRaw, askQueue, shown, given, heard,
             pageReady, connects, offers>>
hubSide == <<mappings, byRaw, askQueue, client>>

AskNames(f) == DOMAIN f

-----------------------------------------------------------------------------
\* Variant, not the code: the page's name leaves the connection out.
HostAndNumber(h, k, id) == <<h, 0, id>>
\* encodeSyntheticEventId.
Synthetic(h, k, id) == <<h, k, id>>

Without(f, S) == [n \in DOMAIN f \ S |-> f[n]]

-----------------------------------------------------------------------------
(* The host: its present connection is the last one it has accepted. *)

AskOpened(h) ==
  /\ connects[h] > 0 /\ offers[h] < MaxOffers
  /\ offers' = [offers EXCEPT ![h] = @ + 1]
  /\ hostAsks' = [hostAsks EXCEPT ![h] = @ \cup {offers'[h]}]
  /\ askWire' = [askWire EXCEPT ![h] = Append(@, [type |-> "waterfall", id |-> offers'[h]])]
  /\ UNCHANGED <<hubSide, shown, given, heard, pageReady, connects>>

\* Withdrawn, or answered elsewhere.
AskClosed(h, id) ==
  /\ hostAsks' = [hostAsks EXCEPT ![h] = @ \ {id}]
  /\ askWire' = [askWire EXCEPT ![h] = Append(@, [type |-> "cancel", id |-> id])]
  /\ UNCHANGED <<hubSide, shown, given, heard, pageReady, connects, offers>>

\* An answer that names another connection finds nothing.
AnswerArrives(a) ==
  /\ a \in given
  /\ given' = given \ {a}
  /\ LET h == a.to[1] IN
     IF a.to[2] = connects[h] /\ a.to[3] \in hostAsks[h]
     THEN /\ hostAsks' = [hostAsks EXCEPT ![h] = @ \ {a.to[3]}]
          /\ heard' = heard \cup {a}
     ELSE UNCHANGED <<hostAsks, heard>>
  /\ UNCHANGED <<hubSide, askWire, shown, pageReady, connects, offers>>

-----------------------------------------------------------------------------
(* #pumpEventsHost. *)

Forgotten(h) == Without(mappings, {n \in AskNames(mappings) : mappings[n][1] = h})

\* A new round of the loop, whatever ended the last one; the host has a new connection.
Connect(h) ==
  /\ connects[h] < MaxAskConnects
  /\ connects' = [connects EXCEPT ![h] = @ + 1]
  /\ mappings' = Forgotten(h)
  /\ byRaw' = [byRaw EXCEPT ![h] = <<>>]
  /\ client' = [client EXCEPT ![h] = 0]
  /\ hostAsks' = [hostAsks EXCEPT ![h] = {}]
  /\ askWire' = [askWire EXCEPT ![h] = <<[type |-> "ready", id |-> connects'[h]]>>]
  /\ offers' = [offers EXCEPT ![h] = 0]
  /\ UNCHANGED <<askQueue, shown, given, heard, pageReady>>

Named(h, f) ==
  [type |-> f.type, name |-> IF f.type = "ready" THEN <<h, 0, 0>> ELSE byRaw'[h][f.id],
   ask |-> <<h, client[h], f.id>>]

AskFrame(h) ==
  /\ askWire[h] # <<>>
  /\ askWire' = [askWire EXCEPT ![h] = Tail(@)]
  /\ LET f == Head(askWire[h]) name == Synthetic(h, client[h], f.id) IN
     /\ CASE f.type = "ready" ->
               /\ client' = [client EXCEPT ![h] = f.id]
               /\ byRaw' = [byRaw EXCEPT ![h] = <<>>]
               /\ UNCHANGED mappings
          [] f.type = "waterfall" ->
               /\ byRaw' = [byRaw EXCEPT ![h] = [i \in DOMAIN @ \cup {f.id} |-> IF i = f.id THEN name ELSE @[i]]]
               /\ mappings' = [n \in AskNames(mappings) \cup {name} |->
                                 IF n = name THEN <<h, client[h], f.id>> ELSE mappings[n]]
               /\ UNCHANGED client
          [] OTHER -> UNCHANGED <<client, byRaw, mappings>>
     /\ askQueue' = IF f.type = "cancel" /\ f.id \notin DOMAIN byRaw[h] THEN askQueue
                    ELSE Append(askQueue, Named(h, f))
  /\ UNCHANGED <<hostAsks, shown, given, heard, pageReady, connects, offers>>

-----------------------------------------------------------------------------
(* #eventsStream and #eventResult. *)

PageFrame ==
  /\ askQueue # <<>>
  /\ askQueue' = Tail(askQueue)
  /\ LET f == Head(askQueue) IN
     /\ pageReady' = (pageReady \/ f.type = "ready")
     /\ shown' = CASE f.type = "waterfall" -> {s \in shown : s.name # f.name} \cup {[name |-> f.name, ask |-> f.ask]}
                   [] f.type = "cancel"    -> {s \in shown : s.name # f.name}
                   [] OTHER                -> shown
  /\ UNCHANGED <<hostAsks, client, askWire, mappings, byRaw, given, heard, connects, offers>>

\* Refused unless the mapping is there.
Answer(s) ==
  /\ s \in shown
  /\ shown' = shown \ {s}
  /\ given' = IF s.name \in AskNames(mappings)
              THEN given \cup {[to |-> mappings[s.name], ask |-> s.ask]} ELSE given
  /\ UNCHANGED <<hubSide, hostAsks, askWire, heard, pageReady, connects, offers>>

-----------------------------------------------------------------------------
AsksInit ==
  /\ hostAsks = [h \in AskHosts |-> {}] /\ client = [h \in AskHosts |-> 0]
  /\ askWire = [h \in AskHosts |-> <<>>] /\ mappings = <<>>
  /\ byRaw = [h \in AskHosts |-> <<>>] /\ askQueue = <<>>
  /\ shown = {} /\ given = {} /\ heard = {} /\ pageReady = FALSE
  /\ connects = [h \in AskHosts |-> 0] /\ offers = [h \in AskHosts |-> 0]

AsksNext ==
  \/ \E h \in AskHosts : Connect(h) \/ AskFrame(h) \/ AskOpened(h)
  \/ \E h \in AskHosts : \E id \in hostAsks[h] : AskClosed(h, id)
  \/ \E a \in given : AnswerArrives(a)
  \/ \E s \in shown : Answer(s)
  \/ PageFrame

AsksSpec == AsksInit /\ [][AsksNext]_askVars

-----------------------------------------------------------------------------
(* What makes it correct. *)

\* An answer is heard for the ask the user has seen, never for another one with the
\* same number, of another host or of the host after a restart.
AnswersRight == \A a \in heard \cup given : a.to = a.ask

\* A frame on its way removes or adds asks; the last one of an ask decides.
Underway(h) == {i \in 1..Len(askQueue) : askQueue[i].ask[1] = h}
PageWillShow(h) ==
  {n \in {f.ask : f \in {askQueue[i] : i \in Underway(h)} \cup shown} :
     LET js == {i \in Underway(h) : askQueue[i].ask = n /\ askQueue[i].type # "ready"} IN
     IF js = {} THEN \E s \in shown : s.ask = n
     ELSE \E j \in js : askQueue[j].type = "waterfall" /\ \A i \in js : i <= j}

\* While a connection lasts: what the page shows or will show of it is what the host has
\* open and no answer is under way for, and all of it can be answered.
AsksAgree ==
  \A h \in AskHosts : client[h] # 0 /\ client[h] = connects[h] /\ askWire[h] = <<>> =>
    LET mine == {n \in PageWillShow(h) : n[1] = h /\ n[2] = client[h]}
        answered == {a.ask : a \in given \cup heard} IN
    /\ {n[3] : n \in mine} \subseteq hostAsks[h]
    /\ \A id \in hostAsks[h] : <<h, client[h], id>> \in mine \cup answered
    /\ \A n \in mine : \E m \in AskNames(mappings) : mappings[m] = n

AsksSound == AnswersRight /\ AsksAgree
=============================================================================
