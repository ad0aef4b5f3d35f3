---------------------------- MODULE Interactions ----------------------------
(***************************************************************************)
(* Approvals and questions that the official runtime asks, on their way to *)
(* the phones and back: InteractionBridge (mobile-interactions-compat)     *)
(* holds what is pending on its official event stream, the event hub       *)
(* (mobile-stream-compat) keeps its own two maps of it for phones that     *)
(* come later, and a phone's stream drops what it has delivered before.    *)
(***************************************************************************)
EXTENDS Integers, Sequences, SequencesExt

CONSTANTS Asks, AskPhones,
          NoAsk,
          MaxConnects,                \* bound: streams opened to the official runtime
          MaxSubscribes,              \* bound: streams opened by a phone
          MaxAskQueue, MaxSubscriberSeen

ASSUME InteractionsAssumption ==
  /\ IsFiniteSet(Asks) /\ NoAsk \notin Asks
  /\ {MaxConnects, MaxSubscribes, MaxAskQueue, MaxSubscriberSeen} \subseteq Nat \ {0}

VARIABLES
  asks,              \* what the official runtime knows of an ask
  link,              \* the bridge's carrier: down, attached, open
  connects,          \* which one it is
  inbox,             \* frames of the official stream on their way
  ready,             \* #clientId is set
  pending,           \* keys of the bridge's #pending
  inFlight,          \* #inFlight
  sent,              \* answers under way to the official runtime, per ask
  attached,          \* the hub listens to the bridge
  interactionFrames, pendingControls,  \* keys of the hub's maps
  subscriber,        \* the stream of a phone
  shown,             \* what a phone shows, from its present stream
  fresh              \* history: the bridge has not disconnected during the stream

bridge == <<link, connects, inbox, ready, pending, inFlight, sent>>
askHub == <<attached, interactionFrames, pendingControls>>
phones == <<subscriber, shown, fresh>>
bridgeVars == <<asks, bridge, askHub, phones>>

Frame == [type : {"requested", "resolved"}, ask : Asks]
AskOverflow == [type |-> "overflow", ask |-> NoAsk]
NoSubscriber == [on |-> FALSE, done |-> TRUE, queue |-> <<>>, seenOrder |-> <<>>, opened |-> 0]

BridgeTypeOK ==
  /\ asks \in [Asks -> {"new", "open", "closed"}]
  /\ link \in {"down", "attached", "open"}
  /\ connects \in 0..MaxConnects
  /\ \A i \in 1..Len(inbox) :
       inbox[i].type \in {"ready", "waterfall", "cancel"} /\ inbox[i].ask \in Asks \cup {NoAsk}
  /\ ready \in BOOLEAN
  /\ {pending, interactionFrames, pendingControls} \subseteq Seq(Asks)
  /\ inFlight \subseteq Asks
  /\ \A a \in Asks : \A i \in 1..Len(sent[a]) : sent[a][i].at \in {"sent", "taken", "refused"}
  /\ attached \in BOOLEAN
  /\ \A p \in AskPhones :
       /\ Len(subscriber[p].seenOrder) <= MaxSubscriberSeen
       /\ Len(subscriber[p].queue) <= MaxAskQueue
       /\ \A i \in 1..Len(subscriber[p].queue) :
            subscriber[p].queue[i] \in Frame \cup {AskOverflow}
       /\ subscriber[p].opened \in 0..MaxSubscribes
  /\ shown \in [AskPhones -> SUBSET Asks]
  /\ fresh \in [AskPhones -> BOOLEAN]

BridgeInit ==
  /\ asks = [a \in Asks |-> "new"]
  /\ link = "down" /\ connects = 0 /\ inbox = <<>> /\ ready = FALSE
  /\ pending = <<>> /\ inFlight = {} /\ sent = [a \in Asks |-> <<>>]
  /\ attached = FALSE /\ interactionFrames = <<>> /\ pendingControls = <<>>
  /\ subscriber = [p \in AskPhones |-> NoSubscriber]
  /\ shown = [p \in AskPhones |-> {}]
  /\ fresh = [p \in AskPhones |-> FALSE]

-----------------------------------------------------------------------------
(* The maps keep the order in which their keys came. *)

WithKey(keys, a) == IF Contains(keys, a) THEN keys ELSE Append(keys, a)
WithoutKey(keys, a) == RemoveFirst(keys, a)

AskIngested(keys, frame) ==
  IF frame.type = "requested" THEN WithKey(keys, frame.ask) ELSE WithoutKey(keys, frame.ask)

-----------------------------------------------------------------------------
(* The stream of a phone. *)

\* Only the latest keys are remembered.
AskRemembered(order, frame) ==
  IF Len(order) < MaxSubscriberSeen THEN Append(order, frame) ELSE Tail(Append(order, frame))

AskFailed(s) == [s EXCEPT !.queue = <<AskOverflow>>, !.seenOrder = <<>>, !.done = TRUE]

AskEnqueued(s, frame) ==
  IF s.done \/ Contains(s.seenOrder, frame) THEN s
  ELSE IF Len(s.queue) >= MaxAskQueue THEN AskFailed(s)
  ELSE [s EXCEPT !.seenOrder = AskRemembered(@, frame), !.queue = Append(@, frame)]

\* The bridge tells its listener, the hub, which tells every stream.
TellHub(frames) ==
  IF attached
  THEN /\ interactionFrames' = FoldLeft(AskIngested, interactionFrames, frames)
       /\ pendingControls' = FoldLeft(AskIngested, pendingControls, frames)
       /\ subscriber' = [p \in AskPhones |-> FoldLeft(AskEnqueued, subscriber[p], frames)]
       /\ UNCHANGED attached
  ELSE UNCHANGED <<askHub, subscriber>>

Requests(keys) == [i \in 1..Len(keys) |-> [type |-> "requested", ask |-> keys[i]]]
Withdrawals(keys) == [i \in 1..Len(keys) |-> [type |-> "resolved", ask |-> keys[i]]]

\* Resolving what is not pending says nothing.
Resolve(a) ==
  /\ pending' = WithoutKey(pending, a)
  /\ TellHub(IF Contains(pending, a) THEN Withdrawals(<<a>>) ELSE <<>>)

-----------------------------------------------------------------------------
(* The official runtime. *)

ToStream(frames) == IF link = "open" THEN inbox \o frames ELSE inbox

Ask(a) ==
  /\ asks[a] = "new"
  /\ asks' = [asks EXCEPT ![a] = "open"]
  /\ inbox' = ToStream(<<[type |-> "waterfall", ask |-> a]>>)
  /\ UNCHANGED <<link, connects, ready, pending, inFlight, sent, askHub, phones>>

\* Another client answers, or the agent gives the ask up.
Close(a) ==
  /\ asks[a] = "open"
  /\ asks' = [asks EXCEPT ![a] = "closed"]
  /\ inbox' = ToStream(<<[type |-> "cancel", ask |-> a]>>)
  /\ UNCHANGED <<link, connects, ready, pending, inFlight, sent, askHub, phones>>

\* An answer of ours arrives, and is refused when the ask is over.  Whether the
\* client that answered is told of it by its stream too is left open; another is.
Take(a) ==
  /\ sent[a] # <<>> /\ Head(sent[a]).at = "sent"
  /\ IF asks[a] = "open"
     THEN /\ asks' = [asks EXCEPT ![a] = "closed"]
          /\ sent' = [sent EXCEPT ![a][1].at = "taken"]
          /\ \/ inbox' = ToStream(<<[type |-> "cancel", ask |-> a]>>)
             \/ Head(sent[a]).connect = connects /\ UNCHANGED inbox
     ELSE /\ sent' = [sent EXCEPT ![a][1].at = "refused"]
          /\ UNCHANGED <<asks, inbox>>
  /\ UNCHANGED <<link, connects, ready, pending, inFlight, askHub, phones>>

\* The event stream opens: who we are, then every ask that is still open.
StreamOpens ==
  /\ link = "attached"
  /\ link' = "open"
  /\ \E replay \in SetToSeqs({a \in Asks : asks[a] = "open"}) :
       inbox' = <<[type |-> "ready", ask |-> NoAsk]>> \o
                [i \in 1..Len(replay) |-> [type |-> "waterfall", ask |-> replay[i]]]
  /\ UNCHANGED <<asks, connects, ready, pending, inFlight, sent, askHub, phones>>

-----------------------------------------------------------------------------
(* The bridge. *)

\* run: a carrier is made and attached.  attach disconnects first.
Attach ==
  /\ link = "down" /\ connects < MaxConnects
  /\ link' = "attached" /\ connects' = connects + 1
  /\ ready' = FALSE /\ pending' = <<>>
  /\ TellHub(Withdrawals(pending))
  /\ UNCHANGED <<asks, inbox, inFlight, sent, shown, fresh>>

\* The stream fails or ends, or could not be opened.
StreamFails ==
  /\ link # "down"
  /\ link' = "down" /\ ready' = FALSE /\ pending' = <<>> /\ inbox' = <<>>
  /\ TellHub(Withdrawals(pending))
  /\ fresh' = [p \in AskPhones |-> fresh[p] /\ pending = <<>>]
  /\ UNCHANGED <<asks, connects, inFlight, sent, shown>>

\* accept
Accept ==
  /\ inbox # <<>>
  /\ inbox' = Tail(inbox)
  /\ LET frame == Head(inbox) IN
       \/ /\ frame.type = "ready" /\ ready' = TRUE
          /\ UNCHANGED <<pending, askHub, subscriber>>
       \/ frame.type = "cancel" /\ Resolve(frame.ask) /\ UNCHANGED ready
       \/ /\ frame.type = "waterfall"
          /\ pending' = WithKey(pending, frame.ask)
          /\ TellHub(IF Contains(pending, frame.ask) THEN <<>> ELSE Requests(<<frame.ask>>))
          /\ UNCHANGED ready
  /\ UNCHANGED <<asks, link, connects, inFlight, sent, shown, fresh>>

Answerable(a) == Contains(pending, a) /\ ready /\ link # "down" /\ a \notin inFlight

\* respond, up to its await: any client of the route may answer.
Respond(a) ==
  /\ Answerable(a)
  /\ inFlight' = inFlight \cup {a}
  /\ sent' = [sent EXCEPT ![a] = Append(@, [connect |-> connects, at |-> "sent"])]
  /\ UNCHANGED <<asks, link, connects, inbox, ready, pending, askHub, phones>>

\* respond, after its await: the receipt is there, whatever happened meanwhile.
Confirmed(a) ==
  /\ sent[a] # <<>> /\ Head(sent[a]).at = "taken"
  /\ sent' = [sent EXCEPT ![a] = Tail(@)]
  /\ inFlight' = inFlight \ {a}
  /\ Resolve(a)
  /\ UNCHANGED <<asks, link, connects, inbox, ready, shown, fresh>>

\* Variant, not the code: the ask is withdrawn although no receipt came.
ResolveAnyway(a) == Resolve(a)

LeavePending(a) == UNCHANGED <<pending, askHub, subscriber>>

\* No receipt: the request or its answer is lost, late or refused.
NotConfirmed(a) ==
  /\ sent[a] # <<>>
  /\ sent' = [sent EXCEPT ![a] = Tail(@)]
  /\ inFlight' = inFlight \ {a}
  /\ LeavePending(a)
  /\ UNCHANGED <<asks, link, connects, inbox, ready, shown, fresh>>

-----------------------------------------------------------------------------
(* The hub and the phones. *)

\* attachInteractions: the bridge's snapshot, and its frames from now on.
AttachHub ==
  /\ ~attached
  /\ attached' = TRUE
  /\ interactionFrames' = FoldLeft(AskIngested, interactionFrames, Requests(pending))
  /\ UNCHANGED <<asks, bridge, pendingControls, phones>>

\* Variant, not the code: only what was seen live is replayed.
ReplayedControls == Requests(pendingControls)

\* What a new stream is given first.
AsksReplayed == Requests(pendingControls) \o Requests(interactionFrames)

\* The phone opens a stream, the first or after the last one ended; the routes
\* answer from the turn on in which the hub attached.
SubscribeAsks(p) ==
  /\ attached /\ ~subscriber[p].on /\ subscriber[p].opened < MaxSubscribes
  /\ LET new == [NoSubscriber EXCEPT !.on = TRUE, !.done = FALSE, !.opened = subscriber[p].opened + 1]
     IN  subscriber' = [subscriber EXCEPT ![p] = FoldLeft(AskEnqueued, new, AsksReplayed)]
  /\ shown' = [shown EXCEPT ![p] = {}]
  /\ fresh' = [fresh EXCEPT ![p] = TRUE]
  /\ UNCHANGED <<asks, bridge, askHub>>

\* The phone takes the next event; after an overflow its stream ends.
TakeNext(p) ==
  /\ subscriber[p].on /\ subscriber[p].queue # <<>>
  /\ LET frame == Head(subscriber[p].queue) IN
       /\ shown' = [shown EXCEPT ![p] =
            CASE frame.type = "requested" -> @ \cup {frame.ask}
              [] frame.type = "resolved"  -> @ \ {frame.ask}
              [] OTHER                    -> @]
       /\ subscriber' = [subscriber EXCEPT ![p].queue = Tail(@), ![p].on = frame # AskOverflow]
  /\ UNCHANGED <<asks, bridge, askHub, fresh>>

\* The phone leaves (closeSubscriber).
Leave(p) ==
  /\ subscriber[p].on
  /\ subscriber' = [subscriber EXCEPT ![p] = [NoSubscriber EXCEPT !.opened = subscriber[p].opened]]
  /\ UNCHANGED <<asks, bridge, askHub, shown, fresh>>

-----------------------------------------------------------------------------
Official(a) == Ask(a) \/ Close(a) \/ Take(a)
Bridge(a) == Respond(a) \/ Confirmed(a) \/ NotConfirmed(a)
Phone(p) == SubscribeAsks(p) \/ TakeNext(p) \/ Leave(p)

BridgeNext ==
  \/ \E a \in Asks : Official(a) \/ Bridge(a)
  \/ StreamOpens \/ Attach \/ StreamFails \/ Accept \/ AttachHub
  \/ \E p \in AskPhones : Phone(p)

BridgeSpec == BridgeInit /\ [][BridgeNext]_bridgeVars

-----------------------------------------------------------------------------
(* What makes it correct. *)

Listening(p) == subscriber[p].on /\ ~subscriber[p].done
Settled(p) == Listening(p) /\ subscriber[p].queue = <<>>

\* The hub's snapshot is what the bridge holds, and its replay adds nothing else.
HubAgrees ==
  attached => /\ interactionFrames = pending
              /\ ToSet(pendingControls) \subseteq ToSet(pending)

\* A phone that has read all of its stream, which lived through no disconnect of
\* the bridge, shows exactly what is pending.
FreshPhoneAgrees ==
  \A p \in AskPhones : Settled(p) /\ fresh[p] => shown[p] = ToSet(pending)

\* At most one answer to an ask is under way, over all connections.
AnsweredOnce == \A a \in Asks : Len(sent[a]) <= 1

\* Hub, bridge and phones agree, and an ask is answered at most once: all that is told of
\* an ask on its way from the runtime to a phone and back.
BridgeSound == BridgeTypeOK /\ HubAgrees /\ FreshPhoneAgrees /\ AnsweredOnce

\* While the bridge is connected an ask leaves it only when it is over.
WithdrawnWhenOver ==
  [][\A a \in Asks : Contains(pending, a) /\ ~Contains(pending', a) /\ link' # "down"
       => asks[a] = "closed"]_bridgeVars

\* "重连等待官方重新下发仍待处理项": after a reconnect what is still pending is
\* offered again (mobile-interactions-compat-rc1/README.md:5).
PendingIsShown ==
  \A p \in AskPhones : Settled(p) => ToSet(pending) \subseteq shown[p]
=============================================================================
