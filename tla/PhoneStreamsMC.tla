--------------------------- MODULE PhoneStreamsMC ---------------------------
(* What a phone is told as it happens: the asks of the interaction bridge, the    *)
(* events of the hub, and both again in the Android copy.  The three share no     *)
(* state, so a behaviour moves one of them and the states of the three add up.    *)
EXTENDS Interactions, MobileEvents, AndroidEvents

VARIABLE moving

MCTextOf == [n \in 0..1 |-> IF n = 0 THEN <<1, 2>> ELSE <<3, 1>>]

MCInit ==
  /\ moving \in {"bridge", "events", "feed"}
  /\ BridgeInit /\ EventsInit /\ FeedInit
  /\ moving # "events" => \A s \in Sessions : log[s] = 0
  /\ moving # "feed" => logTop = 0

InBridge == moving = "bridge" /\ UNCHANGED <<eventVars, feedVars, moving>>
InEvents == moving = "events" /\ UNCHANGED <<bridgeVars, feedVars, moving>>
InFeed == moving = "feed" /\ UNCHANGED <<bridgeVars, eventVars, moving>>

MCNext ==
  \/ \E a \in Asks :
       \/ InBridge /\ Ask(a)
       \/ InBridge /\ Close(a)
       \/ InBridge /\ Take(a)
       \/ InBridge /\ Respond(a)
       \/ InBridge /\ Confirmed(a)
       \/ InBridge /\ NotConfirmed(a)
  \/ InBridge /\ StreamOpens
  \/ InBridge /\ Attach
  \/ InBridge /\ StreamFails
  \/ InBridge /\ Accept
  \/ InBridge /\ AttachHub
  \/ \E p \in AskPhones :
       \/ InBridge /\ SubscribeAsks(p)
       \/ InBridge /\ TakeNext(p)
       \/ InBridge /\ Leave(p)
  \/ \E s \in Sessions :
       \/ InEvents /\ AppendLive(s)
       \/ InEvents /\ Created(s)
       \/ InEvents /\ ReadStarts(s)
       \/ \E lo, hi \in Seqs : \E head \in BOOLEAN : InEvents /\ ReadEnds(s, lo, hi, head)
  \/ \E archived \in SUBSET Sessions :
       \/ InEvents /\ WorkspaceBaseline(archived)
       \/ InEvents /\ Archived(archived)
  \/ \E p \in Phones :
       \/ \E scope \in Sessions \cup {AnySession} : \E since \in 0..MaxSeq :
            InEvents /\ Subscribe(p, scope, since)
       \/ InEvents /\ TakeQueued(p)
       \/ InEvents /\ CloseSubscriber(p)
  \/ InFeed /\ EventLogged
  \/ InFeed /\ MuxStarts
  \/ InFeed /\ MuxEnds
  \/ InFeed /\ MuxEvent
  \/ InFeed /\ PageRemembered
  \/ \E id \in FeedAsks :
       \/ InFeed /\ HostAsks(id)
       \/ InFeed /\ HostAsksAgain(id)
       \/ InFeed /\ HostCloses(id)
  \/ InFeed /\ DetailFails
  \/ \E n \in 0..LastEvent : InFeed /\ AskDetail(n)
  \/ \E limit \in 1..3 : InFeed /\ ReadChunk(limit)
  \/ \E p \in Readers :
       \/ \E scoped \in BOOLEAN, since \in -1..LastEvent : InFeed /\ OpenFeed(p, scoped, since)
       \/ InFeed /\ SseTakes(p)
       \/ InFeed /\ PhoneGone(p)

MCSpec == MCInit /\ [][MCNext]_<<bridgeVars, eventVars, feedVars, moving>>
=============================================================================
