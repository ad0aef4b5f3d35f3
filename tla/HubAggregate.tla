---------------------------- MODULE HubAggregate ----------------------------
(***************************************************************************)
(* The aggregate streams of the browser hub (workspace/follow and          *)
(* session/control): one pump per host that reopens its stream for ever,   *)
(* one queue, a baseline that does not wait for a slow host, and the       *)
(* increments by which a host that reconnects joins a page that already    *)
(* has its only baseline.                                                  *)
(***************************************************************************)
EXTENDS Integers, Sequences, SequencesExt

CONSTANTS AggHosts, Ids,                \* raw identities: two hosts may use the same
          MaxChanges, MaxConnects,   \* bounds, over all hosts
          MaxPages                   \* bound: streams a page opens

ASSUME AggregateAssumption == {MaxChanges, MaxConnects, MaxPages} \subseteq Nat

VARIABLES
  endpoint,          \* which of the two streams this is
  value, changes,    \* what a host holds, and how often one changed
  linked, aggConnects,  \* the pump has an open stream to the host
  packets,           \* the AsyncQueue
  arrived,           \* hosts in the order of their first baseline
  baselineByHost,    \* and what is known of them
  initial,           \* the page has its baseline
  page, pages        \* what the page holds, which stream it reads

aggVars == <<endpoint, value, changes, linked, aggConnects, packets, arrived,
             baselineByHost, initial, page, pages>>

PageEnded == [ended |-> TRUE]
Rows == {"queues", "jobs", "projections"}   \* the tables of session/control
NothingHeld(names) == [items |-> <<>>, archived |-> {},
                tables |-> [t \in Rows |-> [n \in names |-> 0]]]
SomethingHeld(e) ==
  IF e = "workspace"
  THEN [NothingHeld(Ids) EXCEPT !.items = LET ids == SetToSeq(Ids) IN
          [i \in DOMAIN ids |-> [id |-> ids[i], rev |-> 1]]]
  ELSE [NothingHeld(Ids) EXCEPT !.tables = [t \in Rows |-> [id \in Ids |-> 1]]]
CompositeNames == AggHosts \X Ids

-----------------------------------------------------------------------------
(* Identities. *)

CompositeId(h, id) == <<h, id>>

\* A value of a host, as the page names what is in it.
MapValue(h, v) ==
  [items |-> [i \in 1..Len(v.items) |-> [v.items[i] EXCEPT !.id = CompositeId(h, @)]],
   archived |-> {CompositeId(h, id) : id \in v.archived},
   tables |-> [t \in Rows |-> [n \in CompositeNames |->
     IF n = CompositeId(h, n[2]) THEN v.tables[t][n[2]] ELSE 0]]]

MapFrame(h, frame) ==
  CASE frame.type = "baseline" -> [frame EXCEPT !.value = MapValue(h, @)]
    [] frame.type = "upsert"   -> [frame EXCEPT !.workspace.id = CompositeId(h, @)]
    [] frame.type = "remove"   -> [frame EXCEPT !.id = CompositeId(h, @)]
    [] frame.type = "order"    -> [frame EXCEPT !.ids = [i \in DOMAIN @ |-> CompositeId(h, @[i])]]
    [] frame.type = "archived" -> [frame EXCEPT !.archived = {CompositeId(h, id) : id \in @}]
    [] OTHER                   -> [frame EXCEPT !.id = CompositeId(h, @)]

-----------------------------------------------------------------------------
(* Values and increments. *)

IdsOf(items) == {items[i].id : i \in 1..Len(items)}

Upserted(items, workspace) ==
  IF workspace.id \in IdsOf(items)
  THEN [i \in DOMAIN items |-> IF items[i].id = workspace.id THEN workspace ELSE items[i]]
  ELSE Append(items, workspace)

Ordered(items, ids) ==
  FlattenSeq([i \in 1..Len(ids) |-> SelectSeq(items, LAMBDA x : x.id = ids[i])])
    \o SelectSeq(items, LAMBDA x : x.id \notin ToSet(ids))

\* applyAggregateIncrement; the official reader of the page does the same.
Applied(v, frame) ==
  CASE frame.type = "baseline" -> frame.value
    [] frame.type = "upsert"   -> [v EXCEPT !.items = Upserted(@, frame.workspace)]
    [] frame.type = "remove"   -> [v EXCEPT !.items = SelectSeq(@, LAMBDA x : x.id # frame.id)]
    [] frame.type = "order"    -> [v EXCEPT !.items = Ordered(@, frame.ids)]
    [] frame.type = "archived" -> [v EXCEPT !.archived = frame.archived]
    [] OTHER                   -> [v EXCEPT !.tables[frame.type][frame.id] = frame.rows]

MergedWorkspaces(a, b) ==
  [a EXCEPT !.items = @ \o SelectSeq(b.items, LAMBDA x : x.id \notin IdsOf(@)),
            !.archived = @ \cup b.archived]

MergedControls(a, b) ==
  [a EXCEPT !.tables = [t \in Rows |-> [n \in CompositeNames |->
     IF b.tables[t][n] # 0 THEN b.tables[t][n] ELSE @[t][n]]]]

MergedPair(a, b) == IF endpoint = "workspace" THEN MergedWorkspaces(a, b) ELSE MergedControls(a, b)

\* merge, in the order of the map.
Merged(order, known) ==
  FoldLeft(MergedPair, NothingHeld(CompositeNames), [i \in 1..Len(order) |-> known[order[i]]])

TableFrame(type, id, rows) == [type |-> type, id |-> id, rows |-> rows]
Upsert(item) == [type |-> "upsert", workspace |-> item]

\* Variant, not the code: what is gone stays with the page.
UpsertsOnly(previous, next, combined) ==
  [i \in DOMAIN next.items |-> Upsert(next.items[i])]
    \o <<[type |-> "order", ids |-> [i \in DOMAIN combined.items |-> combined.items[i].id]],
         [type |-> "archived", archived |-> combined.archived]>>

\* replacementIncrements, of workspace/follow ...
WorkspaceUpdates(previous, next, combined) ==
  LET gone == SelectSeq(previous.items, LAMBDA x : x.id \notin IdsOf(next.items)) IN
  [i \in DOMAIN gone |-> [type |-> "remove", id |-> gone[i].id]]
    \o [i \in DOMAIN next.items |-> Upsert(next.items[i])]
    \o <<[type |-> "order", ids |-> [i \in DOMAIN combined.items |-> combined.items[i].id]],
         [type |-> "archived", archived |-> combined.archived]>>

\* ... and of session/control: a projection that is gone cannot be told.
Untold(previous, next) ==
  \E n \in CompositeNames : previous.tables["projections"][n] # 0 /\ next.tables["projections"][n] = 0

\* Its other increments set a row each, of what was or is there.
ControlUpdated(v, previous, next) ==
  [v EXCEPT !.tables = [t \in Rows |-> [n \in CompositeNames |->
     IF previous.tables[t][n] + next.tables[t][n] = 0 THEN @[t][n] ELSE next.tables[t][n]]]]

-----------------------------------------------------------------------------
(* Hosts and their pumps. *)

\* What a host may tell: its value changes by it.
HostFrames(h) ==
  LET v == value[h] rev == changes + 2 IN
  IF endpoint = "workspace"
  THEN {Upsert([id |-> id, rev |-> rev]) : id \in Ids}
         \cup {[type |-> "remove", id |-> id] : id \in IdsOf(v.items)}
         \cup {[type |-> "order", ids |-> Reverse([i \in DOMAIN v.items |-> v.items[i].id])]}
         \cup {[type |-> "archived", archived |-> Ids \ v.archived]}
  ELSE {TableFrame(t, id, rev) : t \in Rows, id \in Ids}
         \cup {TableFrame(t, id, 0) : t \in Rows \ {"projections"}, id \in Ids}

ChangeHost(h) ==
  /\ changes < MaxChanges
  /\ changes' = changes + 1
  /\ \E frame \in HostFrames(h) :
       /\ value' = [value EXCEPT ![h] = Applied(@, frame)]
       /\ packets' = IF linked[h] THEN Append(packets, [host |-> h, frame |-> MapFrame(h, frame)])
                     ELSE packets
  /\ UNCHANGED <<endpoint, linked, aggConnects, arrived, baselineByHost, initial, page, pages>>

\* The host starts anew: nothing is left of what it held.
RestartHost(h) ==
  /\ ~linked[h] /\ changes < MaxChanges
  /\ value' = [value EXCEPT ![h] = NothingHeld(Ids)]
  /\ changes' = changes + 1
  /\ UNCHANGED <<endpoint, linked, aggConnects, packets, arrived, baselineByHost, initial, page, pages>>

\* #pumpHost: a generation begins with a baseline, else it is given up and tried again.
ConnectHost(h) ==
  /\ ~linked[h] /\ aggConnects < MaxConnects /\ page # PageEnded
  /\ linked' = [linked EXCEPT ![h] = TRUE]
  /\ aggConnects' = aggConnects + 1
  /\ packets' = Append(packets, [host |-> h,
                  frame |-> MapFrame(h, [type |-> "baseline", value |-> value[h]])])
  /\ UNCHANGED <<endpoint, value, changes, arrived, baselineByHost, initial, page, pages>>

\* What the generation pushed stays in the queue.
BreakHost(h) ==
  /\ linked[h]
  /\ linked' = [linked EXCEPT ![h] = FALSE]
  /\ UNCHANGED <<endpoint, value, changes, aggConnects, packets, arrived, baselineByHost, initial, page, pages>>

-----------------------------------------------------------------------------
(* #aggregateBaselineStream. *)

KnownOf(h) == IF h \in ToSet(arrived) THEN baselineByHost[h] ELSE NothingHeld(CompositeNames)

\* The page takes what is yielded for one packet.
Yield(frames) == page' = FoldLeft(Applied, page, frames)

HeadPacket == Head(packets)

StorePacket ==
  /\ arrived' = IF HeadPacket.host \in ToSet(arrived) THEN arrived ELSE Append(arrived, HeadPacket.host)
  /\ baselineByHost' = [baselineByHost EXCEPT ![HeadPacket.host] = Applied(KnownOf(HeadPacket.host), HeadPacket.frame)]

FirstBaseline ==
  /\ initial' = TRUE
  /\ Yield(<<[type |-> "baseline", value |-> Merged(arrived', baselineByHost')]>>)

AllThere == Len(arrived') = Len(SetToSeq(AggHosts))

PassedOn(frame) ==
  CASE frame.type = "order" ->
         [frame EXCEPT !.ids = LET m == Merged(arrived', baselineByHost') IN [i \in DOMAIN m.items |-> m.items[i].id]]
    [] frame.type = "archived" -> [frame EXCEPT !.archived = Merged(arrived', baselineByHost').archived]
    [] OTHER -> frame

TakePacket ==
  /\ packets # <<>> /\ page # PageEnded
  /\ StorePacket
  /\ LET h == HeadPacket.host next == baselineByHost'[h] IN
     \/ /\ ~initial
        /\ IF AllThere THEN FirstBaseline ELSE UNCHANGED <<initial, page>>
        /\ packets' = Tail(packets) /\ UNCHANGED <<linked, pages>>
     \/ /\ initial /\ HeadPacket.frame.type # "baseline"
        /\ Yield(<<PassedOn(HeadPacket.frame)>>)
        /\ packets' = Tail(packets) /\ UNCHANGED <<initial, linked, pages>>
     \/ /\ initial /\ HeadPacket.frame.type = "baseline" /\ endpoint = "workspace"
        /\ Yield(WorkspaceUpdates(KnownOf(h), next, Merged(arrived', baselineByHost')))
        /\ packets' = Tail(packets) /\ UNCHANGED <<initial, linked, pages>>
     \/ /\ initial /\ HeadPacket.frame.type = "baseline" /\ endpoint = "control"
        /\ IF Untold(KnownOf(h), next)
           THEN /\ page' = PageEnded
                /\ packets' = <<>> /\ linked' = [g \in AggHosts |-> FALSE]
                /\ UNCHANGED <<initial, pages>>
           ELSE /\ page' = ControlUpdated(page, KnownOf(h), next)
                /\ packets' = Tail(packets) /\ UNCHANGED <<initial, linked, pages>>
  /\ UNCHANGED <<endpoint, value, changes, aggConnects>>

\* Variant, not the code: the time runs only while every host is connected.
DueWhenLinked ==
  ~initial /\ packets = <<>> /\ arrived # <<>> /\ page # PageEnded /\ \A h \in AggHosts : linked[h]
Due == ~initial /\ packets = <<>> /\ arrived # <<>> /\ page # PageEnded

\* The time for the first baseline is over: those who are there make it.
BaselineDeadline ==
  /\ Due
  /\ UNCHANGED arrived
  /\ UNCHANGED baselineByHost
  /\ FirstBaseline
  /\ UNCHANGED <<endpoint, value, changes, linked, aggConnects, packets, pages>>

\* The page's reader opens the stream again.
ReopenAggregate ==
  /\ page = PageEnded /\ pages < MaxPages
  /\ pages' = pages + 1 /\ page' = NothingHeld(CompositeNames) /\ initial' = FALSE
  /\ arrived' = <<>> /\ baselineByHost' = [h \in AggHosts |-> NothingHeld(CompositeNames)]
  /\ UNCHANGED <<endpoint, value, changes, linked, aggConnects, packets>>

-----------------------------------------------------------------------------
AggInit ==
  /\ endpoint \in {"workspace", "control"}
  /\ value \in [AggHosts -> {NothingHeld(Ids), SomethingHeld(endpoint)}] /\ changes = 0
  /\ linked = [h \in AggHosts |-> FALSE] /\ aggConnects = 0
  /\ packets = <<>> /\ arrived = <<>> /\ baselineByHost = [h \in AggHosts |-> NothingHeld(CompositeNames)]
  /\ initial = FALSE /\ page = NothingHeld(CompositeNames) /\ pages = 1

AggNext ==
  \/ \E h \in AggHosts : ChangeHost(h) \/ RestartHost(h) \/ ConnectHost(h) \/ BreakHost(h)
  \/ TakePacket \/ BaselineDeadline \/ ReopenAggregate

AggSpec == AggInit /\ [][AggNext]_aggVars /\ WF_aggVars(TakePacket) /\ WF_aggVars(BaselineDeadline)

-----------------------------------------------------------------------------
(* What makes it correct. *)

OfHost(h, items) == SelectSeq(items, LAMBDA x : x.id[1] = h)

\* A page that has its baseline shows of every host that has answered exactly what
\* the hub knows of it, in the host's order, and nothing else.
PageAgrees ==
  initial /\ page # PageEnded =>
    \A h \in AggHosts :
      LET known == KnownOf(h) IN
      /\ OfHost(h, page.items) = known.items
      /\ {id \in page.archived : id[1] = h} = known.archived
      /\ \A t \in Rows, id \in Ids : page.tables[t][<<h, id>>] = known.tables[t][<<h, id>>]

\* What the hub knows of a connected host is what the host holds, once the packets
\* of the host are taken, over all breaks and reconnects.
HostAgrees ==
  \A h \in AggHosts :
    linked[h] /\ page # PageEnded /\ (\A i \in 1..Len(packets) : packets[i].host # h)
      => KnownOf(h) = MapValue(h, value[h])

AggregateAgrees == PageAgrees /\ HostAgrees

\* A host that does not answer does not keep the page without a baseline: one that
\* has answered is enough.
SlowHostIgnored == arrived # <<>> ~> (initial \/ page = PageEnded)
=============================================================================
