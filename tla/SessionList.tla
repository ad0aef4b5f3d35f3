---------------------------- MODULE SessionList ----------------------------
(***************************************************************************)
(* The session list of browser-host-hub-rc1.  A page asks once for the     *)
(* sessions of every host.  A host that is slow is answered for by the     *)
(* list it gave last, while the request to it goes on; when its answer     *)
(* comes after all, the sessions in it are sent, as if they had just been  *)
(* added, to the event windows (the pages' $events streams) that are       *)
(* connected to that host, unless something newer is known of them.        *)
(* The frames of $events that carry an ask or its cancellation touch none  *)
(* of this state and are left out, as are all requests but one: each has   *)
(* refreshes and snapshots of its own.                                     *)
(***************************************************************************)
EXTENDS Integers, Sequences, FiniteSets, SequencesExt

CONSTANTS Hosts, Sessions,
          ListCallers,             \* calls of session/list
          Windows,             \* $events streams
          NoList, Pending,
          MaxRevision,         \* bounds, of a host: changes of a session
          MaxVersion,          \*   news of a session
          MaxGeneration        \*   connections of a window

Absent == -1
\* The value of a list: the revision of each session, if it is in it.
Lists == [Sessions -> Nat \cup {Absent}]

ASSUME ListAssumption ==
  /\ MaxRevision \in [Hosts -> Nat] /\ MaxVersion \in [Hosts -> Nat]
  /\ MaxGeneration \in [Hosts -> Nat \ {0}]
  /\ IsFiniteSet(Sessions)
  /\ NoList # Pending /\ {NoList, Pending} \cap Lists = {}

VARIABLES revision,            \* host: what a session is now
          alive,               \* host: its sessions
          sessionListRefreshes,
          sessionListSnapshots,
          sessionListSessionVersions,
          archivedSessionIds,
          listPhase, got,          \* of a call, and what it has of each host
          order,               \* the calls in the order they came
          known, listed,       \* hosts with a snapshot when it came; in its answer
          window, link, generation,
          wire,                \* frames between a host and the pump of a window
          queue,               \* the AsyncQueue of a window
          told                 \* the newest revision a window was told by an event

hostVars == <<revision, alive>>
callVars == <<listPhase, got, order, known, listed>>
windowVars == <<window, link, generation>>
vars == <<hostVars, sessionListRefreshes, sessionListSnapshots,
          sessionListSessionVersions, archivedSessionIds, callVars, windowVars,
          wire, queue, told>>

Refreshes == [at : {"none", "asked", "answered"}, list : Lists \cup {NoList},
              startVersions : [Sessions -> Nat], deferred : BOOLEAN,
              targets : SUBSET (Windows \X Nat)]
Frames == [type : {"ready", "event", "late"}, host : Hosts,
           session : Sessions \cup {NoList}, revision : Nat, generation : Nat]

TypeOK ==
  /\ revision \in [Hosts -> [Sessions -> Nat]]
  /\ alive \in [Hosts -> SUBSET Sessions]
  /\ sessionListRefreshes \in [Hosts -> Refreshes]
  /\ sessionListSnapshots \in [Hosts -> Lists \cup {NoList}]
  /\ sessionListSessionVersions \in [Hosts -> [Sessions -> Nat]]
  /\ archivedSessionIds \in [Hosts -> SUBSET Sessions]
  /\ listPhase \in [ListCallers -> {"idle", "waiting", "done"}]
  /\ got \in [ListCallers -> [Hosts -> Lists \cup {NoList, Pending}]]
  /\ order \in Seq(ListCallers)
  /\ known \in [ListCallers -> SUBSET Hosts] /\ listed \in [ListCallers -> SUBSET Hosts]
  /\ window \in [Windows -> {"new", "open", "gone"}]
  /\ link \in [Windows -> [Hosts -> {"down", "opening", "attached", "ready"}]]
  /\ generation \in [Windows -> [Hosts -> Nat]]
  /\ wire \in [Windows -> [Hosts -> Seq(Frames)]]
  /\ queue \in [Windows -> Seq(Frames)]
  /\ told \in [Windows -> [Hosts -> [Sessions -> Nat]]]

Zero == [s \in Sessions |-> 0]
NoRefresh == [at |-> "none", list |-> NoList, startVersions |-> Zero,
              deferred |-> FALSE, targets |-> {}]

Init ==
  /\ revision = [h \in Hosts |-> Zero]
  /\ alive \in [Hosts -> SUBSET Sessions]
  /\ sessionListRefreshes = [h \in Hosts |-> NoRefresh]
  /\ sessionListSnapshots = [h \in Hosts |-> NoList]
  /\ sessionListSessionVersions = [h \in Hosts |-> Zero]
  /\ archivedSessionIds = [h \in Hosts |-> {}]
  /\ listPhase = [c \in ListCallers |-> "idle"]
  /\ got = [c \in ListCallers |-> [h \in Hosts |-> Pending]]
  /\ order = <<>>
  /\ known = [c \in ListCallers |-> {}] /\ listed = [c \in ListCallers |-> {}]
  /\ window = [w \in Windows |-> "new"]
  /\ link = [w \in Windows |-> [h \in Hosts |-> "down"]]
  /\ generation = [w \in Windows |-> [h \in Hosts |-> 0]]
  /\ wire = [w \in Windows |-> [h \in Hosts |-> <<>>]]
  /\ queue = [w \in Windows |-> <<>>]
  /\ told = [w \in Windows |-> [h \in Hosts |-> Zero]]

-----------------------------------------------------------------------------
(* The hosts.                                                               *)

Frame(type, h, s, r, g) ==
  [type |-> type, host |-> h, session |-> s, revision |-> r, generation |-> g]

\* A session is added, changed (live) or removed, and the windows connected to
\* the host are sent an event.
Change(h, s, live) ==
  /\ revision[h][s] < MaxRevision[h] /\ (live \/ s \in alive[h])
  /\ revision' = [revision EXCEPT ![h][s] = @ + 1]
  /\ alive' = [alive EXCEPT ![h] = IF live THEN @ \cup {s} ELSE @ \ {s}]
  /\ wire' = [w \in Windows |->
       IF link[w][h] \in {"attached", "ready"}
       THEN [wire[w] EXCEPT ![h] = Append(@, Frame("event", h, s, revision'[h][s], 0))]
       ELSE wire[w]]
  /\ UNCHANGED <<sessionListRefreshes, sessionListSnapshots, sessionListSessionVersions,
                 archivedSessionIds, callVars, windowVars, queue, told>>

\* The host reads its list; the answer is on its way.
Compute(h) ==
  /\ sessionListRefreshes[h].at = "asked"
  /\ sessionListRefreshes' = [sessionListRefreshes EXCEPT
       ![h].at = "answered", ![h].list = [s \in Sessions |-> IF s \in alive[h] THEN revision[h][s] ELSE Absent]]
  /\ UNCHANGED <<hostVars, sessionListSnapshots, sessionListSessionVersions,
                 archivedSessionIds, callVars, windowVars, wire, queue, told>>

-----------------------------------------------------------------------------
(* What the hub knows of a session besides the lists.                       *)

Bumped(h, s) == [sessionListSessionVersions EXCEPT ![h][s] = @ + 1]

\* A control stream of some page passes a projection of the session.
RecordControlFrame(h, s) ==
  /\ sessionListSessionVersions[h][s] < MaxVersion[h]
  /\ sessionListSessionVersions' = Bumped(h, s)
  /\ UNCHANGED <<hostVars, sessionListRefreshes, sessionListSnapshots,
                 archivedSessionIds, callVars, windowVars, wire, queue, told>>

\* A workspace stream, or the answer to an archive call, names the archived.
RecordArchived(h, set) ==
  /\ set # archivedSessionIds[h]
  /\ archivedSessionIds' = [archivedSessionIds EXCEPT ![h] = set]
  /\ UNCHANGED <<hostVars, sessionListRefreshes, sessionListSnapshots,
                 sessionListSessionVersions, callVars, windowVars, wire, queue, told>>

-----------------------------------------------------------------------------
(* The calls.                                                               *)

\* The windows a refresh that starts now will tell.
CaptureTargets(h) ==
  {<<w, generation[w][h]>> : w \in {v \in Windows : window[v] = "open" /\ link[v][h] = "ready"}}

Started(h) == [at |-> "asked", list |-> NoList, deferred |-> FALSE,
               startVersions |-> sessionListSessionVersions[h],
               targets |-> CaptureTargets(h)]

\* Calls share the refresh of a host that is under way.
Call(c) ==
  /\ listPhase[c] = "idle"
  /\ listPhase' = [listPhase EXCEPT ![c] = "waiting"]
  /\ order' = Append(order, c)
  /\ known' = [known EXCEPT ![c] = {h \in Hosts : sessionListSnapshots[h] # NoList}]
  /\ sessionListRefreshes' = [h \in Hosts |->
       IF sessionListRefreshes[h].at = "none" THEN Started(h) ELSE sessionListRefreshes[h]]
  /\ UNCHANGED <<hostVars, sessionListSnapshots, sessionListSessionVersions,
                 archivedSessionIds, got, listed, windowVars, wire, queue, told>>

\* The hosts in an answer: fresh, or else by their snapshot.
Usable(results, snapshots) ==
  {h \in Hosts : results[h] # NoList \/ snapshots[h] # NoList}

\* Calls that now have something of every host answer, in the order they came,
\* and put what they got in the snapshots once more.
Settle(results, snapshots) ==
  LET over == {c \in ListCallers : listPhase[c] = "waiting" /\ \A h \in Hosts : results[c][h] # Pending}
      fresh(h) == {i \in 1..Len(order) : order[i] \in over /\ results[order[i]][h] # NoList}
  IN  /\ got' = results
      /\ listPhase' = [c \in ListCallers |-> IF c \in over THEN "done" ELSE listPhase[c]]
      /\ listed' = [c \in ListCallers |->
           IF c \in over THEN Usable(results[c], snapshots) ELSE listed[c]]
      /\ sessionListSnapshots' = [h \in Hosts |->
           IF fresh(h) = {} THEN snapshots[h] ELSE results[order[Max(fresh(h))]][h]]
      /\ UNCHANGED <<order, known>>

\* A late session is sent if no news of it came since the refresh started.
CanPublishLate(h, s) ==
  /\ sessionListSessionVersions[h][s] = sessionListRefreshes[h].startVersions[s]
  /\ s \notin archivedSessionIds[h]

LateFrames(h, g) ==
  LET list == sessionListRefreshes[h].list
      late == {s \in Sessions : list[s] # Absent /\ CanPublishLate(h, s)}
  IN  SetToSeq({Frame("late", h, s, list[s], g) : s \in late})

\* A window gets the late sessions if the connection it was a target by lives.
Published(h, w) ==
  IF /\ window[w] = "open" /\ link[w][h] = "ready"
     /\ <<w, generation[w][h]>> \in sessionListRefreshes[h].targets
  THEN queue[w] \o LateFrames(h, generation[w][h])
  ELSE queue[w]

\* The answer of a host arrives, or the request fails or is given up.
Reply(h, ok) ==
  LET refresh == sessionListRefreshes[h]
      list == IF ok THEN refresh.list ELSE NoList
  IN  /\ refresh.at # "none" /\ (ok => refresh.at = "answered")
      /\ sessionListRefreshes' = [sessionListRefreshes EXCEPT ![h] = NoRefresh]
      /\ queue' = IF ok /\ refresh.deferred
                  THEN [w \in Windows |-> Published(h, w)] ELSE queue
      /\ Settle([c \in ListCallers |-> IF listPhase[c] = "waiting" /\ got[c][h] = Pending
                                   THEN [got[c] EXCEPT ![h] = list] ELSE got[c]],
                IF ok THEN [sessionListSnapshots EXCEPT ![h] = list] ELSE sessionListSnapshots)
      /\ UNCHANGED <<hostVars, sessionListSessionVersions, archivedSessionIds, windowVars,
                     wire, told>>

\* A call does not wait for a host any longer; the answer will be late.  The
\* timers are of one length, so the older call's fires first.
HostTimeout(c, h) ==
  /\ listPhase[c] = "waiting" /\ got[c][h] = Pending
  /\ \A i, j \in 1..Len(order) : i < j /\ order[j] = c =>
       listPhase[order[i]] = "done" \/ got[order[i]][h] # Pending
  /\ sessionListRefreshes' = [sessionListRefreshes EXCEPT ![h].deferred = TRUE]
  /\ Settle([got EXCEPT ![c][h] = NoList], sessionListSnapshots)
  /\ UNCHANGED <<hostVars, sessionListSessionVersions, archivedSessionIds, windowVars,
                 wire, queue, told>>

\* The page gives up the call; the refreshes go on.
Abort(c) ==
  /\ listPhase[c] = "waiting"
  /\ Settle([got EXCEPT ![c] = [h \in Hosts |-> IF @[h] = Pending THEN NoList ELSE @[h]]],
            sessionListSnapshots)
  /\ UNCHANGED <<hostVars, sessionListRefreshes, sessionListSessionVersions,
                 archivedSessionIds, windowVars, wire, queue, told>>

-----------------------------------------------------------------------------
(* The event windows.                                                       *)

\* A window opens: a pump per host connects.
OpenWindow(w) ==
  /\ window[w] = "new"
  /\ window' = [window EXCEPT ![w] = "open"]
  /\ link' = [link EXCEPT ![w] = [h \in Hosts |-> "opening"]]
  /\ generation' = [generation EXCEPT ![w] = [h \in Hosts |-> 1]]
  /\ UNCHANGED <<hostVars, sessionListRefreshes, sessionListSnapshots,
                 sessionListSessionVersions, archivedSessionIds, callVars, wire, queue, told>>

\* The page is gone.
CloseWindow(w) ==
  /\ window[w] = "open"
  /\ window' = [window EXCEPT ![w] = "gone"]
  /\ link' = [link EXCEPT ![w] = [h \in Hosts |-> "down"]]
  /\ wire' = [wire EXCEPT ![w] = [h \in Hosts |-> <<>>]]
  /\ queue' = [queue EXCEPT ![w] = <<>>]
  /\ UNCHANGED <<hostVars, sessionListRefreshes, sessionListSnapshots, generation,
                 sessionListSessionVersions, archivedSessionIds, callVars, told>>

\* The host takes the connection and sends its ready frame.
Attach(w, h) ==
  /\ link[w][h] = "opening"
  /\ link' = [link EXCEPT ![w][h] = "attached"]
  /\ wire' = [wire EXCEPT ![w][h] = <<Frame("ready", h, NoList, 0, 0)>>]
  /\ UNCHANGED <<hostVars, sessionListRefreshes, sessionListSnapshots, window, generation,
                 sessionListSessionVersions, archivedSessionIds, callVars, queue, told>>

\* The connection cannot be made or breaks, with what is on it.
LinkEnds(w, h) ==
  /\ link[w][h] # "down"
  /\ link' = [link EXCEPT ![w][h] = "down"]
  /\ wire' = [wire EXCEPT ![w][h] = <<>>]
  /\ UNCHANGED <<hostVars, sessionListRefreshes, sessionListSnapshots, window, generation,
                 sessionListSessionVersions, archivedSessionIds, callVars, queue, told>>

\* After a pause the pump connects again, as a new generation.
Reconnect(w, h) ==
  /\ window[w] = "open" /\ link[w][h] = "down" /\ generation[w][h] < MaxGeneration[h]
  /\ link' = [link EXCEPT ![w][h] = "opening"]
  /\ generation' = [generation EXCEPT ![w][h] = @ + 1]
  /\ UNCHANGED <<hostVars, sessionListRefreshes, sessionListSnapshots, window, wire,
                 sessionListSessionVersions, archivedSessionIds, callVars, queue, told>>

\* Variant, not the code: a window that connects meanwhile is not a target.
NotRegistered(w, h) == sessionListRefreshes

\* Variant, not the code: a new target starts from what is known now.
RegisteredNow(w, h) ==
  IF sessionListRefreshes[h].at = "none" THEN sessionListRefreshes
  ELSE [sessionListRefreshes EXCEPT ![h].targets = @ \cup {<<w, generation[w][h]>>},
                                    ![h].startVersions = sessionListSessionVersions[h]]

\* A window that is ready becomes a target of the refresh under way, from the
\* versions that refresh started with.
RegisterTargets(w, h) ==
  IF sessionListRefreshes[h].at = "none" THEN sessionListRefreshes
  ELSE [sessionListRefreshes EXCEPT ![h].targets = @ \cup {<<w, generation[w][h]>>}]

ReceiveReady(w, h) ==
  /\ wire[w][h] # <<>> /\ Head(wire[w][h]).type = "ready"
  /\ wire' = [wire EXCEPT ![w][h] = Tail(@)]
  /\ link' = [link EXCEPT ![w][h] = "ready"]
  /\ sessionListRefreshes' = RegisterTargets(w, h)
  /\ queue' = [queue EXCEPT ![w] = Append(@, Head(wire[w][h]))]
  /\ UNCHANGED <<hostVars, sessionListSnapshots, sessionListSessionVersions,
                 archivedSessionIds, callVars, window, generation, told>>

ReceiveEvent(w, h) ==
  /\ wire[w][h] # <<>> /\ Head(wire[w][h]).type = "event"
  /\ wire' = [wire EXCEPT ![w][h] = Tail(@)]
  /\ sessionListSessionVersions' = Bumped(h, Head(wire[w][h]).session)
  /\ queue' = [queue EXCEPT ![w] = Append(@, Head(wire[w][h]))]
  /\ UNCHANGED <<hostVars, sessionListRefreshes, sessionListSnapshots,
                 archivedSessionIds, callVars, windowVars, told>>

\* The page takes the next frame; a late one of a connection that is over is
\* dropped on the way.
Deliver(w) ==
  /\ queue[w] # <<>>
  /\ queue' = [queue EXCEPT ![w] = Tail(@)]
  /\ LET frame == Head(queue[w])
     IN  told' = IF frame.type = "event"
                 THEN [told EXCEPT ![w][frame.host][frame.session] = frame.revision]
                 ELSE told
  /\ UNCHANGED <<hostVars, sessionListRefreshes, sessionListSnapshots,
                 sessionListSessionVersions, archivedSessionIds, callVars, windowVars, wire>>

Next ==
  \/ \E h \in Hosts :
       \/ \E s \in Sessions, live \in BOOLEAN : Change(h, s, live)
       \/ Compute(h)
       \/ \E ok \in BOOLEAN : Reply(h, ok)
       \/ \E s \in Sessions : RecordControlFrame(h, s)
       \/ \E set \in SUBSET Sessions : RecordArchived(h, set)
  \/ \E c \in ListCallers : Call(c) \/ Abort(c) \/ \E h \in Hosts : HostTimeout(c, h)
  \/ \E w \in Windows :
       \/ OpenWindow(w) \/ CloseWindow(w) \/ Deliver(w)
       \/ \E h \in Hosts : \/ Attach(w, h) \/ LinkEnds(w, h) \/ Reconnect(w, h)
                           \/ ReceiveReady(w, h) \/ ReceiveEvent(w, h)

Spec == Init /\ [][Next]_vars

-----------------------------------------------------------------------------
(* What makes it correct.                                                   *)

\* A late session, wherever it stands in the queue of a window, is not older
\* than what an event has told, or will have told, the window before.
LateNotStale ==
  \A w \in Windows : \A i \in 1..Len(queue[w]) :
    LET late == queue[w][i] IN
    late.type = "late" =>
      /\ told[w][late.host][late.session] <= late.revision
      /\ \A j \in 1..(i - 1) :
           queue[w][j].type = "event" /\ queue[w][j].host = late.host
             /\ queue[w][j].session = late.session => queue[w][j].revision <= late.revision

\* A late answer reaches every window that is connected to the host when it
\* comes, whenever the window connected: each session the hub heard nothing of
\* since the request, and which is not archived, is queued for it.
LateReachesAll ==
  [][\A h \in Hosts : sessionListRefreshes[h].deferred /\ Reply(h, TRUE) =>
       \A w \in Windows, s \in Sessions :
         /\ link[w][h] = "ready" /\ s \notin archivedSessionIds[h]
         /\ sessionListRefreshes[h].list[s] # Absent
         /\ sessionListSessionVersions[h][s] = sessionListRefreshes[h].startVersions[s]
         => Frame("late", h, s, sessionListRefreshes[h].list[s], generation[w][h])
              \in {queue'[w][i] : i \in 1..Len(queue'[w])}]_vars

\* A host that has once given its list is in every answer from then on.
KnownHostsListed ==
  \A c \in ListCallers : listPhase[c] = "done" => known[c] \subseteq listed[c]

\* No list takes a session back and none forgets a host.
ListSound == TypeOK /\ LateNotStale /\ KnownHostsListed
=============================================================================
