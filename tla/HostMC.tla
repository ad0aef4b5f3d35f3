-------------------------------- MODULE HostMC --------------------------------
(* What the browser hub has a host do, and what the host keeps: the list of its      *)
(* sessions with the events that go with it, the restart of its runtime, the files   *)
(* of its sessions, and the carriers that lead to it.  They share no state: a        *)
(* behaviour moves one of them.                                                      *)
EXTENDS SessionList, RuntimeRestart, SessionPersistence, HostCarriers

VARIABLE moving

MCMaxRevision == [h \in Hosts |-> 1]
MCMaxVersion == [h \in Hosts |-> 1]
MCMaxGeneration == [h \in Hosts |-> 2]

\* What does not move has one initial state.
MCInit ==
  /\ moving \in {"list", "restart", "sessions", "carriers"}
  /\ Init /\ RestartInit /\ PersInit /\ CarriersInit
  /\ moving # "list" => \A h \in Hosts : alive[h] = {}
  /\ moving # "restart" => tracked
  /\ moving # "sessions" => contract = "current"
  /\ moving # "carriers" => live = "off"

InList == moving = "list" /\ UNCHANGED <<restartVars, persVars, carrierVars, moving>>
InRestart == moving = "restart" /\ UNCHANGED <<vars, persVars, carrierVars, moving>>
InSessions == moving = "sessions" /\ UNCHANGED <<vars, restartVars, carrierVars, moving>>
InCarriers == moving = "carriers" /\ UNCHANGED <<vars, restartVars, persVars, moving>>

MCNext ==
  \/ \E h \in Hosts :
       \/ InList /\ Compute(h)
       \/ \E s \in Sessions, on \in BOOLEAN : InList /\ Change(h, s, on)
       \/ \E ok \in BOOLEAN : InList /\ Reply(h, ok)
       \/ \E s \in Sessions : InList /\ RecordControlFrame(h, s)
       \/ \E set \in SUBSET Sessions : InList /\ RecordArchived(h, set)
  \/ \E c \in ListCallers :
       \/ InList /\ Call(c)
       \/ InList /\ Abort(c)
       \/ \E h \in Hosts : InList /\ HostTimeout(c, h)
  \/ \E w \in Windows :
       \/ InList /\ OpenWindow(w)
       \/ InList /\ CloseWindow(w)
       \/ InList /\ Deliver(w)
       \/ \E h \in Hosts :
            \/ InList /\ Attach(w, h)
            \/ InList /\ LinkEnds(w, h)
            \/ InList /\ Reconnect(w, h)
            \/ InList /\ ReceiveReady(w, h)
            \/ InList /\ ReceiveEvent(w, h)
  \/ \E c \in Callers :
       \/ InRestart /\ Arrive(c)
       \/ InRestart /\ Begin(c)
       \/ InRestart /\ BeginFails(c)
       \/ InRestart /\ Share(c)
       \/ InRestart /\ Finish(c)
       \/ InRestart /\ Close(c)
  \/ \E r \in Runs :
       \/ InRestart /\ Prepare(r)
       \/ InRestart /\ Disconnect(r)
       \/ InRestart /\ ReadyTimeout(r)
       \/ InRestart /\ ParentReads(r)
       \/ InRestart /\ Timer(r)
       \/ InRestart /\ BrokerReads(r)
       \/ InRestart /\ Tick(r)
       \/ InRestart /\ Launch(r)
       \/ InRestart /\ BrokerDies(r)
  \/ InRestart /\ ProcessExits
  \/ InRestart /\ NumberReused
  \/ \E id \in Stored :
       \/ \E kind \in {"create", "append"}, size \in {0, 2} : InSessions /\ enqueueWrite(id, kind, size)
       \/ \E from \in 0..Len(stored[id]) : InSessions /\ Read(id, from)
  \/ \E w \in 1..MaxWrites :
       \/ InSessions /\ BeginWrite(w)
       \/ InSessions /\ Opens(w)
       \/ InSessions /\ OpenRefused(w)
       \/ InSessions /\ CreateUnsure(w)
       \/ InSessions /\ Appends(w)
       \/ InSessions /\ AppendFails(w)
       \/ InSessions /\ Closes(w)
  \/ InSessions /\ ReadsChunk
  \/ InSessions /\ ReadCloses
  \/ InSessions /\ ReadFails
  \/ \E k \in Calls :
       \/ \E l \in 1..attached : InCarriers /\ CallStarts(k, l)
       \/ InCarriers /\ CallAborts(k)
       \/ InCarriers /\ CallEnds(k)
       \/ InCarriers /\ CallLosesTunnel(k)
  \/ \E l \in 1..attached : InCarriers /\ DialSucceeds(l)
  \/ \E l \in 1..attached : InCarriers /\ DialFails(l)
  \/ \E t \in 1..dials : InCarriers /\ TunnelEnds(t)
  \/ \E setting \in {"on", "off", "absent"} : InCarriers /\ Hydrate(setting)
  \/ InCarriers /\ DisconnectHost
  \/ InCarriers /\ Retry
  \/ InCarriers /\ RestartBegins
  \/ InCarriers /\ RestartSucceeds
  \/ InCarriers /\ RestartFails
  \/ InCarriers /\ PluginEnds

\* No timer is armed in a part that does not move.
MCSpec == MCInit /\ [][MCNext]_<<vars, restartVars, persVars, carrierVars, moving>> /\ RestartFairness
=============================================================================
