---------------------------- MODULE HostCarriers ----------------------------
(***************************************************************************)
(* The carriers of one remote host: lazy ones that share a dial among the  *)
(* calls that wait, the ssh tunnel under each, and the control that stops  *)
(* and replaces a carrier while calls still hold the old one.  Hosts share *)
(* nothing but the loop over them in hydrate.                              *)
(***************************************************************************)
EXTENDS Integers

CONSTANTS Calls,
          MaxAttached, MaxDials      \* bounds: carriers, tunnels

ASSUME CarriersAssumption == MaxAttached \in Nat \ {0} /\ MaxDials \in Nat

VARIABLES
  live,            \* what the configuration says of the host: on, off, absent
  lazies, attached, \* the lazy carriers there were, and how many
  carrier,         \* the one in perHost, 0 for none
  tunnels, dials,  \* the ssh child of every dial, and how many there were
  call,            \* what each caller does: stage, carrier and tunnel
  restarting,      \* the target of a restart under way, as it was when that began
  lifetime         \* of the plugin: running, over

carrierVars == <<live, lazies, attached, carrier, tunnels, dials, call, restarting, lifetime>>
control == <<lazies, attached, carrier, tunnels, dials>>

Lazy == [phase |-> "offline", disposed |-> lifetime = "over", pending |-> 0, current |-> 0]
NoCall == [stage |-> "idle", on |-> 0, tunnel |-> 0]

-----------------------------------------------------------------------------
(* The lazy carrier. *)

\* close() of a tunnel: kill, unless it has ended.
Closed(all, t) == IF t # 0 /\ all[t] = "up" THEN [all EXCEPT ![t] = "killed"] ELSE all

\* drop: a tunnel that is not the current one is closed all the same.
Drop(l, t) ==
  /\ lazies' = IF lazies[l].current = t
               THEN [lazies EXCEPT ![l].current = 0, ![l].phase = "offline"] ELSE lazies
  /\ tunnels' = Closed(tunnels, t)

Dialled(all, l) == [all EXCEPT ![l].pending = dials + 1, ![l].phase = "connecting"]
MayDial(all, l) == ~all[l].disposed /\ all[l].current = 0 /\ all[l].pending = 0

\* What a caller of get() does next.
Got(z) == IF z.current # 0 THEN "running" ELSE "waiting"
Dial(l) == /\ dials < MaxDials /\ dials' = dials + 1
           /\ tunnels' = [tunnels EXCEPT ![dials + 1] = "up"]
           /\ lazies' = Dialled(lazies, l)

\* raw, call and open, on the carrier the caller has found, which may be an old one.
CallStarts(c, l) ==
  /\ call[c].stage = "idle" /\ ~lazies[l].disposed
  /\ IF MayDial(lazies, l) THEN Dial(l) ELSE UNCHANGED <<lazies, tunnels, dials>>
  /\ call' = [call EXCEPT ![c] = [stage |-> Got(lazies[l]), on |-> l, tunnel |-> lazies[l].current]]
  /\ UNCHANGED <<live, attached, carrier, restarting, lifetime>>

\* The signal of a caller: it stops waiting, the dial goes on.
CallAborts(c) ==
  /\ call[c].stage \in {"waiting", "running"}
  /\ call' = [call EXCEPT ![c] = NoCall]
  /\ UNCHANGED <<live, control, restarting, lifetime>>

\* The operation ends, well or with an error of its own, which leaves the tunnel alone.
CallEnds(c) ==
  /\ call[c].stage = "running"
  /\ call' = [call EXCEPT ![c] = NoCall]
  /\ UNCHANGED <<live, control, restarting, lifetime>>

\* 401, disconnected, or the stream ended: the tunnel the caller had is dropped.
CallLosesTunnel(c) ==
  /\ call[c].stage = "running"
  /\ Drop(call[c].on, call[c].tunnel)
  /\ call' = [call EXCEPT ![c] = NoCall]
  /\ UNCHANGED <<live, attached, carrier, dials, restarting, lifetime>>

Resumed(l, stage, t) ==
  [c \in Calls |-> IF call[c].stage = "waiting" /\ call[c].on = l
                   THEN [stage |-> stage, on |-> IF t = 0 THEN 0 ELSE l, tunnel |-> t] ELSE call[c]]

\* connect succeeds for a carrier that is still wanted.
DialSucceeds(l) ==
  /\ lazies[l].pending # 0 /\ ~lazies[l].disposed /\ tunnels[lazies[l].pending] = "up"
  /\ lazies' = [lazies EXCEPT ![l].current = lazies[l].pending, ![l].pending = 0, ![l].phase = "connected"]
  /\ call' = Resumed(l, "running", lazies[l].pending)
  /\ UNCHANGED <<live, attached, carrier, tunnels, dials, restarting, lifetime>>

\* It fails, in any of its stages, or succeeds for a carrier that was closed meanwhile.
DialFails(l) ==
  /\ lazies[l].pending # 0
  /\ lazies' = [lazies EXCEPT ![l].pending = 0, ![l].phase = "offline"]
  /\ tunnels' = Closed(tunnels, lazies[l].pending)
  /\ call' = Resumed(l, "idle", 0)
  /\ UNCHANGED <<live, attached, carrier, dials, restarting, lifetime>>

\* The ssh child ends; `closed' tells the carrier whose current tunnel it is.
TunnelEnds(t) ==
  /\ tunnels[t] \in {"up", "killed"}
  /\ tunnels' = [tunnels EXCEPT ![t] = "gone"]
  /\ lazies' = [l \in DOMAIN lazies |->
                  IF lazies[l].current = t THEN [lazies[l] EXCEPT !.current = 0, !.phase = "offline"]
                  ELSE lazies[l]]
  /\ UNCHANGED <<live, attached, carrier, dials, call, restarting, lifetime>>

-----------------------------------------------------------------------------
(* The control. *)

\* close() of a carrier; its signal ends the dial too.
Disposed(z) ==
  [phase |-> "offline", disposed |-> TRUE, pending |-> z.pending, current |-> 0]

\* stop, as new values of the carriers and the tunnels.
StoppedLazies == IF carrier = 0 THEN lazies ELSE [lazies EXCEPT ![carrier] = Disposed(@)]
StoppedTunnels ==
  IF carrier = 0 THEN tunnels
  ELSE Closed(Closed(tunnels, lazies[carrier].current), lazies[carrier].pending)

Stop ==
  /\ lazies' = StoppedLazies /\ tunnels' = StoppedTunnels /\ carrier' = 0
  /\ UNCHANGED <<attached, dials>>

\* Variant, not the code: what there was is left to its calls.
AttachBeside(all) ==
  /\ attached < MaxAttached /\ attached' = attached + 1 /\ carrier' = attached + 1
  /\ lazies' = [lazies EXCEPT ![attached + 1] = Lazy]
  /\ UNCHANGED <<tunnels, dials>>

\* attach stops what there was, and puts a new carrier in its place.
AttachHost(all) ==
  /\ attached < MaxAttached /\ attached' = attached + 1 /\ carrier' = attached + 1
  /\ lazies' = [all EXCEPT ![attached + 1] = Lazy]
  /\ tunnels' = StoppedTunnels
  /\ UNCHANGED dials

\* attach, and connect on the new carrier.
AttachAndDial(all) ==
  /\ attached < MaxAttached /\ attached' = attached + 1 /\ carrier' = attached + 1
  /\ LET z == [all EXCEPT ![attached + 1] = Lazy]
     IN  IF MayDial(z, attached + 1)
         THEN /\ dials < MaxDials /\ dials' = dials + 1
              /\ lazies' = Dialled(z, attached + 1)
              /\ tunnels' = [StoppedTunnels EXCEPT ![dials + 1] = "up"]
         ELSE lazies' = z /\ tunnels' = StoppedTunnels /\ UNCHANGED dials

\* The configuration was edited, or read at the start.
Hydrate(setting) ==
  /\ live' = setting
  /\ IF setting = "on" THEN AttachHost(StoppedLazies) ELSE Stop
  /\ UNCHANGED <<call, restarting, lifetime>>

DisconnectHost ==
  /\ live # "absent" /\ Stop
  /\ UNCHANGED <<live, call, restarting, lifetime>>

Retry ==
  /\ live = "on" /\ AttachAndDial(StoppedLazies)
  /\ UNCHANGED <<live, call, restarting, lifetime>>

\* restart: stop, then systemctl on the host (one restart at a time).
RestartBegins ==
  /\ live # "absent" /\ restarting = "no"
  /\ Stop /\ restarting' = live
  /\ UNCHANGED <<live, call, lifetime>>

\* It is over: attach as the target was when it began, whatever it is now.
RestartSucceeds ==
  /\ restarting # "no" /\ restarting' = "no"
  /\ IF restarting = "on" THEN AttachAndDial(StoppedLazies)
     ELSE IF carrier # 0 /\ MayDial(lazies, carrier) THEN Dial(carrier) /\ UNCHANGED <<attached, carrier>>
     ELSE UNCHANGED control
  /\ UNCHANGED <<live, call, lifetime>>

RestartFails ==
  /\ restarting # "no" /\ restarting' = "no"
  /\ IF restarting = "on" THEN AttachHost(StoppedLazies) ELSE UNCHANGED control
  /\ UNCHANGED <<live, call, lifetime>>

\* The plugin is disposed: the signal of every carrier is aborted, perHost stays.
PluginEnds ==
  /\ lifetime = "running" /\ lifetime' = "over"
  /\ lazies' = StoppedLazies /\ tunnels' = StoppedTunnels
  /\ UNCHANGED <<live, attached, carrier, dials, call, restarting>>

-----------------------------------------------------------------------------
CarriersInit ==
  /\ live \in {"on", "off", "absent"} /\ dials = 0
  /\ attached = (IF live = "on" THEN 1 ELSE 0) /\ carrier = attached
  /\ lifetime = "running" /\ restarting = "no"
  /\ lazies = [l \in 1..MaxAttached |-> [phase |-> "offline", disposed |-> FALSE, pending |-> 0, current |-> 0]]
  /\ tunnels = [t \in 1..MaxDials |-> "none"]
  /\ call = [c \in Calls |-> NoCall]

CarriersNext ==
  \/ \E c \in Calls :
       \/ \E l \in 1..attached : CallStarts(c, l)
       \/ CallAborts(c) \/ CallEnds(c) \/ CallLosesTunnel(c)
  \/ \E l \in 1..attached : DialSucceeds(l) \/ DialFails(l)
  \/ \E t \in 1..dials : TunnelEnds(t)
  \/ \E setting \in {"on", "off", "absent"} : Hydrate(setting)
  \/ DisconnectHost \/ Retry \/ RestartBegins \/ RestartSucceeds \/ RestartFails \/ PluginEnds

CarriersSpec == CarriersInit /\ [][CarriersNext]_carrierVars

-----------------------------------------------------------------------------
(* What makes it correct. *)

Lazies == [phase : {"offline", "connecting", "connected"}, disposed : BOOLEAN,
           pending : 0..MaxDials, current : 0..MaxDials]
CarrierTypeOK ==
  /\ live \in {"on", "off", "absent"} /\ restarting \in {"no", "on", "off"}
  /\ lifetime \in {"running", "over"}
  /\ attached \in 0..MaxAttached /\ dials \in 0..MaxDials /\ carrier \in 0..attached
  /\ lazies \in [1..MaxAttached -> Lazies]
  /\ tunnels \in [1..MaxDials -> {"none", "up", "killed", "gone"}]
  /\ call \in [Calls -> [stage : {"idle", "waiting", "running"}, on : 0..attached, tunnel : 0..dials]]

\* "One transport generation per Host" (lazy-carrier.js:2), over attach, stop, retry,
\* restart and dials that settle late.
OneTunnel == \A t, u \in 1..dials : tunnels[t] = "up" /\ tunnels[u] = "up" => t = u

\* A tunnel that nobody has told to end belongs to the carrier that is in use, which can
\* still be told to close it: none is left behind.
NoTunnelLeft ==
  \A t \in 1..dials : tunnels[t] = "up" =>
    /\ carrier # 0 /\ ~lazies[carrier].disposed
    /\ t \in {lazies[carrier].current, lazies[carrier].pending}

\* The state the settings show is the state of the connection.
PhaseTrue ==
  \A l \in 1..attached :
    lazies[l].phase = CASE lazies[l].current # 0 -> "connected"
                        [] lazies[l].current = 0 /\ lazies[l].pending # 0 /\ ~lazies[l].disposed -> "connecting"
                        [] OTHER -> "offline"

\* Whoever waits waits for a dial that is under way.
WaitsForDial ==
  \A c \in Calls : call[c].stage = "waiting" => call[c].on # 0 /\ lazies[call[c].on].pending # 0

CarriersSound == CarrierTypeOK /\ OneTunnel /\ NoTunnelLeft /\ PhaseTrue /\ WaitsForDial
=============================================================================
