----------------------------- MODULE HostProofs -----------------------------
(***************************************************************************)
(* Proofs about the hosts: their carriers, the restart of the local runtime, *)
(* the session list the hub merges from them, and the writes to their logs. *)
(***************************************************************************)
EXTENDS HostCarriers, RuntimeRestart, SessionList, SessionPersistence, FiniteSetTheorems, SequenceTheorems, TLAPS

-----------------------------------------------------------------------------
(***************************************************************************)
(* A host has one tunnel at most, and none outlives its carrier, for any   *)
(* number of calls, carriers and dials.                                    *)
(***************************************************************************)
\* A carrier has a tunnel or dials for one, and has none once it is closed; only the one
\* in use is open.
CarrierInv ==
  \A l \in 1..attached :
    /\ lazies[l].current \in 0..dials /\ lazies[l].pending \in 0..dials
    /\ lazies[l].current = 0 \/ lazies[l].pending = 0
    /\ lazies[l].disposed => lazies[l].current = 0
    /\ l # carrier => lazies[l].disposed

\* What a call holds.
CallInv ==
  \A c \in Calls :
    /\ call[c].stage # "idle" => call[c].on \in 1..attached
    /\ call[c].stage = "running" => call[c].tunnel \in 1..dials

CarriersIInv == CarrierTypeOK /\ CarrierInv /\ CallInv /\ NoTunnelLeft /\ PhaseTrue /\ WaitsForDial

-----------------------------------------------------------------------------
\* The invariant implies that there is one tunnel at most.
LEMMA OneOfThem == ASSUME CarriersIInv PROVE OneTunnel
<1> SUFFICES ASSUME NEW t \in 1..dials, NEW u \in 1..dials, tunnels[t] = "up", tunnels[u] = "up"
             PROVE  t = u
  BY DEF OneTunnel
<1>1. carrier \in 1..attached
  BY DEF CarriersIInv, NoTunnelLeft, CarrierTypeOK
<1>2. /\ t \in {lazies[carrier].current, lazies[carrier].pending}
      /\ u \in {lazies[carrier].current, lazies[carrier].pending}
  BY DEF CarriersIInv, NoTunnelLeft
<1>3. lazies[carrier].current = 0 \/ lazies[carrier].pending = 0
  BY <1>1 DEF CarriersIInv, CarrierInv
<1> QED BY <1>2, <1>3 DEF CarriersIInv, CarrierTypeOK

\* It holds at the start, with a carrier for a host that is on.
LEMMA CarriersInitially == ASSUME CarriersInit PROVE CarriersIInv
<1> USE CarriersAssumption DEF CarriersInit
<1>1. CarrierTypeOK
  BY DEF CarrierTypeOK, Lazies, NoCall
<1>2. CarrierInv /\ PhaseTrue
  BY DEF CarrierInv, PhaseTrue
<1>3. CallInv /\ NoTunnelLeft /\ WaitsForDial
  BY DEF CallInv, NoTunnelLeft, WaitsForDial, NoCall
<1> QED BY <1>1, <1>2, <1>3 DEF CarriersIInv

\* What a step does to one carrier leaves a carrier.
LEMMA EditedRecord ==
  ASSUME NEW z \in Lazies, NEW c \in 0..MaxDials, NEW p \in 0..MaxDials, NEW f \in {"offline", "connecting", "connected"}
  PROVE  /\ [z EXCEPT !.current = c, !.phase = f] \in Lazies
         /\ [z EXCEPT !.pending = p, !.phase = f] \in Lazies
         /\ [z EXCEPT !.current = c, !.pending = p, !.phase = f] \in Lazies
<1>1. [z EXCEPT !.current = c, !.phase = f] \in Lazies
  BY DEF Lazies
<1>2. [z EXCEPT !.pending = p, !.phase = f] \in Lazies
  BY DEF Lazies
<1>3. [z EXCEPT !.current = c, !.pending = p, !.phase = f] \in Lazies
  BY DEF Lazies
<1> QED BY <1>1, <1>2, <1>3

\* The same among all.
LEMMA Edited ==
  ASSUME NEW all \in [1..MaxAttached -> Lazies], NEW l \in 1..MaxAttached,
         NEW c \in 0..MaxDials, NEW p \in 0..MaxDials, NEW f \in {"offline", "connecting", "connected"}
  PROVE  /\ [all EXCEPT ![l].current = c, ![l].phase = f] \in [1..MaxAttached -> Lazies]
         /\ [all EXCEPT ![l].pending = p, ![l].phase = f] \in [1..MaxAttached -> Lazies]
         /\ [all EXCEPT ![l].current = c, ![l].pending = p, ![l].phase = f] \in [1..MaxAttached -> Lazies]
<1> DEFINE one == [all[l] EXCEPT !.current = c, !.phase = f]
           two == [all[l] EXCEPT !.pending = p, !.phase = f]
           three == [all[l] EXCEPT !.current = c, !.pending = p, !.phase = f]
<1>1. one \in Lazies /\ two \in Lazies /\ three \in Lazies
  BY EditedRecord
<1>2. /\ [all EXCEPT ![l].current = c, ![l].phase = f] = [all EXCEPT ![l] = one]
      /\ [all EXCEPT ![l].pending = p, ![l].phase = f] = [all EXCEPT ![l] = two]
      /\ [all EXCEPT ![l].current = c, ![l].pending = p, ![l].phase = f] = [all EXCEPT ![l] = three]
  OBVIOUS
<1> HIDE DEF one, two, three
<1>3. /\ [all EXCEPT ![l] = one] \in [1..MaxAttached -> Lazies]
      /\ [all EXCEPT ![l] = two] \in [1..MaxAttached -> Lazies]
      /\ [all EXCEPT ![l] = three] \in [1..MaxAttached -> Lazies]
  BY <1>1
<1> QED BY <1>2, <1>3

\* Closing a tunnel touches no other.
LEMMA ClosedOne ==
  ASSUME NEW all \in [1..MaxDials -> {"none", "up", "killed", "gone"}], NEW t \in 0..MaxDials
  PROVE  /\ Closed(all, t) \in [1..MaxDials -> {"none", "up", "killed", "gone"}]
         /\ \A u \in 1..MaxDials : Closed(all, t)[u] = "up" => all[u] = "up" /\ u # t
  BY DEF Closed

\* A stop closes whatever tunnel there is, and leaves a closed carrier.
LEMMA StopClosesAll ==
  ASSUME CarriersIInv
  PROVE  /\ StoppedTunnels \in [1..MaxDials -> {"none", "up", "killed", "gone"}]
         /\ \A t \in 1..dials : StoppedTunnels[t] # "up"
<1>0. dials \in 0..MaxDials /\ 1..dials \subseteq 1..MaxDials
  BY CarriersAssumption DEF CarriersIInv, CarrierTypeOK
<1>1. CASE carrier = 0
  BY <1>0, <1>1 DEF CarriersIInv, StoppedTunnels, CarrierTypeOK, NoTunnelLeft
<1>2. CASE carrier # 0
  <2> DEFINE z == lazies[carrier]
             once == Closed(tunnels, z.current)
  <2>1. carrier \in 1..attached /\ carrier \in 1..MaxAttached
    BY <1>2, CarriersAssumption DEF CarriersIInv, CarrierTypeOK
  <2>2. z.current \in 0..MaxDials /\ z.pending \in 0..MaxDials
    BY <2>1 DEF CarriersIInv, CarrierTypeOK, Lazies
  <2>3. tunnels \in [1..MaxDials -> {"none", "up", "killed", "gone"}]
    BY DEF CarriersIInv, CarrierTypeOK
  <2> HIDE DEF z
  <2>4. /\ once \in [1..MaxDials -> {"none", "up", "killed", "gone"}]
        /\ \A u \in 1..MaxDials : once[u] = "up" => tunnels[u] = "up" /\ u # z.current
    BY ONLY <2>2, <2>3, ClosedOne
  <2>5. StoppedTunnels = Closed(once, z.pending)
    BY <1>2 DEF StoppedTunnels, z
  <2> HIDE DEF once
  <2>6. /\ StoppedTunnels \in [1..MaxDials -> {"none", "up", "killed", "gone"}]
        /\ \A u \in 1..MaxDials : StoppedTunnels[u] = "up" => once[u] = "up" /\ u # z.pending
    BY <2>2, <2>4, <2>5 DEF Closed
  <2> QED BY <1>0, <2>4, <2>6 DEF CarriersIInv, NoTunnelLeft, z
<1> QED BY <1>1, <1>2

\* A carrier that is closed is a carrier.
LEMMA DisposedShape == ASSUME NEW z \in Lazies PROVE Disposed(z) \in Lazies
<1>1. z.pending \in 0..MaxDials /\ 0 \in 0..MaxDials
  BY CarriersAssumption DEF Lazies
<1> QED BY <1>1 DEF Lazies, Disposed

\* What a stop leaves: carriers that are closed, whose dials may still be under way.
LEMMA StoppedShape ==
  ASSUME CarriersIInv
  PROVE  /\ StoppedLazies \in [1..MaxAttached -> Lazies]
         /\ \A l \in 1..attached :
              /\ StoppedLazies[l].disposed /\ StoppedLazies[l].current = 0
              /\ StoppedLazies[l].pending = lazies[l].pending /\ StoppedLazies[l].phase = "offline"
<1> USE CarriersAssumption
<1>1. attached \in 0..MaxAttached /\ carrier \in 0..attached /\ lazies \in [1..MaxAttached -> Lazies]
  BY DEF CarriersIInv, CarrierTypeOK
<1>2. StoppedLazies \in [1..MaxAttached -> Lazies]
  <2>1. CASE carrier = 0
    BY <1>1, <2>1 DEF StoppedLazies
  <2>2. CASE carrier # 0
    <3>1. carrier \in 1..MaxAttached /\ lazies[carrier] \in Lazies
      BY <1>1, <2>2
    <3>2. Disposed(lazies[carrier]) \in Lazies
      BY <3>1, DisposedShape
    <3> QED BY <1>1, <2>2, <3>1, <3>2 DEF StoppedLazies
  <2> QED BY <2>1, <2>2
<1>3. ASSUME NEW l \in 1..attached
      PROVE  /\ StoppedLazies[l].disposed /\ StoppedLazies[l].current = 0
             /\ StoppedLazies[l].pending = lazies[l].pending /\ StoppedLazies[l].phase = "offline"
  <2>1. l \in 1..MaxAttached /\ lazies[l] \in Lazies
    BY <1>1
  <2>2. CASE l = carrier
    BY <1>1, <2>1, <2>2 DEF StoppedLazies, Disposed, Lazies
  <2>3. CASE l # carrier
    BY <1>1, <2>1, <2>3 DEF StoppedLazies, CarriersIInv, CarrierInv, PhaseTrue
  <2> QED BY <2>2, <2>3
<1> QED BY <1>2, <1>3

-----------------------------------------------------------------------------
(* The steps. *)

\* A dial by the carrier in use: there was no tunnel, now there is one.
LEMMA DialKeeps ==
  ASSUME CarriersIInv, NEW l \in 1..attached, MayDial(lazies, l), Dial(l), attached' = attached, carrier' = carrier
  PROVE  /\ lazies' \in [1..MaxAttached -> Lazies] /\ dials' \in 0..MaxDials /\ dials' = dials + 1
         /\ tunnels' \in [1..MaxDials -> {"none", "up", "killed", "gone"}]
         /\ CarrierInv' /\ NoTunnelLeft' /\ PhaseTrue'
         /\ lazies'[l].pending # 0
         /\ \A k \in 1..attached : k # l => lazies'[k] = lazies[k]
<1> USE CarriersAssumption
<1>1. /\ attached \in 0..MaxAttached /\ dials \in 0..MaxDials /\ lazies \in [1..MaxAttached -> Lazies]
      /\ tunnels \in [1..MaxDials -> {"none", "up", "killed", "gone"}]
  BY DEF CarriersIInv, CarrierTypeOK
<1>2. dials' \in 0..MaxDials /\ dials' = dials + 1 /\ l \in 1..MaxAttached
  BY <1>1 DEF Dial
<1>3. lazies' = [lazies EXCEPT ![l].pending = dials + 1, ![l].phase = "connecting"]
  BY DEF Dial, Dialled
<1>4. tunnels' = [tunnels EXCEPT ![dials + 1] = "up"]
  BY DEF Dial
<1>5. lazies' \in [1..MaxAttached -> Lazies]
  <2>1. dials + 1 \in 0..MaxDials
    BY <1>2
  <2> QED BY <1>1, <1>2, <1>3, <2>1, Edited
<1>6. /\ lazies'[l].pending = dials + 1 /\ lazies'[l].phase = "connecting"
      /\ lazies'[l].current = lazies[l].current /\ lazies'[l].disposed = lazies[l].disposed
      /\ \A k \in 1..attached : k # l => lazies'[k] = lazies[k]
  BY <1>1, <1>2, <1>3 DEF Lazies
<1>7. tunnels' \in [1..MaxDials -> {"none", "up", "killed", "gone"}]
  BY <1>1, <1>2, <1>4
<1>8. l = carrier /\ lazies[l].current = 0 /\ lazies[l].pending = 0 /\ ~lazies[l].disposed
  BY DEF CarriersIInv, CarrierInv, MayDial
<1>9. CarrierInv'
  <2>1. UNCHANGED <<attached, carrier>> /\ CarrierInv
    BY DEF Dial, CarriersIInv
  <2>2. 0 \in 0..dials' /\ dials + 1 \in 0..dials' /\ 0..dials \subseteq 0..dials'
    BY <1>1, <1>2
  <2>3. \A k \in 1..attached' :
          /\ lazies'[k].current \in 0..dials' /\ lazies'[k].pending \in 0..dials'
          /\ lazies'[k].current = 0 \/ lazies'[k].pending = 0
          /\ lazies'[k].disposed => lazies'[k].current = 0
          /\ k # carrier' => lazies'[k].disposed
    <3> SUFFICES ASSUME NEW k \in 1..attached
                 PROVE  /\ lazies'[k].current \in 0..dials' /\ lazies'[k].pending \in 0..dials'
                        /\ lazies'[k].current = 0 \/ lazies'[k].pending = 0
                        /\ lazies'[k].disposed => lazies'[k].current = 0
                        /\ k # carrier => lazies'[k].disposed
      BY <2>1
    <3>1. CASE k = l
      BY <1>6, <1>8, <2>2, <3>1
    <3>2. CASE k # l
      BY <1>6, <2>1, <2>2, <3>2 DEF CarrierInv
    <3> QED BY <3>1, <3>2
  <2> QED BY <2>3 DEF CarrierInv
<1>10. NoTunnelLeft'
  <2> SUFFICES ASSUME NEW t \in 1..dials', tunnels'[t] = "up"
               PROVE  carrier # 0 /\ ~lazies'[carrier].disposed /\ t = lazies'[carrier].pending
    BY DEF NoTunnelLeft
  <2>1. t = dials + 1
    BY <1>1, <1>2, <1>4, <1>8 DEF CarriersIInv, NoTunnelLeft
  <2> QED BY <2>1, <1>1, <1>6, <1>8
<1>11. PhaseTrue'
  BY <1>1, <1>2, <1>6, <1>8 DEF CarriersIInv, PhaseTrue
<1> QED BY <1>1, <1>2, <1>5, <1>6, <1>7, <1>9, <1>10, <1>11

\* Calls that do not move keep what they hold.
LEMMA CallsRest ==
  ASSUME CarriersIInv, call' = call, attached' \in Nat, attached' >= attached, dials' \in Nat, dials' >= dials,
         \A l \in 1..attached : lazies[l].pending # 0 => lazies'[l].pending # 0
  PROVE  /\ call' \in [Calls -> [stage : {"idle", "waiting", "running"}, on : 0..attached', tunnel : 0..dials']]
         /\ CallInv' /\ WaitsForDial'
<1>1. attached \in Nat /\ dials \in Nat
  BY CarriersAssumption DEF CarriersIInv, CarrierTypeOK
<1>2. 0..attached \subseteq 0..attached' /\ 0..dials \subseteq 0..dials' /\ 1..attached \subseteq 1..attached' /\ 1..dials \subseteq 1..dials'
  BY <1>1
<1>3. call' \in [Calls -> [stage : {"idle", "waiting", "running"}, on : 0..attached', tunnel : 0..dials']]
  BY <1>2 DEF CarriersIInv, CarrierTypeOK
<1>4. CallInv'
  BY <1>2 DEF CarriersIInv, CallInv
<1>5. WaitsForDial'
  <2> SUFFICES ASSUME NEW c \in Calls, call[c].stage = "waiting"
               PROVE  call[c].on # 0 /\ lazies'[call[c].on].pending # 0
    BY DEF WaitsForDial
  <2>1. call[c].on \in 1..attached
    BY DEF CarriersIInv, CallInv
  <2> QED BY <2>1 DEF CarriersIInv, WaitsForDial
<1> QED BY <1>3, <1>4, <1>5

\* A stop, or the end of the plugin: no tunnel is left up.
LEMMA StopKeeps ==
  ASSUME CarriersIInv, lazies' = StoppedLazies, tunnels' = StoppedTunnels, UNCHANGED <<attached, dials, call>>,
         carrier' \in {0, carrier}, restarting' \in {"no", "on", "off"}, live' \in {"on", "off", "absent"}, lifetime' \in {"running", "over"}
  PROVE  CarriersIInv'
<1> USE CarriersAssumption
<1>1. attached \in 0..MaxAttached /\ dials \in 0..MaxDials /\ carrier \in 0..attached
  BY DEF CarriersIInv, CarrierTypeOK
<1>2. /\ call' \in [Calls -> [stage : {"idle", "waiting", "running"}, on : 0..attached', tunnel : 0..dials']]
      /\ CallInv' /\ WaitsForDial'
  BY <1>1, StoppedShape, CallsRest
<1>3. CarrierTypeOK'
  BY <1>1, <1>2, StoppedShape, StopClosesAll DEF CarriersIInv, CarrierTypeOK
<1>4. CarrierInv' /\ PhaseTrue'
  BY <1>1, StoppedShape DEF CarriersIInv, CarrierInv, PhaseTrue
<1>5. NoTunnelLeft'
  BY StopClosesAll DEF NoTunnelLeft
<1> QED BY <1>2, <1>3, <1>4, <1>5 DEF CarriersIInv

\* A new carrier in the place of the one that was stopped.
LEMMA AttachKeeps ==
  ASSUME CarriersIInv, AttachHost(StoppedLazies), UNCHANGED <<call, lifetime>>,
         restarting' \in {"no", "on", "off"}, live' \in {"on", "off", "absent"}
  PROVE  CarriersIInv'
<1> USE CarriersAssumption
<1>1. /\ attached \in 0..MaxAttached /\ dials \in 0..MaxDials /\ lifetime \in {"running", "over"}
      /\ attached' = attached + 1 /\ attached' \in 1..MaxAttached /\ carrier' = attached' /\ dials' = dials
  BY DEF CarriersIInv, CarrierTypeOK, AttachHost
<1>2. Lazy \in Lazies /\ Lazy.current = 0 /\ Lazy.pending = 0 /\ Lazy.phase = "offline"
  BY DEF Lazy, Lazies
<1>3. lazies' = [StoppedLazies EXCEPT ![attached'] = Lazy]
  BY <1>1 DEF AttachHost
<1>4. /\ lazies' \in [1..MaxAttached -> Lazies] /\ lazies'[attached'] = Lazy
      /\ \A l \in 1..attached : lazies'[l] = StoppedLazies[l]
  BY <1>1, <1>2, <1>3, StoppedShape
<1>5. /\ call' \in [Calls -> [stage : {"idle", "waiting", "running"}, on : 0..attached', tunnel : 0..dials']]
      /\ CallInv' /\ WaitsForDial'
  BY <1>1, <1>4, StoppedShape, CallsRest
<1>6. CarrierTypeOK'
  BY <1>1, <1>4, <1>5, StopClosesAll DEF AttachHost, CarrierTypeOK
<1>7. CarrierInv' /\ PhaseTrue'
  <2> SUFFICES ASSUME NEW l \in 1..attached'
               PROVE  /\ lazies'[l].current = 0 /\ lazies'[l].pending \in 0..dials /\ lazies'[l].phase = "offline"
                      /\ l # attached' => lazies'[l].disposed
                      /\ l = attached' => lazies'[l].pending = 0
    BY <1>1 DEF CarrierInv, PhaseTrue
  <2>1. CASE l = attached'
    BY <2>1, <1>1, <1>2, <1>4
  <2>2. CASE l # attached'
    BY <2>2, <1>1, <1>4, StoppedShape DEF CarriersIInv, CarrierInv
  <2> QED BY <2>1, <2>2
<1>8. NoTunnelLeft'
  BY <1>1, StopClosesAll DEF NoTunnelLeft, AttachHost
<1> QED BY <1>5, <1>6, <1>7, <1>8 DEF CarriersIInv

\* A new carrier that dials at once, unless the plugin is over.
LEMMA AttachAndDialKeeps ==
  ASSUME CarriersIInv, AttachAndDial(StoppedLazies), UNCHANGED <<live, call, lifetime>>,
         restarting' \in {"no", "on", "off"}
  PROVE  CarriersIInv'
<1> USE CarriersAssumption
<1> DEFINE n == attached + 1
           z == [StoppedLazies EXCEPT ![n] = Lazy]
<1>1. /\ attached \in 0..MaxAttached /\ dials \in 0..MaxDials /\ live \in {"on", "off", "absent"}
      /\ lifetime \in {"running", "over"} /\ n \in 1..MaxAttached /\ attached' = n /\ carrier' = n
      /\ n = attached + 1
  BY DEF CarriersIInv, CarrierTypeOK, AttachAndDial
<1>2. Lazy \in Lazies /\ Lazy.current = 0 /\ Lazy.pending = 0 /\ Lazy.phase = "offline"
  BY DEF Lazy, Lazies
<1>3. z \in [1..MaxAttached -> Lazies] /\ z[n] = Lazy /\ \A l \in 1..attached : z[l] = StoppedLazies[l]
  BY <1>1, <1>2, StoppedShape
<1> HIDE DEF n, z
<1>4. CASE ~MayDial(z, n)
  <2>1. AttachHost(StoppedLazies)
    BY <1>4 DEF AttachAndDial, AttachHost, n, z
  <2> QED BY <1>1, <2>1, AttachKeeps
<1>5. CASE MayDial(z, n)
  <2>1. /\ dials' = dials + 1 /\ dials' \in 0..MaxDials /\ lazies' = Dialled(z, n)
        /\ tunnels' = [StoppedTunnels EXCEPT ![dials + 1] = "up"]
    BY <1>1, <1>5 DEF AttachAndDial, n, z
  <2>2. lazies' = [z EXCEPT ![n].pending = dials + 1, ![n].phase = "connecting"]
    BY <2>1 DEF Dialled
  <2>3. ~Lazy.disposed
    BY <1>3, <1>5 DEF MayDial
  <2>4. /\ lazies'[n].pending = dials + 1 /\ lazies'[n].phase = "connecting"
        /\ lazies'[n].current = 0 /\ ~lazies'[n].disposed
        /\ \A l \in 1..attached : lazies'[l] = StoppedLazies[l]
    <3>1. /\ lazies'[n].pending = dials + 1 /\ lazies'[n].phase = "connecting"
          /\ lazies'[n].current = z[n].current /\ lazies'[n].disposed = z[n].disposed
          /\ \A l \in 1..MaxAttached : l # n => lazies'[l] = z[l]
      BY <1>1, <1>3, <2>2 DEF Lazies
    <3>2. \A l \in 1..attached : l \in 1..MaxAttached /\ l # n
      BY <1>1
    <3> QED BY <1>2, <1>3, <2>3, <3>1, <3>2
  <2>5. lazies' \in [1..MaxAttached -> Lazies]
    <3>1. dials + 1 \in 0..MaxDials
      BY <2>1
    <3>2. n \in 1..MaxAttached
      BY <1>1
    <3> QED BY <1>3, <2>2, <3>1, <3>2, Edited
  <2>6. /\ call' \in [Calls -> [stage : {"idle", "waiting", "running"}, on : 0..attached', tunnel : 0..dials']]
        /\ CallInv' /\ WaitsForDial'
    <3>1. attached' >= attached /\ attached' \in Nat /\ dials' >= dials /\ dials' \in Nat
      BY <1>1, <2>1
    <3>2. \A l \in 1..attached : lazies[l].pending # 0 => lazies'[l].pending # 0
      BY <2>4, StoppedShape
    <3> QED BY <3>1, <3>2, CallsRest
  <2>7. tunnels' \in [1..MaxDials -> {"none", "up", "killed", "gone"}]
        /\ \A t \in 1..dials' : tunnels'[t] = "up" => t = dials + 1
    BY <1>1, <2>1, StopClosesAll
  <2>8. CarrierTypeOK'
    BY <1>1, <2>1, <2>5, <2>6, <2>7 DEF CarrierTypeOK
  <2>9. CarrierInv' /\ PhaseTrue'
    <3> SUFFICES ASSUME NEW l \in 1..attached'
                 PROVE  /\ lazies'[l].current = 0 /\ lazies'[l].pending \in 0..dials'
                        /\ l # n => lazies'[l].disposed /\ lazies'[l].phase = "offline"
                        /\ l = n => lazies'[l].pending # 0 /\ ~lazies'[l].disposed /\ lazies'[l].phase = "connecting"
      BY <1>1, <2>1 DEF CarrierInv, PhaseTrue
    <3>1. CASE l = n
      BY <3>1, <1>1, <2>1, <2>4
    <3>2. CASE l # n
      BY <3>2, <1>1, <2>1, <2>4, StoppedShape DEF CarriersIInv, CarrierInv
    <3> QED BY <3>1, <3>2
  <2>10. NoTunnelLeft'
    BY <1>1, <2>1, <2>4, <2>7 DEF NoTunnelLeft
  <2> QED BY <2>6, <2>8, <2>9, <2>10 DEF CarriersIInv
<1> QED BY <1>4, <1>5

\* A call that begins; it dials when there is neither a tunnel nor a dial.
LEMMA StartKeeps ==
  ASSUME CarriersIInv, NEW c \in Calls, NEW l \in 1..attached, CallStarts(c, l)
  PROVE  CarriersIInv'
<1> USE CarriersAssumption
<1>1. /\ attached \in 0..MaxAttached /\ dials \in 0..MaxDials /\ l \in 1..MaxAttached
      /\ call \in [Calls -> [stage : {"idle", "waiting", "running"}, on : 0..attached, tunnel : 0..dials]]
      /\ UNCHANGED <<live, attached, carrier, restarting, lifetime>>
  BY DEF CarriersIInv, CarrierTypeOK, CallStarts
<1>2. /\ lazies' \in [1..MaxAttached -> Lazies] /\ dials' \in 0..MaxDials /\ dials' >= dials
      /\ tunnels' \in [1..MaxDials -> {"none", "up", "killed", "gone"}]
      /\ CarrierInv' /\ NoTunnelLeft' /\ PhaseTrue'
      /\ \A k \in 1..attached : lazies[k].pending # 0 => lazies'[k].pending # 0
      /\ lazies[l].current # 0 \/ lazies'[l].pending # 0
  <2>1. CASE MayDial(lazies, l)
    <3>1. Dial(l)
      BY <2>1 DEF CallStarts
    <3> QED BY <1>1, <2>1, <3>1, DialKeeps
  <2>2. CASE ~MayDial(lazies, l)
    <3>1. UNCHANGED <<lazies, tunnels, dials>>
      BY <2>2 DEF CallStarts
    <3>2. CarrierTypeOK' => lazies' \in [1..MaxAttached -> Lazies]
      BY DEF CarrierTypeOK
    <3>3. lazies[l].current # 0 \/ lazies'[l].pending # 0
      BY <2>2, <3>1 DEF MayDial, CallStarts
    <3>4. CarrierInv' /\ NoTunnelLeft' /\ PhaseTrue'
      BY <1>1, <3>1 DEF CarriersIInv, CarrierInv, NoTunnelLeft, PhaseTrue
    <3> QED BY <1>1, <3>1, <3>3, <3>4 DEF CarriersIInv, CarrierTypeOK
  <2> QED BY <2>1, <2>2
<1>3. /\ call' = [call EXCEPT ![c] = [stage |-> Got(lazies[l]), on |-> l, tunnel |-> lazies[l].current]]
      /\ Got(lazies[l]) = IF lazies[l].current # 0 THEN "running" ELSE "waiting"
      /\ lazies[l].current \in 0..dials
  BY DEF CallStarts, Got, CarriersIInv, CarrierInv
<1>4. call' \in [Calls -> [stage : {"idle", "waiting", "running"}, on : 0..attached', tunnel : 0..dials']]
  BY <1>1, <1>2, <1>3
<1>5. ASSUME NEW k \in Calls
      PROVE  /\ call'[k].stage # "idle" => call'[k].on \in 1..attached'
             /\ call'[k].stage = "running" => call'[k].tunnel \in 1..dials'
             /\ call'[k].stage = "waiting" => call'[k].on # 0 /\ lazies'[call'[k].on].pending # 0
  <2>1. CASE k = c
    BY <2>1, <1>1, <1>2, <1>3
  <2>2. CASE k # c
    <3>1. call'[k] = call[k]
      BY <2>2, <1>1, <1>3
    <3> QED BY <3>1, <1>1, <1>2 DEF CarriersIInv, CallInv, WaitsForDial
  <2> QED BY <2>1, <2>2
<1>6. CarrierTypeOK'
  BY <1>1, <1>2, <1>4 DEF CarriersIInv, CarrierTypeOK
<1> QED BY <1>2, <1>5, <1>6 DEF CarriersIInv, CallInv, WaitsForDial

\* What all steps below have in common.
LEMMA Shapes ==
  ASSUME CarriersIInv
  PROVE  /\ attached \in 0..MaxAttached /\ dials \in 0..MaxDials /\ lazies \in [1..MaxAttached -> Lazies]
         /\ tunnels \in [1..MaxDials -> {"none", "up", "killed", "gone"}]
         /\ call \in [Calls -> [stage : {"idle", "waiting", "running"}, on : 0..attached, tunnel : 0..dials]]
         /\ 1..attached \subseteq 1..MaxAttached /\ 1..dials \subseteq 1..MaxDials
BY CarriersAssumption DEF CarriersIInv, CarrierTypeOK

\* A call that is over, by itself or by its signal.
LEMMA EndKeeps ==
  ASSUME CarriersIInv, NEW c \in Calls, call' = [call EXCEPT ![c] = NoCall],
         UNCHANGED <<live, control, restarting, lifetime>>
  PROVE  CarriersIInv'
<1>1. call' \in [Calls -> [stage : {"idle", "waiting", "running"}, on : 0..attached, tunnel : 0..dials]]
  BY CarriersAssumption, Shapes DEF NoCall
<1>2. CarrierTypeOK' /\ CarrierInv' /\ NoTunnelLeft' /\ PhaseTrue'
  BY <1>1 DEF CarriersIInv, CarrierTypeOK, CarrierInv, NoTunnelLeft, PhaseTrue, control
<1>3. ASSUME NEW k \in Calls PROVE call'[k] = call[k] \/ call'[k].stage = "idle"
  BY Shapes DEF NoCall
<1>4. CallInv' /\ WaitsForDial'
  BY <1>3 DEF CarriersIInv, CallInv, WaitsForDial, control
<1> QED BY <1>2, <1>4 DEF CarriersIInv

\* A call drops the tunnel it had, which its carrier may have replaced since.
LEMMA LossKeeps ==
  ASSUME CarriersIInv, NEW c \in Calls, CallLosesTunnel(c)
  PROVE  CarriersIInv'
<1> USE CarriersAssumption
<1>0. /\ attached \in 0..MaxAttached /\ dials \in 0..MaxDials /\ lazies \in [1..MaxAttached -> Lazies]
      /\ tunnels \in [1..MaxDials -> {"none", "up", "killed", "gone"}]
      /\ call \in [Calls -> [stage : {"idle", "waiting", "running"}, on : 0..attached, tunnel : 0..dials]]
      /\ 1..attached \subseteq 1..MaxAttached /\ 1..dials \subseteq 1..MaxDials
  BY Shapes
<1> DEFINE l == call[c].on
           t == call[c].tunnel
<1>1. /\ l \in 1..attached /\ t \in 1..dials /\ Drop(l, t) /\ call' = [call EXCEPT ![c] = NoCall]
      /\ UNCHANGED <<live, attached, carrier, dials, restarting, lifetime>>
  BY <1>0 DEF CarriersIInv, CallInv, CallLosesTunnel
<1> HIDE DEF l, t
<1>2. /\ tunnels' \in [1..MaxDials -> {"none", "up", "killed", "gone"}]
      /\ \A u \in 1..dials : tunnels'[u] = "up" => tunnels[u] = "up" /\ u # t
  BY <1>0, <1>1 DEF Drop, Closed
<1>3. /\ lazies' \in [1..MaxAttached -> Lazies]
      /\ \A k \in 1..attached :
           \/ lazies'[k] = lazies[k]
           \/ /\ k = l /\ lazies[k].current = t /\ lazies'[k].current = 0 /\ lazies'[k].phase = "offline"
              /\ lazies'[k].pending = lazies[k].pending /\ lazies'[k].disposed = lazies[k].disposed
  <2>1. CASE lazies[l].current = t
    <3>1. lazies' = [lazies EXCEPT ![l].current = 0, ![l].phase = "offline"]
      BY <1>0, <1>1, <2>1 DEF Drop
    <3>2. l \in 1..MaxAttached /\ 0 \in 0..MaxDials /\ "offline" \in {"offline", "connecting", "connected"}
      BY <1>0, <1>1
    <3>3. lazies' \in [1..MaxAttached -> Lazies]
      BY <1>0, <3>1, <3>2, Edited
    <3>4. /\ lazies'[l].current = 0 /\ lazies'[l].phase = "offline"
          /\ lazies'[l].pending = lazies[l].pending /\ lazies'[l].disposed = lazies[l].disposed
          /\ \A k \in 1..MaxAttached : k # l => lazies'[k] = lazies[k]
      BY <1>0, <3>1, <3>2 DEF Lazies
    <3> QED BY <1>0, <2>1, <3>3, <3>4
  <2>2. CASE lazies[l].current # t
    BY <1>0, <1>1, <2>2 DEF Drop
  <2> QED BY <1>0, <2>1, <2>2
<1>4. CarrierInv'
  BY <1>0, <1>1, <1>3 DEF CarriersIInv, CarrierInv
<1>5. NoTunnelLeft'
  BY <1>0, <1>1, <1>2, <1>3 DEF CarriersIInv, NoTunnelLeft, CarrierTypeOK
<1>6. PhaseTrue'
  <2> SUFFICES ASSUME NEW k \in 1..attached
               PROVE  lazies'[k].phase = CASE lazies'[k].current # 0 -> "connected"
                        [] lazies'[k].current = 0 /\ lazies'[k].pending # 0 /\ ~lazies'[k].disposed -> "connecting"
                        [] OTHER -> "offline"
    BY <1>0, <1>1 DEF PhaseTrue
  <2>1. CASE lazies'[k] = lazies[k]
    BY <1>0, <2>1 DEF CarriersIInv, PhaseTrue
  <2>2. CASE lazies'[k] # lazies[k]
    <3>1. lazies'[k].current = 0 /\ lazies'[k].phase = "offline" /\ lazies'[k].pending = 0
      BY <1>0, <1>1, <1>3, <2>2 DEF CarriersIInv, CarrierInv
    <3> QED BY <1>0, <3>1
  <2> QED BY <1>0, <2>1, <2>2
<1>7. /\ call' \in [Calls -> [stage : {"idle", "waiting", "running"}, on : 0..attached, tunnel : 0..dials]]
      /\ \A k \in Calls : call'[k] = call[k] \/ call'[k].stage = "idle"
  BY <1>0, <1>1 DEF NoCall
<1>8. CallInv' /\ WaitsForDial'
  <2>1. CallInv'
    BY <1>0, <1>1, <1>7 DEF CarriersIInv, CallInv
  <2>2. ASSUME NEW k \in Calls, call'[k].stage = "waiting"
        PROVE  call'[k].on # 0 /\ lazies'[call'[k].on].pending # 0
    <3>1. call'[k] = call[k]
      BY <1>0, <1>7, <2>2
    <3>2. call[k].on \in 1..attached /\ lazies[call[k].on].pending # 0
      BY <1>0, <2>2, <3>1 DEF CarriersIInv, CallInv, WaitsForDial
    <3>3. lazies'[call[k].on].pending = lazies[call[k].on].pending
      BY <1>0, <1>3, <3>2
    <3> QED BY <1>0, <3>1, <3>2, <3>3
  <2> QED BY <1>0, <2>1, <2>2 DEF WaitsForDial
<1>9. CarrierTypeOK'
  BY <1>0, <1>1, <1>2, <1>3, <1>7 DEF CarriersIInv, CarrierTypeOK
<1> QED BY <1>0, <1>4, <1>5, <1>6, <1>8, <1>9 DEF CarriersIInv

\* The calls that waited for a dial go on with its tunnel, or end.
LEMMA ResumedShape ==
  ASSUME CarriersIInv, NEW l \in 1..attached, NEW stage \in {"idle", "running"}, NEW t \in 0..dials,
         stage = "running" => t # 0, call' = Resumed(l, stage, t),
         UNCHANGED <<attached, dials>>,
         \A k \in 1..attached : k # l => lazies'[k].pending = lazies[k].pending
  PROVE  /\ call' \in [Calls -> [stage : {"idle", "waiting", "running"}, on : 0..attached, tunnel : 0..dials]]
         /\ CallInv' /\ WaitsForDial'
<1>1. call' \in [Calls -> [stage : {"idle", "waiting", "running"}, on : 0..attached, tunnel : 0..dials]]
  BY Shapes DEF Resumed
<1>2. ASSUME NEW c \in Calls
      PROVE  /\ call'[c].stage # "idle" => call'[c].on \in 1..attached
             /\ call'[c].stage = "running" => call'[c].tunnel \in 1..dials
             /\ call'[c].stage = "waiting" => call'[c].on # 0 /\ lazies'[call'[c].on].pending # 0
  <2>1. CASE call[c].stage = "waiting" /\ call[c].on = l
    <3>1. call'[c] = [stage |-> stage, on |-> IF t = 0 THEN 0 ELSE l, tunnel |-> t]
      BY <2>1 DEF Resumed
    <3> QED BY <3>1, Shapes
  <2>2. CASE ~(call[c].stage = "waiting" /\ call[c].on = l)
    <3>1. call'[c] = call[c]
      BY <2>2 DEF Resumed
    <3> QED BY <2>2, <3>1 DEF CarriersIInv, CallInv, WaitsForDial
  <2> QED BY <2>1, <2>2
<1> QED BY <1>1, <1>2 DEF CallInv, WaitsForDial

\* A dial that succeeds is that of the carrier in use.
LEMMA SuccessKeeps ==
  ASSUME CarriersIInv, NEW l \in 1..attached, DialSucceeds(l)
  PROVE  CarriersIInv'
<1> USE CarriersAssumption
<1>0. /\ attached \in 0..MaxAttached /\ dials \in 0..MaxDials /\ lazies \in [1..MaxAttached -> Lazies]
      /\ tunnels \in [1..MaxDials -> {"none", "up", "killed", "gone"}]
      /\ call \in [Calls -> [stage : {"idle", "waiting", "running"}, on : 0..attached, tunnel : 0..dials]]
      /\ 1..attached \subseteq 1..MaxAttached /\ 1..dials \subseteq 1..MaxDials
  BY Shapes
<1> DEFINE t == lazies[l].pending
<1>1. /\ t \in 1..dials /\ lazies[l].current = 0 /\ ~lazies[l].disposed /\ l = carrier
      /\ lazies' = [lazies EXCEPT ![l].current = t, ![l].pending = 0, ![l].phase = "connected"]
      /\ call' = Resumed(l, "running", t)
      /\ UNCHANGED <<live, attached, carrier, tunnels, dials, restarting, lifetime>>
  BY <1>0 DEF DialSucceeds, CarriersIInv, CarrierInv
<1> HIDE DEF t
<1>2. t # 0 /\ t \in 0..MaxDials /\ t \in 0..dials /\ 0 \in 0..MaxDials /\ l \in 1..MaxAttached
  BY <1>0, <1>1
<1>3. lazies' \in [1..MaxAttached -> Lazies]
  <2>1. lazies' = [lazies EXCEPT ![l].current = t, ![l].pending = 0, ![l].phase = "connected"]
    BY <1>1
  <2>2. lazies \in [1..MaxAttached -> Lazies]
    BY <1>0
  <2>3. [lazies EXCEPT ![l].current = t, ![l].pending = 0, ![l].phase = "connected"] \in [1..MaxAttached -> Lazies]
    BY <1>2, <2>2, Edited
  <2> QED BY <2>1, <2>3
<1>4. /\ lazies'[l].current = t /\ lazies'[l].pending = 0 /\ lazies'[l].phase = "connected"
      /\ lazies'[l].disposed = lazies[l].disposed
      /\ \A k \in 1..MaxAttached : k # l => lazies'[k] = lazies[k]
  BY <1>0, <1>1, <1>2 DEF Lazies
<1>5. /\ call' \in [Calls -> [stage : {"idle", "waiting", "running"}, on : 0..attached, tunnel : 0..dials]]
      /\ CallInv' /\ WaitsForDial'
  BY <1>0, <1>1, <1>2, <1>4, ResumedShape
<1>6. CarrierTypeOK'
  BY <1>0, <1>1, <1>3, <1>5 DEF CarriersIInv, CarrierTypeOK
<1>7. CarrierInv' /\ PhaseTrue'
  BY <1>0, <1>1, <1>2, <1>4 DEF CarriersIInv, CarrierInv, PhaseTrue
<1>8. NoTunnelLeft'
  BY <1>0, <1>1, <1>4 DEF CarriersIInv, NoTunnelLeft, t
<1> QED BY <1>0, <1>5, <1>6, <1>7, <1>8 DEF CarriersIInv

\* A dial that ends without a tunnel, whichever carrier had it.
LEMMA FailureKeeps ==
  ASSUME CarriersIInv, NEW l \in 1..attached, DialFails(l)
  PROVE  CarriersIInv'
<1> USE CarriersAssumption
<1>0. /\ attached \in 0..MaxAttached /\ dials \in 0..MaxDials /\ lazies \in [1..MaxAttached -> Lazies]
      /\ tunnels \in [1..MaxDials -> {"none", "up", "killed", "gone"}]
      /\ call \in [Calls -> [stage : {"idle", "waiting", "running"}, on : 0..attached, tunnel : 0..dials]]
      /\ 1..attached \subseteq 1..MaxAttached /\ 1..dials \subseteq 1..MaxDials
  BY Shapes
<1> DEFINE t == lazies[l].pending
<1>1. /\ t \in 1..dials /\ lazies[l].current = 0
      /\ lazies' = [lazies EXCEPT ![l].pending = 0, ![l].phase = "offline"]
      /\ tunnels' = Closed(tunnels, t) /\ call' = Resumed(l, "idle", 0)
      /\ UNCHANGED <<live, attached, carrier, dials, restarting, lifetime>>
  BY <1>0 DEF DialFails, CarriersIInv, CarrierInv
<1> HIDE DEF t
<1>2. t \in 0..MaxDials /\ 0 \in 0..MaxDials /\ 0 \in 0..dials /\ l \in 1..MaxAttached
  BY <1>0, <1>1
<1>3. lazies' \in [1..MaxAttached -> Lazies]
  BY <1>0, <1>1, <1>2, Edited
<1>4. /\ lazies'[l].current = 0 /\ lazies'[l].pending = 0 /\ lazies'[l].phase = "offline"
      /\ lazies'[l].disposed = lazies[l].disposed
      /\ \A k \in 1..MaxAttached : k # l => lazies'[k] = lazies[k]
  BY <1>0, <1>1, <1>2 DEF Lazies
<1>5. /\ call' \in [Calls -> [stage : {"idle", "waiting", "running"}, on : 0..attached, tunnel : 0..dials]]
      /\ CallInv' /\ WaitsForDial'
  BY <1>0, <1>1, <1>2, <1>4, ResumedShape
<1>6. /\ tunnels' \in [1..MaxDials -> {"none", "up", "killed", "gone"}]
      /\ \A u \in 1..dials : tunnels'[u] = "up" => tunnels[u] = "up" /\ u # t
  BY <1>0, <1>1 DEF Closed
<1>7. CarrierTypeOK'
  BY <1>0, <1>1, <1>3, <1>5, <1>6 DEF CarriersIInv, CarrierTypeOK
<1>8. CarrierInv' /\ PhaseTrue'
  BY <1>0, <1>1, <1>4 DEF CarriersIInv, CarrierInv, PhaseTrue
<1>9. NoTunnelLeft'
  BY <1>0, <1>1, <1>4, <1>6 DEF CarriersIInv, NoTunnelLeft, CarrierTypeOK, t
<1> QED BY <1>0, <1>5, <1>7, <1>8, <1>9 DEF CarriersIInv

\* An ssh child that ends, and the carrier that is told.
LEMMA TunnelEndKeeps ==
  ASSUME CarriersIInv, NEW t \in 1..dials, TunnelEnds(t)
  PROVE  CarriersIInv'
<1> USE CarriersAssumption
<1>0. /\ attached \in 0..MaxAttached /\ dials \in 0..MaxDials /\ lazies \in [1..MaxAttached -> Lazies]
      /\ tunnels \in [1..MaxDials -> {"none", "up", "killed", "gone"}]
      /\ call \in [Calls -> [stage : {"idle", "waiting", "running"}, on : 0..attached, tunnel : 0..dials]]
      /\ 1..attached \subseteq 1..MaxAttached /\ 1..dials \subseteq 1..MaxDials
  BY Shapes
<1>1. /\ tunnels' = [tunnels EXCEPT ![t] = "gone"]
      /\ UNCHANGED <<live, attached, carrier, dials, call, restarting, lifetime>>
  BY DEF TunnelEnds
<1>2. DOMAIN lazies = 1..MaxAttached /\ 0 \in 0..MaxDials
  BY <1>0
<1>3. ASSUME NEW k \in 1..MaxAttached
      PROVE  /\ lazies'[k] \in Lazies
             /\ \/ lazies'[k] = lazies[k] /\ lazies[k].current # t
                \/ /\ lazies[k].current = t /\ lazies'[k].current = 0 /\ lazies'[k].phase = "offline"
                   /\ lazies'[k].pending = lazies[k].pending /\ lazies'[k].disposed = lazies[k].disposed
  <2>1. lazies[k] \in Lazies
    BY <1>0
  <2>2. lazies'[k] = IF lazies[k].current = t THEN [lazies[k] EXCEPT !.current = 0, !.phase = "offline"] ELSE lazies[k]
    BY <1>2 DEF TunnelEnds
  <2>3. [lazies[k] EXCEPT !.current = 0, !.phase = "offline"] \in Lazies
    BY <1>2, <2>1, EditedRecord
  <2>4. lazies'[k] \in Lazies
    BY <2>1, <2>2, <2>3
  <2> QED BY <2>1, <2>2, <2>4 DEF Lazies
<1>4. lazies' \in [1..MaxAttached -> Lazies]
  <2>1. lazies' = [k \in 1..MaxAttached |-> lazies'[k]]
    BY <1>2 DEF TunnelEnds
  <2> QED BY <1>3, <2>1
<1>5. /\ tunnels' \in [1..MaxDials -> {"none", "up", "killed", "gone"}]
      /\ \A u \in 1..dials : tunnels'[u] = "up" => tunnels[u] = "up" /\ u # t
  BY <1>0, <1>1
<1>6. \A k \in 1..attached :
        \/ lazies'[k] = lazies[k] /\ lazies[k].current # t
        \/ /\ lazies[k].current = t /\ lazies'[k].current = 0 /\ lazies'[k].phase = "offline"
           /\ lazies'[k].pending = lazies[k].pending /\ lazies'[k].disposed = lazies[k].disposed
           /\ lazies[k].pending = 0
  <2> SUFFICES ASSUME NEW k \in 1..attached
               PROVE  \/ lazies'[k] = lazies[k] /\ lazies[k].current # t
                      \/ /\ lazies[k].current = t /\ lazies'[k].current = 0 /\ lazies'[k].phase = "offline"
                         /\ lazies'[k].pending = lazies[k].pending /\ lazies'[k].disposed = lazies[k].disposed
                         /\ lazies[k].pending = 0
    OBVIOUS
  <2>1. k \in 1..MaxAttached /\ t # 0
    BY <1>0
  <2>2. lazies[k].current = 0 \/ lazies[k].pending = 0
    BY DEF CarriersIInv, CarrierInv
  <2>3. \/ lazies'[k] = lazies[k] /\ lazies[k].current # t
        \/ /\ lazies[k].current = t /\ lazies'[k].current = 0 /\ lazies'[k].phase = "offline"
           /\ lazies'[k].pending = lazies[k].pending /\ lazies'[k].disposed = lazies[k].disposed
    BY <1>3, <2>1
  <2> QED BY <2>1, <2>2, <2>3
<1>7. /\ call' \in [Calls -> [stage : {"idle", "waiting", "running"}, on : 0..attached', tunnel : 0..dials']]
      /\ CallInv' /\ WaitsForDial'
  <2>1. \A k \in 1..attached : lazies[k].pending # 0 => lazies'[k].pending # 0
    BY <1>6
  <2>2. attached' \in Nat /\ attached' >= attached /\ dials' \in Nat /\ dials' >= dials /\ call' = call
    BY <1>0, <1>1
  <2> QED BY <2>1, <2>2, CallsRest
<1>8. CarrierTypeOK'
  BY <1>1, <1>4, <1>5, <1>7 DEF CarriersIInv, CarrierTypeOK
<1>9. CarrierInv'
  <2> SUFFICES ASSUME NEW k \in 1..attached
               PROVE  /\ lazies'[k].current \in 0..dials /\ lazies'[k].pending \in 0..dials
                      /\ lazies'[k].current = 0 \/ lazies'[k].pending = 0
                      /\ lazies'[k].disposed => lazies'[k].current = 0
                      /\ k # carrier => lazies'[k].disposed
    BY <1>1 DEF CarrierInv
  <2> QED BY <1>0, <1>6 DEF CarriersIInv, CarrierInv
<1>10. PhaseTrue'
  <2> SUFFICES ASSUME NEW k \in 1..attached
               PROVE  lazies'[k].phase = CASE lazies'[k].current # 0 -> "connected"
                        [] lazies'[k].current = 0 /\ lazies'[k].pending # 0 /\ ~lazies'[k].disposed -> "connecting"
                        [] OTHER -> "offline"
    BY <1>1 DEF PhaseTrue
  <2>1. CASE lazies'[k] = lazies[k]
    BY <2>1 DEF CarriersIInv, PhaseTrue
  <2>2. CASE lazies'[k] # lazies[k]
    <3>1. lazies'[k].current = 0 /\ lazies'[k].phase = "offline" /\ lazies'[k].pending = 0
      BY <1>6, <2>2
    <3> QED BY <3>1
  <2> QED BY <2>1, <2>2
<1>11. NoTunnelLeft'
  <2> SUFFICES ASSUME NEW u \in 1..dials, tunnels'[u] = "up"
               PROVE  carrier # 0 /\ ~lazies'[carrier].disposed
                      /\ u \in {lazies'[carrier].current, lazies'[carrier].pending}
    BY <1>1 DEF NoTunnelLeft
  <2>1. carrier # 0 /\ ~lazies[carrier].disposed /\ u \in {lazies[carrier].current, lazies[carrier].pending} /\ u # t
    BY <1>5 DEF CarriersIInv, NoTunnelLeft
  <2>2. carrier \in 1..attached
    BY <2>1 DEF CarriersIInv, CarrierTypeOK
  <2> QED BY <1>6, <2>1, <2>2
<1> QED BY <1>7, <1>8, <1>9, <1>10, <1>11 DEF CarriersIInv

\* A restart is over, and nothing came of it.
LEMMA ControlRests ==
  ASSUME CarriersIInv, UNCHANGED <<control, live, call, lifetime>>, restarting' = "no"
  PROVE  CarriersIInv'
<1>1. UNCHANGED <<live, attached, carrier, lazies, tunnels, dials, call, lifetime>>
  BY DEF control
<1>2. CarrierTypeOK'
  BY <1>1 DEF CarriersIInv, CarrierTypeOK
<1>3. CarrierInv' /\ CallInv'
  BY <1>1 DEF CarriersIInv, CarrierInv, CallInv
<1>4. NoTunnelLeft' /\ PhaseTrue' /\ WaitsForDial'
  BY <1>1 DEF CarriersIInv, NoTunnelLeft, PhaseTrue, WaitsForDial
<1> QED BY <1>2, <1>3, <1>4 DEF CarriersIInv

-----------------------------------------------------------------------------
\* Every step keeps the invariant.
LEMMA StepKeeps == ASSUME CarriersIInv, [CarriersNext]_carrierVars PROVE CarriersIInv'
<1> USE Shapes
<1>0. carrier \in 0..attached /\ live \in {"on", "off", "absent"} /\ restarting \in {"no", "on", "off"}
      /\ lifetime \in {"running", "over"}
  BY DEF CarriersIInv, CarrierTypeOK
<1>1. ASSUME NEW c \in Calls, NEW l \in 1..attached, CallStarts(c, l) PROVE CarriersIInv'
  BY <1>1, StartKeeps
<1>2. ASSUME NEW c \in Calls, CallAborts(c) \/ CallEnds(c) PROVE CarriersIInv'
  BY <1>2, EndKeeps DEF CallAborts, CallEnds
<1>3. ASSUME NEW c \in Calls, CallLosesTunnel(c) PROVE CarriersIInv'
  BY <1>3, LossKeeps
<1>4. ASSUME NEW l \in 1..attached, DialSucceeds(l) \/ DialFails(l) PROVE CarriersIInv'
  BY <1>4, SuccessKeeps, FailureKeeps
<1>5. ASSUME NEW t \in 1..dials, TunnelEnds(t) PROVE CarriersIInv'
  BY <1>5, TunnelEndKeeps
<1>6. ASSUME NEW setting \in {"on", "off", "absent"}, Hydrate(setting) PROVE CarriersIInv'
  <2>1. CASE setting = "on"
    BY <1>0, <1>6, <2>1, AttachKeeps DEF Hydrate
  <2>2. CASE setting # "on"
    BY <1>0, <1>6, <2>2, StopKeeps DEF Hydrate, Stop
  <2> QED BY <2>1, <2>2
<1>7. CASE DisconnectHost
  BY <1>0, <1>7, StopKeeps DEF DisconnectHost, Stop
<1>8. CASE Retry
  BY <1>0, <1>8, AttachAndDialKeeps DEF Retry
<1>9. CASE RestartBegins
  <2>1. /\ lazies' = StoppedLazies /\ tunnels' = StoppedTunnels /\ carrier' = 0
        /\ UNCHANGED <<live, attached, dials, call, lifetime>> /\ restarting' \in {"on", "off"}
    <3>1. RestartBegins /\ Stop
      BY <1>9 DEF RestartBegins
    <3>2. restarting' \in {"on", "off"} /\ UNCHANGED <<live, call, lifetime>>
      BY <1>0, <3>1 DEF RestartBegins
    <3> QED BY <3>1, <3>2 DEF Stop
  <2> QED BY <1>0, <2>1, StopKeeps
<1>10. CASE RestartSucceeds
  <2>1. CASE restarting = "on"
    BY <1>10, <2>1, AttachAndDialKeeps DEF RestartSucceeds
  <2>2. CASE restarting # "on" /\ carrier # 0 /\ MayDial(lazies, carrier)
    <3>1. Dial(carrier) /\ carrier \in 1..attached /\ UNCHANGED <<attached, carrier, live, call, lifetime>> /\ restarting' = "no"
      BY <1>0, <1>10, <2>2 DEF RestartSucceeds
    <3>2. /\ lazies' \in [1..MaxAttached -> Lazies] /\ dials' \in 0..MaxDials /\ dials' = dials + 1
          /\ tunnels' \in [1..MaxDials -> {"none", "up", "killed", "gone"}]
          /\ CarrierInv' /\ NoTunnelLeft' /\ PhaseTrue'
          /\ lazies'[carrier].pending # 0
          /\ \A k \in 1..attached : k # carrier => lazies'[k] = lazies[k]
      BY <2>2, <3>1, DialKeeps
    <3>3. /\ call' \in [Calls -> [stage : {"idle", "waiting", "running"}, on : 0..attached', tunnel : 0..dials']]
          /\ CallInv' /\ WaitsForDial'
      BY <3>1, <3>2, CallsRest
    <3> QED BY <1>0, <3>1, <3>2, <3>3 DEF CarriersIInv, CarrierTypeOK
  <2>3. CASE restarting # "on" /\ ~(carrier # 0 /\ MayDial(lazies, carrier))
    <3>1. UNCHANGED <<control, live, call, lifetime>> /\ restarting' = "no"
      BY <1>10, <2>3 DEF RestartSucceeds
    <3> QED BY <1>0, <3>1, ControlRests
  <2> QED BY <2>1, <2>2, <2>3
<1>11. CASE RestartFails
  <2>1. CASE restarting = "on"
    BY <1>0, <1>11, <2>1, AttachKeeps DEF RestartFails
  <2>2. CASE restarting # "on"
    <3>1. UNCHANGED <<control, live, call, lifetime>> /\ restarting' = "no"
      BY <1>11, <2>2 DEF RestartFails
    <3> QED BY <1>0, <3>1, ControlRests
  <2> QED BY <2>1, <2>2
<1>12. CASE PluginEnds
  BY <1>0, <1>12, StopKeeps DEF PluginEnds
<1>13. CASE UNCHANGED carrierVars
  BY <1>13 DEF carrierVars, CarriersIInv, CarrierTypeOK, CarrierInv, CallInv, NoTunnelLeft, PhaseTrue, WaitsForDial
<1> QED
  BY <1>1, <1>2, <1>3, <1>4, <1>5, <1>6, <1>7, <1>8, <1>9, <1>10, <1>11, <1>12, <1>13 DEF CarriersNext

-----------------------------------------------------------------------------
(* The theorems. *)

\* The invariant of carriers, tunnels and calls.
THEOREM CarriersInvariantHolds == CarriersSpec => []CarriersIInv
<1> QED BY CarriersInitially, StepKeeps, PTL DEF CarriersSpec

\* A host has one tunnel at most, over attach, stop, retry, restart and late dials
\* ("One transport generation per Host", lazy-carrier.js:2).
THEOREM OneGeneration == CarriersSpec => []OneTunnel
<1>1. CarriersIInv => OneTunnel
  BY OneOfThem
<1> QED BY CarriersInvariantHolds, <1>1, PTL

\* All that the run checks of the carriers: types, one tunnel, none left behind by a
\* carrier that is closed, a state that is shown truly, no call that waits for nothing.
THEOREM CarriersAreSound == CarriersSpec => []CarriersSound
<1>1. CarriersIInv => CarriersSound
  BY OneOfThem DEF CarriersIInv, CarriersSound
<1> QED BY CarriersInvariantHolds, <1>1, PTL

-----------------------------------------------------------------------------
(***************************************************************************)
(* A runtime is replaced by one broker, after it has answered and gone, for *)
(* any number of requests and restarts.                                    *)
(***************************************************************************)
\* A restart that is under way.
Active == {"forked", "requested", "exiting"}

\* A restart under way is the shared one; its brokers alone are uncancelled; its request
\* waits while the handshake lasts and is accepted after it.
RunInv ==
  \A r \in Runs :
    /\ run[r] \in Active => pending = r
    /\ run[r] # "none" => caller[r] \in Callers
    /\ run[r] = "none" => broker[r] = "none"
    /\ broker[r] # "none" /\ ~fork[r].cancelled => run[r] \in Active
    /\ run[r] = "forked" => phase[caller[r]] = "waiting"
    /\ run[r] \in {"requested", "exiting"} => fork[r].acknowledged /\ phase[caller[r]] = "accepted"
    /\ run[r] = "requested" => armed[r] = IF tracked THEN caller[r] ELSE Nobody
    /\ run[r] = "exiting" /\ tracked => response[caller[r]] = "finished"

\* While the runtime is there, it is stopping exactly when a restart is exiting.
ParentInv ==
  /\ parent = "running" => \A r \in Runs : run[r] # "exiting"
  /\ parent = "stopping" => \E r \in Runs : run[r] = "exiting"

\* What status() may report.
ReportOK ==
  /\ state \in {"ready", "starting", "requested", "failed"}
  /\ busy = (state \in {"starting", "requested"})
  /\ lastError \in {"none", "failed", "closed", "exit"}

RestartIInv == RestartTypeOK /\ RunInv /\ ParentInv /\ LaunchAfterExit

-----------------------------------------------------------------------------
\* The invariant implies what the run checks: a broker that is not cancelled belongs to
\* the restart under way, and there is one.
LEMMA Sound == ASSUME RestartIInv PROVE RestartSound
<1>1. OneBroker
  <2> SUFFICES ASSUME NEW r \in Runs, broker[r] # "none", ~fork[r].cancelled
               PROVE  /\ parent = "running" => pending = r
                      /\ parent = "stopping" => run[r] = "exiting" /\ fork[r].acknowledged
    BY DEF OneBroker
  <2>1. run[r] \in Active /\ pending = r
    BY DEF RestartIInv, RunInv
  <2>2. ASSUME parent = "stopping" PROVE run[r] = "exiting"
    <3>1. PICK q \in Runs : run[q] = "exiting"
      BY <2>2 DEF RestartIInv, ParentInv
    <3>2. pending = q
      BY <3>1 DEF RestartIInv, RunInv, Active
    <3> QED BY <3>1, <3>2, <2>1
  <2> QED BY <2>1, <2>2 DEF RestartIInv, RunInv
<1>2. ResponseFirst
  BY DEF RestartIInv, RunInv, ResponseFirst
<1> QED BY <1>1, <1>2 DEF RestartIInv, RestartSound

\* It holds at the start.
LEMMA RestartInitially == ASSUME RestartInit PROVE RestartIInv
<1>1. fork \in [Runs -> Forks] /\ end \in [Runs -> BrokerEnds]
  BY DEF RestartInit, Forks, BrokerEnds
<1>2. toBroker \in [Runs -> Seq(ToBroker)] /\ toParent \in [Runs -> Seq(ToParent)]
  BY DEF RestartInit
<1>3. busy = (state \in {"starting", "requested"})
  <2>1. state \notin {"starting", "requested"} /\ busy = FALSE
    BY DEF RestartInit
  <2>2. (state \in {"starting", "requested"}) = FALSE
    BY <2>1
  <2> QED BY <2>1, <2>2, Zenon
<1>4. parent \in {"running", "stopping", "gone"} /\ reused \in BOOLEAN /\ tracked \in BOOLEAN
  BY DEF RestartInit
<1>5. /\ phase \in [Callers -> {"idle", "arrived", "waiting", "accepted", "rejected"}]
      /\ response \in [Callers -> {"none", "open", "finished", "closed"}]
  BY DEF RestartInit
<1>6. pending \in 0..MaxRuns
  BY RestartAssumption DEF RestartInit
<1>7. /\ run \in [Runs -> {"none", "forked", "requested", "exiting", "failed"}]
      /\ caller \in [Runs -> Callers \cup {Nobody}] /\ armed \in [Runs -> Callers \cup {Nobody}]
      /\ broker \in [Runs -> LiveBroker \cup {"none", "launched", "ended"}]
  BY DEF RestartInit
<1>8. state \in {"ready", "starting", "requested", "failed"} /\ lastError \in {"none", "failed", "closed", "exit"}
  BY DEF RestartInit
<1>9. RestartTypeOK
  BY <1>1, <1>2, <1>3, <1>4, <1>5, <1>6, <1>7, <1>8 DEF RestartTypeOK
<1>10. RunInv /\ ParentInv /\ LaunchAfterExit
  BY DEF RestartInit, RunInv, ParentInv, LaunchAfterExit, Active
<1> QED BY <1>9, <1>10 DEF RestartIInv

-----------------------------------------------------------------------------
(* What the operations leave. *)

\* The types, one by one.
LEMMA Types ==
  ASSUME RestartIInv
  PROVE  /\ phase \in [Callers -> {"idle", "arrived", "waiting", "accepted", "rejected"}]
         /\ response \in [Callers -> {"none", "open", "finished", "closed"}]
         /\ run \in [Runs -> {"none", "forked", "requested", "exiting", "failed"}]
         /\ caller \in [Runs -> Callers \cup {Nobody}] /\ armed \in [Runs -> Callers \cup {Nobody}]
         /\ fork \in [Runs -> Forks] /\ end \in [Runs -> BrokerEnds]
         /\ broker \in [Runs -> LiveBroker \cup {"none", "launched", "ended"}]
         /\ toBroker \in [Runs -> Seq(ToBroker)] /\ toParent \in [Runs -> Seq(ToParent)]
BY DEF RestartIInv, RestartTypeOK

\* A message more is a channel.
LEMMA Sent ==
  ASSUME NEW ch \in [Runs -> Seq(ToBroker)], NEW r \in Runs, NEW m \in ToBroker
  PROVE  [ch EXCEPT ![r] = Append(@, m)] \in [Runs -> Seq(ToBroker)]
OBVIOUS

\* What is set of the runtime's end of a broker leaves an end, and those of the others.
LEMMA LinkSet ==
  ASSUME fork \in [Runs -> Forks], NEW r \in Runs, NEW b \in BOOLEAN, fork' = [fork EXCEPT ![r].link = b]
  PROVE  /\ fork' \in [Runs -> Forks]
         /\ \A q \in Runs : fork'[q].cancelled = fork[q].cancelled /\ fork'[q].acknowledged = fork[q].acknowledged
BY DEF Forks

\* The channels of some are closed.
LEMMA LinksGone ==
  ASSUME fork \in [Runs -> Forks], fork' = [r \in Runs |-> [fork[r] EXCEPT !.link = FALSE]]
  PROVE  /\ fork' \in [Runs -> Forks]
         /\ \A q \in Runs : fork'[q].cancelled = fork[q].cancelled /\ fork'[q].acknowledged = fork[q].acknowledged
<1>1. \A d \in Forks : LET z == [d EXCEPT !.link = FALSE] IN
        z \in Forks /\ z.cancelled = d.cancelled /\ z.acknowledged = d.acknowledged
  BY DEF Forks
<1>2. \A q \in Runs : fork'[q] = [fork[q] EXCEPT !.link = FALSE]
  OBVIOUS
<1>3. \A q \in Runs : fork'[q] \in Forks
  BY <1>1, <1>2
<1>4. fork' \in [Runs -> Forks]
  BY <1>3
<1> QED BY <1>1, <1>2, <1>4

LEMMA EndLinkSet ==
  ASSUME end \in [Runs -> BrokerEnds], NEW r \in Runs, NEW b \in BOOLEAN, end' = [end EXCEPT ![r].link = b]
  PROVE  end' \in [Runs -> BrokerEnds]
<1>1. \A d \in BrokerEnds : [d EXCEPT !.link = b] \in BrokerEnds
  BY DEF BrokerEnds
<1>2. end' = [end EXCEPT ![r] = [end[r] EXCEPT !.link = b]] /\ end[r] \in BrokerEnds
  OBVIOUS
<1> QED BY <1>1, <1>2

\* The broker was told to prepare.
LEMMA PreparedSet ==
  ASSUME fork \in [Runs -> Forks], NEW r \in Runs, fork' = [fork EXCEPT ![r].prepared = TRUE]
  PROVE  /\ fork' \in [Runs -> Forks]
         /\ \A q \in Runs : fork'[q].cancelled = fork[q].cancelled /\ fork'[q].acknowledged = fork[q].acknowledged
<1>1. \A d \in Forks : LET z == [d EXCEPT !.prepared = TRUE] IN
        z \in Forks /\ z.cancelled = d.cancelled /\ z.acknowledged = d.acknowledged
  BY DEF Forks
<1>2. fork'[r] = [fork[r] EXCEPT !.prepared = TRUE] /\ \A q \in Runs : q # r => fork'[q] = fork[q]
  OBVIOUS
<1>3. \A q \in Runs : fork'[q] \in Forks
  BY <1>1, <1>2
<1>4. fork' \in [Runs -> Forks]
  BY <1>3
<1> QED BY <1>1, <1>2, <1>4

\* A committed message was read.
Acknowledges(r) == fork' = [fork EXCEPT ![r].acknowledged = TRUE]

\* What is acknowledged stays acknowledged, and nothing else is touched.
LEMMA AcknowledgedSet ==
  ASSUME fork \in [Runs -> Forks], NEW r \in Runs, Acknowledges(r)
  PROVE  /\ fork' \in [Runs -> Forks] /\ fork'[r].acknowledged
         /\ \A q \in Runs : /\ fork'[q].cancelled = fork[q].cancelled
                            /\ fork[q].acknowledged => fork'[q].acknowledged
<1>1. fork' \in [Runs -> Forks]
  BY DEF Acknowledges, Forks
<1>2. fork'[r] = [fork[r] EXCEPT !.acknowledged = TRUE] /\ \A q \in Runs : q # r => fork'[q] = fork[q]
  BY DEF Acknowledges
<1>3. fork'[r].acknowledged /\ fork'[r].cancelled = fork[r].cancelled
  BY <1>2 DEF Forks
<1> QED BY <1>1, <1>2, <1>3

\* A broker that is given up is cancelled, and no other is touched.
LEMMA OverSet ==
  ASSUME fork \in [Runs -> Forks], NEW r \in Runs,
         \/ fork' = [fork EXCEPT ![r].link = FALSE, ![r].cancelled = TRUE]
         \/ fork' = [fork EXCEPT ![r].acknowledged = TRUE, ![r].cancelled = TRUE]
  PROVE  fork' \in [Runs -> Forks] /\ fork'[r].cancelled /\ \A q \in Runs : q # r => fork'[q] = fork[q]
<1>1. CASE fork' = [fork EXCEPT ![r].link = FALSE, ![r].cancelled = TRUE]
  <2>1. fork'[r] = [[fork[r] EXCEPT !.link = FALSE] EXCEPT !.cancelled = TRUE]
        /\ fork' = [q \in Runs |-> IF q = r THEN fork'[r] ELSE fork[q]]
    BY <1>1
  <2>2. fork[r] \in Forks
    OBVIOUS
  <2>3. fork'[r] \in Forks /\ fork'[r].cancelled
    BY <2>1, <2>2 DEF Forks
  <2> QED BY <2>1, <2>3
<1>2. CASE fork' = [fork EXCEPT ![r].acknowledged = TRUE, ![r].cancelled = TRUE]
  <2>1. fork'[r] = [[fork[r] EXCEPT !.acknowledged = TRUE] EXCEPT !.cancelled = TRUE]
        /\ fork' = [q \in Runs |-> IF q = r THEN fork'[r] ELSE fork[q]]
    BY <1>2
  <2>2. fork[r] \in Forks
    OBVIOUS
  <2>3. fork'[r] \in Forks /\ fork'[r].cancelled
    BY <2>1, <2>2 DEF Forks
  <2> QED BY <2>1, <2>3
<1> QED BY <1>1, <1>2

\* A broker that is cancelled stays cancelled, and no other is touched.
LEMMA CancelledKeeps ==
  ASSUME RestartIInv, NEW r \in Runs, Cancelled(r)
  PROVE  /\ fork' \in [Runs -> Forks] /\ toBroker' \in [Runs -> Seq(ToBroker)]
         /\ fork'[r].cancelled /\ \A q \in Runs : q # r => fork'[q] = fork[q]
<1>1. fork \in [Runs -> Forks] /\ toBroker \in [Runs -> Seq(ToBroker)]
  BY Types
<1>2. fork' = [fork EXCEPT ![r].cancelled = TRUE]
  BY DEF Cancelled
<1>3. fork' \in [Runs -> Forks] /\ fork'[r].cancelled /\ \A q \in Runs : q # r => fork'[q] = fork[q]
  BY <1>1, <1>2 DEF Forks
<1>4. toBroker' \in [Runs -> Seq(ToBroker)]
  BY <1>1, Sent DEF Cancelled, ToBroker
<1> QED BY <1>3, <1>4

\* What the runtime reports is what it may report.
LEMMA Reports ==
  ASSUME NEW s \in {"ready", "starting", "requested", "failed"},
         NEW e \in {"none", "failed", "closed", "exit"}, Report(s, e)
  PROVE  ReportOK'
BY DEF Report, ReportOK

\* What is not reported anew stays what may be reported.
LEMMA ReportRests == ASSUME RestartIInv, UNCHANGED reported PROVE ReportOK'
BY DEF RestartIInv, RestartTypeOK, reported, ReportOK

\* An answer for those that wait is an answer.
LEMMA ToldKeeps ==
  ASSUME RestartIInv, NEW answer \in {"accepted", "rejected"}, Told(answer)
  PROVE  /\ phase' \in [Callers -> {"idle", "arrived", "waiting", "accepted", "rejected"}]
         /\ \A c \in Callers : /\ phase[c] = "waiting" => phase'[c] = answer
                               /\ phase[c] = "accepted" => phase'[c] = "accepted"
BY Types DEF Told

\* What a broker says, while both ends of its channel are up, is a message.
LEMMA SaysKeeps ==
  ASSUME RestartIInv, NEW r \in Runs, NEW messages \in Seq(ToParent), Says(r, messages)
  PROVE  toParent' \in [Runs -> Seq(ToParent)]
<1>1. toParent \in [Runs -> Seq(ToParent)]
  BY Types
<1>2. toParent[r] \o messages \in Seq(ToParent)
  BY <1>1
<1>3. CASE end[r].link /\ fork[r].link
  BY <1>1, <1>2, <1>3 DEF Says
<1>4. CASE ~(end[r].link /\ fork[r].link)
  BY <1>1, <1>4 DEF Says
<1> QED BY <1>3, <1>4

\* A broker that is over has been one.
LEMMA OverKeeps ==
  ASSUME RestartIInv, NEW r \in Runs, broker[r] # "none",
         NEW stage \in {"launched", "ended"}, NEW messages \in Seq(ToParent),
         BrokerOver(r, stage, messages)
  PROVE  /\ toParent' \in [Runs -> Seq(ToParent)] /\ end' \in [Runs -> BrokerEnds]
         /\ broker' \in [Runs -> LiveBroker \cup {"none", "launched", "ended"}]
         /\ \A q \in Runs : broker'[q] = "none" <=> broker[q] = "none"
         /\ \A q \in Runs : broker'[q] = broker[q] \/ (q = r /\ broker'[q] = stage)
<1>1. messages \o <<"end">> \in Seq(ToParent)
  BY DEF ToParent
<1>2. toParent' \in [Runs -> Seq(ToParent)]
  BY <1>1, SaysKeeps DEF BrokerOver
<1>3. broker' = [broker EXCEPT ![r] = stage] /\ end' = [end EXCEPT ![r].link = FALSE]
  BY DEF BrokerOver
<1>4. end' \in [Runs -> BrokerEnds]
  BY <1>3, Types, EndLinkSet
<1>5. /\ broker' \in [Runs -> LiveBroker \cup {"none", "launched", "ended"}]
      /\ \A q \in Runs : broker'[q] = "none" <=> broker[q] = "none"
      /\ \A q \in Runs : broker'[q] = broker[q] \/ (q = r /\ broker'[q] = stage)
  BY <1>3, Types
<1> QED BY <1>2, <1>4, <1>5

\* A step that begins, answers and ends no restart.
LEMMA RunsRest ==
  ASSUME RestartIInv, UNCHANGED <<run, pending, caller, armed, tracked>>,
         \A r \in Runs : /\ broker'[r] = "none" <=> broker[r] = "none"
                         /\ fork[r].cancelled => fork'[r].cancelled
                         /\ fork[r].acknowledged => fork'[r].acknowledged,
         \A c \in Callers : /\ phase[c] \in {"waiting", "accepted"} => phase'[c] = phase[c]
                            /\ phase[c] = "accepted" /\ response[c] = "finished" => response'[c] = "finished"
  PROVE  RunInv'
BY DEF RestartIInv, RunInv, Active

\* The restart under way fails, and its broker is cancelled: none is under way.
LEMMA RunsEnd ==
  ASSUME RestartIInv, NEW r \in Runs, run[r] \in Active,
         run' = [run EXCEPT ![r] = "failed"], fork'[r].cancelled,
         \A q \in Runs : q # r => fork'[q] = fork[q],
         UNCHANGED <<caller, broker>>
  PROVE  /\ run' \in [Runs -> {"none", "forked", "requested", "exiting", "failed"}]
         /\ RunInv' /\ \A q \in Runs : run'[q] \notin Active
<1>1. run' \in [Runs -> {"none", "forked", "requested", "exiting", "failed"}]
  BY Types
<1>2. run'[r] = "failed" /\ \A q \in Runs : q # r => run'[q] = run[q] /\ run[q] \notin Active
  BY Types DEF RestartIInv, RunInv
<1>3. \A q \in Runs : run'[q] \notin Active
  BY <1>2 DEF Active
<1>4. RunInv'
  BY <1>2, <1>3 DEF RestartIInv, RunInv, Active
<1> QED BY <1>1, <1>3, <1>4

\* A restart that is not exiting fails while it is under way.
LEMMA FailKeeps ==
  ASSUME RestartIInv, NEW r \in Runs, run[r] \in {"forked", "requested"},
         run' = [run EXCEPT ![r] = "failed"], pending' = 0,
         fork' \in [Runs -> Forks], fork'[r].cancelled, \A q \in Runs : q # r => fork'[q] = fork[q],
         phase' \in [Callers -> {"idle", "arrived", "waiting", "accepted", "rejected"}],
         response' \in [Callers -> {"none", "open", "finished", "closed"}],
         ReportOK', toBroker' \in [Runs -> Seq(ToBroker)], toParent' \in [Runs -> Seq(ToParent)],
         UNCHANGED <<parent, reused, tracked, caller, armed, brokers>>
  PROVE  RestartIInv'
<1>1. run[r] \in Active /\ UNCHANGED <<caller, broker>>
  BY DEF Active, brokers
<1>2. /\ run' \in [Runs -> {"none", "forked", "requested", "exiting", "failed"}]
      /\ RunInv' /\ \A q \in Runs : run'[q] \notin Active
  BY <1>1, RunsEnd
<1>3. RestartTypeOK'
  <2>1. 0 \in 0..MaxRuns
    BY RestartAssumption
  <2> QED BY <1>2, <2>1 DEF RestartIInv, RestartTypeOK, ReportOK, brokers
<1>4. ParentInv'
  <2>1. ASSUME parent = "stopping" PROVE FALSE
    <3>1. PICK q \in Runs : run[q] = "exiting"
      BY <2>1 DEF RestartIInv, ParentInv
    <3> QED BY <3>1, <1>1 DEF RestartIInv, RunInv, Active
  <2> QED BY <1>2, <2>1 DEF ParentInv, Active
<1>5. LaunchAfterExit'
  BY DEF RestartIInv, LaunchAfterExit, brokers
<1> QED BY <1>2, <1>3, <1>4, <1>5 DEF RestartIInv

\* run() fails before its end: the requests are told, the broker is cancelled.
LEMMA RunFailsKeeps ==
  ASSUME RestartIInv, NEW r \in Runs, run[r] = "forked", RunFails(r),
         UNCHANGED <<parent, reused, tracked, response, caller, brokers>>,
         toParent' \in [Runs -> Seq(ToParent)]
  PROVE  RestartIInv'
<1>1. /\ fork' \in [Runs -> Forks] /\ toBroker' \in [Runs -> Seq(ToBroker)]
      /\ fork'[r].cancelled /\ \A q \in Runs : q # r => fork'[q] = fork[q]
  BY CancelledKeeps DEF RunFails
<1>2. ReportOK'
  BY Reports DEF RunFails
<1>3. phase' \in [Callers -> {"idle", "arrived", "waiting", "accepted", "rejected"}]
  BY ToldKeeps DEF RunFails
<1>4. response' \in [Callers -> {"none", "open", "finished", "closed"}]
  BY Types
<1>5. run' = [run EXCEPT ![r] = "failed"] /\ pending' = 0 /\ UNCHANGED armed
  BY DEF RunFails
<1> QED BY <1>1, <1>2, <1>3, <1>4, <1>5, FailKeeps

\* A step of the runtime or of a request that leaves the restarts and the brokers alone.
LEMMA RestKeeps ==
  ASSUME RestartIInv, UNCHANGED <<parent, tracked, run, pending, caller, armed, reported, brokers>>, reused' \in BOOLEAN,
         phase' \in [Callers -> {"idle", "arrived", "waiting", "accepted", "rejected"}],
         response' \in [Callers -> {"none", "open", "finished", "closed"}],
         \A c \in Callers : /\ phase[c] \in {"waiting", "accepted"} => phase'[c] = phase[c]
                            /\ phase[c] = "accepted" /\ response[c] = "finished" => response'[c] = "finished",
         fork' \in [Runs -> Forks],
         \A q \in Runs : /\ fork[q].cancelled => fork'[q].cancelled
                         /\ fork[q].acknowledged => fork'[q].acknowledged,
         toBroker' \in [Runs -> Seq(ToBroker)], toParent' \in [Runs -> Seq(ToParent)]
  PROVE  RestartIInv'
<1>1. RunInv'
  BY RunsRest DEF brokers
<1>2. ReportOK'
  BY ReportRests
<1>3. RestartTypeOK'
  BY <1>2 DEF RestartIInv, RestartTypeOK, ReportOK, brokers
<1>4. ParentInv' /\ LaunchAfterExit'
  BY DEF RestartIInv, ParentInv, LaunchAfterExit, brokers
<1> QED BY <1>1, <1>3, <1>4 DEF RestartIInv

-----------------------------------------------------------------------------
(* The steps of requests. *)

\* Each step of a request keeps the invariant.
LEMMA ArriveKeeps == ASSUME RestartIInv, NEW c \in Callers, Arrive(c) PROVE RestartIInv'
<1>1. UNCHANGED <<parent, tracked, run, pending, caller, armed, reported, brokers, reused, fork, toBroker, toParent>>
  BY DEF Arrive, restart, wires
<1>2. /\ phase' \in [Callers -> {"idle", "arrived", "waiting", "accepted", "rejected"}]
      /\ response' \in [Callers -> {"none", "open", "finished", "closed"}]
      /\ \A d \in Callers : phase[d] \in {"waiting", "accepted"} => phase'[d] = phase[d]
  BY Types DEF Arrive
<1>3. ASSUME NEW d \in Callers, phase[d] = "accepted" PROVE response'[d] = response[d]
  BY <1>3, Types DEF Arrive
<1> QED BY <1>1, <1>2, <1>3, Types, RestKeeps DEF RestartIInv, RestartTypeOK

\* A request that joins a restart is told what the others were told.
LEMMA ShareKeeps == ASSUME RestartIInv, NEW c \in Callers, Share(c) PROVE RestartIInv'
<1>1. UNCHANGED <<parent, tracked, run, pending, caller, armed, reported, brokers, reused, response, fork, toBroker, toParent>>
  BY DEF Share, restart, wires
<1>2. /\ phase' \in [Callers -> {"idle", "arrived", "waiting", "accepted", "rejected"}]
      /\ \A d \in Callers : phase[d] \in {"waiting", "accepted"} => phase'[d] = phase[d]
  BY Types DEF Share
<1> QED BY <1>1, <1>2, Types, RestKeeps DEF RestartIInv, RestartTypeOK

\* A restart begins only when none is under way; the next free name is its own.
LEMMA NextIsFree == ASSUME Fresh PROVE NextRun \in Runs /\ run[NextRun] = "none"
BY DEF Fresh, NextRun

\* Without a shared restart none is under way, and the runtime does not stop.
LEMMA NoneActive ==
  ASSUME RestartIInv, pending = 0
  PROVE  parent # "stopping" /\ \A r \in Runs : run[r] \notin Active
<1>1. 0 \notin Runs
  BY RestartAssumption DEF Runs
<1>2. \A r \in Runs : run[r] \notin Active
  BY <1>1 DEF RestartIInv, RunInv
<1> QED BY <1>2 DEF RestartIInv, ParentInv, Active

\* A restart that begins is the only one under way.
LEMMA BeginKeeps == ASSUME RestartIInv, NEW c \in Callers, Begin(c) PROVE RestartIInv'
<1> DEFINE r == NextRun
<1>1. r \in Runs /\ run[r] = "none" /\ pending = 0
  BY NextIsFree DEF Begin
<1>2. parent # "stopping" /\ \A q \in Runs : run[q] \notin Active
  BY <1>1, NoneActive
<1>3. /\ run' = [run EXCEPT ![r] = "forked"] /\ caller' = [caller EXCEPT ![r] = c]
      /\ fork' = [fork EXCEPT ![r].link = TRUE] /\ broker' = [broker EXCEPT ![r] = "starting"]
      /\ end' = [end EXCEPT ![r].link = TRUE] /\ phase' = [phase EXCEPT ![c] = "waiting"]
      /\ pending' = r
      /\ UNCHANGED <<parent, reused, tracked, response, armed, toBroker, toParent>>
  BY DEF Begin, wires
<1>4. ReportOK'
  BY Reports DEF Begin
<1> HIDE DEF r
<1>5. fork' \in [Runs -> Forks] /\ end' \in [Runs -> BrokerEnds] /\ \A q \in Runs : fork'[q].cancelled = fork[q].cancelled
  <2>1. end' \in [Runs -> BrokerEnds]
    BY <1>1, <1>3, Types, EndLinkSet
  <2> QED BY <2>1, <1>1, <1>3, Types, LinkSet
<1>6. /\ run' \in [Runs -> {"none", "forked", "requested", "exiting", "failed"}]
      /\ caller' \in [Runs -> Callers \cup {Nobody}]
      /\ broker' \in [Runs -> LiveBroker \cup {"none", "launched", "ended"}]
      /\ phase' \in [Callers -> {"idle", "arrived", "waiting", "accepted", "rejected"}]
  BY <1>1, <1>3, Types DEF LiveBroker
<1>7. /\ run'[r] = "forked" /\ caller'[r] = c /\ phase'[c] = "waiting"
      /\ \A q \in Runs : q # r => run'[q] = run[q] /\ caller'[q] = caller[q] /\ broker'[q] = broker[q]
  BY <1>1, <1>3, Types
<1>8. RestartTypeOK'
  <2>1. pending' \in 0..MaxRuns
    BY <1>1, <1>3, RestartAssumption DEF Runs
  <2> QED BY <1>3, <1>4, <1>5, <1>6, <2>1 DEF RestartIInv, RestartTypeOK, ReportOK
<1>9. RunInv'
  <2> SUFFICES ASSUME NEW q \in Runs
               PROVE  /\ run'[q] \in Active => pending' = q
                      /\ run'[q] # "none" => caller'[q] \in Callers
                      /\ run'[q] = "none" => broker'[q] = "none"
                      /\ broker'[q] # "none" /\ ~fork'[q].cancelled => run'[q] \in Active
                      /\ run'[q] = "forked" => phase'[caller'[q]] = "waiting"
                      /\ run'[q] \notin {"requested", "exiting"}
    BY DEF RunInv
  <2>1. CASE q = r
    BY <2>1, <1>3, <1>7 DEF Active
  <2>2. CASE q # r
    BY <2>2, <1>2, <1>5, <1>7 DEF RestartIInv, RunInv, Active
  <2> QED BY <2>1, <2>2
<1>10. ParentInv' /\ LaunchAfterExit'
  <2>1. \A q \in Runs : run'[q] # "exiting"
    BY <1>2, <1>7 DEF Active
  <2>2. broker'[r] = "starting" 
    BY <1>1, <1>3, Types
  <2> QED BY <2>1, <2>2, <1>2, <1>3, <1>7 DEF RestartIInv, ParentInv, LaunchAfterExit
<1> QED BY <1>8, <1>9, <1>10 DEF RestartIInv

\* A restart that fails before its fork leaves none under way.
LEMMA BeginFailsKeeps == ASSUME RestartIInv, NEW c \in Callers, BeginFails(c) PROVE RestartIInv'
<1> DEFINE r == NextRun
<1>1. r \in Runs /\ run[r] = "none" /\ pending = 0
  BY NextIsFree DEF BeginFails
<1>2. parent # "stopping" /\ \A q \in Runs : run[q] \notin Active
  BY <1>1, NoneActive
<1>3. /\ run' = [run EXCEPT ![r] = "failed"] /\ caller' = [caller EXCEPT ![r] = c]
      /\ phase' = [phase EXCEPT ![c] = "rejected"] /\ pending' = r
      /\ UNCHANGED <<parent, reused, tracked, response, armed, fork, broker, end, toBroker, toParent>>
  BY DEF BeginFails, wires, brokers
<1>4. ReportOK'
  BY Reports DEF BeginFails
<1> HIDE DEF r
<1>5. /\ run' \in [Runs -> {"none", "forked", "requested", "exiting", "failed"}]
      /\ caller' \in [Runs -> Callers \cup {Nobody}]
      /\ phase' \in [Callers -> {"idle", "arrived", "waiting", "accepted", "rejected"}]
  BY <1>1, <1>3, Types
<1>6. /\ run'[r] = "failed" /\ caller'[r] = c
      /\ \A q \in Runs : q # r => run'[q] = run[q] /\ caller'[q] = caller[q]
  BY <1>1, <1>3, Types
<1>7. RestartTypeOK'
  <2>1. pending' \in 0..MaxRuns
    BY <1>1, <1>3, RestartAssumption DEF Runs
  <2> QED BY <1>3, <1>4, <1>5, <2>1 DEF RestartIInv, RestartTypeOK, ReportOK
<1>8. RunInv'
  <2> SUFFICES ASSUME NEW q \in Runs
               PROVE  /\ run'[q] \notin Active
                      /\ run'[q] # "none" => caller'[q] \in Callers
                      /\ run'[q] = "none" => broker'[q] = "none"
                      /\ broker'[q] = "none" \/ fork'[q].cancelled
    BY DEF RunInv, Active
  <2>1. CASE q = r
    BY <2>1, <1>1, <1>3, <1>6 DEF RestartIInv, RunInv, Active
  <2>2. CASE q # r
    BY <2>2, <1>2, <1>3, <1>6 DEF RestartIInv, RunInv
  <2> QED BY <2>1, <2>2
<1>9. ParentInv' /\ LaunchAfterExit'
  BY <1>2, <1>3, <1>6 DEF RestartIInv, ParentInv, LaunchAfterExit, Active
<1> QED BY <1>7, <1>8, <1>9 DEF RestartIInv

-----------------------------------------------------------------------------
(* The steps of the runtime. *)

\* The broker is told to prepare, or the restart fails before.
LEMMA PrepareKeeps == ASSUME RestartIInv, NEW r \in Runs, Prepare(r) PROVE RestartIInv'
<1>1. CASE run[r] = "forked" /\ RunFails(r)
  BY <1>1, Types, RunFailsKeeps DEF Prepare
<1>2. CASE /\ fork' = [fork EXCEPT ![r].prepared = TRUE]
           /\ toBroker' = [toBroker EXCEPT ![r] = Append(@, "prepare")]
           /\ UNCHANGED <<run, pending, armed, reported, phase>>
  <2>1. UNCHANGED <<parent, tracked, run, pending, caller, armed, reported, brokers, reused, phase, response, toParent>>
    BY <1>2 DEF Prepare
  <2>2. /\ fork' \in [Runs -> Forks]
        /\ \A q \in Runs : /\ fork[q].cancelled => fork'[q].cancelled
                           /\ fork[q].acknowledged => fork'[q].acknowledged
    BY <1>2, Types, PreparedSet
  <2>3. toBroker' \in [Runs -> Seq(ToBroker)]
    BY <1>2, Types, Sent DEF ToBroker
  <2> QED BY <2>1, <2>2, <2>3, Types, RestKeeps DEF RestartIInv, RestartTypeOK
<1> QED BY <1>1, <1>2 DEF Prepare

\* The channel of a cancelled broker is closed.
LEMMA DisconnectKeeps == ASSUME RestartIInv, NEW r \in Runs, Disconnect(r) PROVE RestartIInv'
<1>1. UNCHANGED <<parent, tracked, run, pending, caller, armed, reported, brokers, reused, phase, response>>
  BY DEF Disconnect, restart, requests
<1>2. /\ fork' \in [Runs -> Forks]
      /\ \A q \in Runs : /\ fork[q].cancelled => fork'[q].cancelled
                         /\ fork[q].acknowledged => fork'[q].acknowledged
  BY Types, LinkSet DEF Disconnect
<1>3. toBroker' \in [Runs -> Seq(ToBroker)] /\ toParent' \in [Runs -> Seq(ToParent)]
  <2>1. toBroker' \in [Runs -> Seq(ToBroker)]
    BY Types, Sent DEF Disconnect, ToBroker
  <2>2. toParent' \in [Runs -> Seq(ToParent)]
    BY Types DEF Disconnect
  <2> QED BY <2>1, <2>2
<1> QED BY <1>1, <1>2, <1>3, Types, RestKeeps DEF RestartIInv, RestartTypeOK

\* The handshake is complete: every request of the restart is accepted, the one that
\* began it among them, and the exit waits for the response of that one.
LEMMA CommittedKeeps ==
  ASSUME RestartIInv, NEW r \in Runs, Committed(r), toParent' \in [Runs -> Seq(ToParent)],
         UNCHANGED <<parent, reused, tracked, response, caller, brokers>>
  PROVE  RestartIInv'
<1>1. /\ run[r] = "forked" /\ run' = [run EXCEPT ![r] = "requested"]
      /\ fork' = [fork EXCEPT ![r].acknowledged = TRUE] /\ UNCHANGED <<pending, toBroker>>
      /\ UNCHANGED <<caller, broker, end>>
  BY DEF Committed, brokers
<1>2. /\ caller[r] \in Callers /\ phase[caller[r]] = "waiting" /\ pending = r
      /\ \A q \in Runs : q # r => run[q] \notin Active
  BY <1>1 DEF RestartIInv, RunInv, Active
<1>3. /\ phase' \in [Callers -> {"idle", "arrived", "waiting", "accepted", "rejected"}]
      /\ phase'[caller[r]] = "accepted"
  BY <1>2, ToldKeeps DEF Committed
<1>4. /\ armed' \in [Runs -> Callers \cup {Nobody}]
      /\ armed'[r] = IF tracked THEN caller[r] ELSE Nobody
  <2>1. PICK c \in IF tracked THEN Claim(r) ELSE {Nobody} : armed' = [armed EXCEPT ![r] = c]
    BY DEF Committed
  <2>2. c = IF tracked THEN caller[r] ELSE Nobody
    BY <2>1 DEF Claim
  <2> QED BY <1>2, <2>1, <2>2, Types
<1>5. ReportOK'
  BY Reports DEF Committed, RestartIInv, RestartTypeOK
<1>6. /\ fork' \in [Runs -> Forks] /\ fork'[r].acknowledged
      /\ \A q \in Runs : fork'[q].cancelled = fork[q].cancelled
  <2>1. fork \in [Runs -> Forks]
    BY Types
  <2>2. Acknowledges(r)
    BY <1>1 DEF Acknowledges
  <2> QED BY <2>1, <2>2, AcknowledgedSet
<1>7. /\ run' \in [Runs -> {"none", "forked", "requested", "exiting", "failed"}]
      /\ run'[r] = "requested" /\ \A q \in Runs : q # r => run'[q] = run[q]
  BY <1>1, Types
<1>8. RestartTypeOK'
  BY <1>1, <1>3, <1>4, <1>5, <1>6, <1>7 DEF RestartIInv, RestartTypeOK, ReportOK
<1>9. RunInv'
  <2> SUFFICES ASSUME NEW q \in Runs
               PROVE  /\ run'[q] \in Active => q = r
                      /\ run'[q] # "none" => caller'[q] \in Callers
                      /\ run'[q] = "none" => broker'[q] = "none"
                      /\ broker'[q] # "none" /\ ~fork'[q].cancelled => run'[q] \in Active
    BY <1>1, <1>2, <1>3, <1>4, <1>6, <1>7 DEF RunInv, Active
  <2>1. CASE q = r
    BY <2>1, <1>1, <1>2, <1>7 DEF Active
  <2>2. CASE q # r
    BY <2>2, <1>1, <1>2, <1>6, <1>7 DEF RestartIInv, RunInv
  <2> QED BY <2>1, <2>2
<1>10. ParentInv' /\ LaunchAfterExit'
  BY <1>1, <1>2, <1>7 DEF RestartIInv, ParentInv, LaunchAfterExit, Active
<1> QED BY <1>8, <1>9, <1>10 DEF RestartIInv

\* The runtime reads a message.
LEMMA ParentReadsKeeps == ASSUME RestartIInv, NEW r \in Runs, ParentReads(r) PROVE RestartIInv'
<1> DEFINE m == Head(toParent[r])
<1>1. UNCHANGED <<parent, reused, tracked, response, caller, brokers>>
  BY DEF ParentReads
<1>2. toParent' \in [Runs -> Seq(ToParent)]
  <2>1. toParent \in [Runs -> Seq(ToParent)] /\ toParent[r] # <<>>
        /\ toParent' = [toParent EXCEPT ![r] = Tail(@)]
    BY Types DEF ParentReads
  <2>2. Tail(toParent[r]) \in Seq(ToParent)
    BY <2>1
  <2> QED BY <2>1, <2>2
<1>3. CASE m = "ready" /\ toBroker' = [toBroker EXCEPT ![r] = Append(@, "commit")]
           /\ UNCHANGED <<run, pending, armed, reported, phase, fork>>
  <2>1. toBroker' \in [Runs -> Seq(ToBroker)]
    BY <1>3, Types, Sent DEF ToBroker
  <2> QED BY <1>1, <1>2, <1>3, <2>1, Types, RestKeeps DEF RestartIInv, RestartTypeOK
<1>4. CASE Committed(r)
  BY <1>1, <1>2, <1>4, CommittedKeeps
<1>5. CASE CommittedForNobody(r)
  <2>1. /\ run[r] = "forked" /\ run' = [run EXCEPT ![r] = "failed"] /\ pending' = 0 /\ UNCHANGED armed
        /\ fork' = [fork EXCEPT ![r].acknowledged = TRUE, ![r].cancelled = TRUE]
        /\ toBroker' = [toBroker EXCEPT ![r] = Append(@, "cancel")]
    BY <1>5 DEF CommittedForNobody
  <2>2. ReportOK'
    BY <1>5, Reports DEF CommittedForNobody
  <2>3. phase' \in [Callers -> {"idle", "arrived", "waiting", "accepted", "rejected"}]
    BY <1>5, ToldKeeps DEF CommittedForNobody
  <2>4. /\ fork' \in [Runs -> Forks] /\ fork'[r].cancelled
        /\ \A q \in Runs : q # r => fork'[q] = fork[q]
    BY <2>1, Types, OverSet
  <2>5. toBroker' \in [Runs -> Seq(ToBroker)]
    BY <2>1, Types, Sent DEF ToBroker
  <2> QED BY <1>1, <1>2, <2>1, <2>2, <2>3, <2>4, <2>5, Types, FailKeeps
<1>6. CASE fork' = [fork EXCEPT ![r].acknowledged = TRUE] /\ UNCHANGED <<run, pending, armed, reported, phase, toBroker>>
  <2>1. /\ fork' \in [Runs -> Forks]
        /\ \A q \in Runs : /\ fork[q].cancelled => fork'[q].cancelled
                           /\ fork[q].acknowledged => fork'[q].acknowledged
    <3>1. fork \in [Runs -> Forks]
      BY Types
    <3>2. Acknowledges(r)
      BY <1>6 DEF Acknowledges
    <3> QED BY <3>1, <3>2, AcknowledgedSet
  <2> QED BY <1>1, <1>2, <1>6, <2>1, Types, RestKeeps DEF RestartIInv, RestartTypeOK
<1>7. CASE run[r] = "forked" /\ RunFails(r)
  BY <1>1, <1>2, <1>7, RunFailsKeeps
<1>8. CASE /\ run[r] = "forked" /\ run' = [run EXCEPT ![r] = "failed"] /\ pending' = 0 /\ armed' = armed
           /\ Report("failed", "failed") /\ Told("rejected")
           /\ fork' = [fork EXCEPT ![r].link = FALSE, ![r].cancelled = TRUE]
           /\ UNCHANGED toBroker
  <2>1. ReportOK'
    BY <1>8, Reports
  <2>2. phase' \in [Callers -> {"idle", "arrived", "waiting", "accepted", "rejected"}]
    BY <1>8, ToldKeeps
  <2>3. /\ fork' \in [Runs -> Forks] /\ fork'[r].cancelled
        /\ \A q \in Runs : q # r => fork'[q] = fork[q]
    BY <1>8, Types, OverSet
  <2> QED BY <1>1, <1>2, <1>8, <2>1, <2>2, <2>3, Types, FailKeeps
<1>9. CASE /\ fork' = [fork EXCEPT ![r].link = @ /\ m # "end"]
           /\ UNCHANGED <<run, pending, armed, reported, phase, toBroker>>
  <2>1. /\ fork' \in [Runs -> Forks]
        /\ \A q \in Runs : /\ fork[q].cancelled => fork'[q].cancelled
                           /\ fork[q].acknowledged => fork'[q].acknowledged
    <3>1. fork[r].link \in BOOLEAN
      BY Types DEF Forks
    <3>2. (fork[r].link /\ m # "end") \in BOOLEAN
      BY <3>1
    <3> QED BY <1>9, <3>2, Types, LinkSet
  <2> QED BY <1>1, <1>2, <1>9, <2>1, Types, RestKeeps DEF RestartIInv, RestartTypeOK
<1> QED BY <1>3, <1>4, <1>5, <1>6, <1>7, <1>8, <1>9 DEF ParentReads

\* The ready timer ends a restart like any other failure.
LEMMA ReadyTimeoutKeeps == ASSUME RestartIInv, NEW r \in Runs, ReadyTimeout(r) PROVE RestartIInv'
BY Types, RunFailsKeeps DEF ReadyTimeout, RunFails, wires

\* The exit, when the request that began the restart has had its answer sent, or the
\* timer of a runtime that cannot know; or appExit throws.
LEMMA FinishExitKeeps ==
  ASSUME RestartIInv, NEW r \in Runs, run[r] = "requested", parent # "gone", FinishExit(r),
         UNCHANGED <<reused, tracked, phase, caller, armed, brokers, toParent>>,
         response' \in [Callers -> {"none", "open", "finished", "closed"}],
         \A c \in Callers : response[c] = "finished" => response'[c] = "finished",
         tracked => response'[caller[r]] = "finished"
  PROVE  RestartIInv'
<1>1. /\ run[r] \in Active /\ pending = r /\ caller[r] \in Callers
      /\ \A q \in Runs : q # r => run[q] \notin Active
  BY DEF RestartIInv, RunInv, Active
<1>2. CASE /\ run' = [run EXCEPT ![r] = "exiting"] /\ parent' = "stopping"
           /\ fork' = [fork EXCEPT ![r].link = FALSE]
           /\ toBroker' = IF fork[r].link THEN [toBroker EXCEPT ![r] = Append(@, "end")] ELSE toBroker
           /\ UNCHANGED <<pending, reported>>
  <2>1. /\ fork' \in [Runs -> Forks]
        /\ \A q \in Runs : fork'[q].cancelled = fork[q].cancelled /\ fork'[q].acknowledged = fork[q].acknowledged
    BY <1>2, Types, LinkSet
  <2>2. toBroker' \in [Runs -> Seq(ToBroker)]
    BY <1>2, Types, Sent DEF ToBroker
  <2>3. /\ run' \in [Runs -> {"none", "forked", "requested", "exiting", "failed"}]
        /\ run'[r] = "exiting" /\ \A q \in Runs : q # r => run'[q] = run[q]
    BY <1>2, Types
  <2>4. ReportOK'
    BY <1>2, ReportRests
  <2>5. RestartTypeOK'
    BY <1>2, <2>1, <2>2, <2>3, <2>4 DEF RestartIInv, RestartTypeOK, ReportOK, brokers
  <2>6. RunInv'
    <3> SUFFICES ASSUME NEW q \in Runs
                 PROVE  /\ run'[q] \in Active => q = r
                        /\ run'[q] # "none" => caller[q] \in Callers
                        /\ run'[q] = "none" => broker[q] = "none"
                        /\ broker[q] # "none" /\ ~fork[q].cancelled => run'[q] \in Active
                        /\ q = r => fork[q].acknowledged /\ phase[caller[q]] = "accepted"
      BY <1>1, <1>2, <2>1, <2>3 DEF RunInv, Active, brokers
    <3>1. CASE q = r
      BY <3>1, <1>1, <2>3 DEF RestartIInv, RunInv, Active
    <3>2. CASE q # r
      BY <3>2, <1>1, <2>3 DEF RestartIInv, RunInv
    <3> QED BY <3>1, <3>2
  <2>7. ParentInv'
    BY <1>2, <2>3 DEF ParentInv
  <2>8. LaunchAfterExit'
    BY DEF RestartIInv, LaunchAfterExit, brokers
  <2> QED BY <2>5, <2>6, <2>7, <2>8 DEF RestartIInv
<1>3. CASE /\ run' = [run EXCEPT ![r] = "failed"] /\ pending' = 0
           /\ Report("failed", "exit")
           /\ Cancelled(r)
           /\ UNCHANGED parent
  <2>1. /\ fork' \in [Runs -> Forks] /\ toBroker' \in [Runs -> Seq(ToBroker)]
        /\ fork'[r].cancelled /\ \A q \in Runs : q # r => fork'[q] = fork[q]
    BY <1>3, CancelledKeeps
  <2>2. ReportOK'
    BY <1>3, Reports
  <2> QED BY <1>3, <2>1, <2>2, Types, FailKeeps
<1> QED BY <1>2, <1>3 DEF FinishExit

\* A response that is over stays over, and the others are as they were.
LEMMA OverResponse ==
  ASSUME RestartIInv, NEW c \in Callers, response[c] = "open", NEW how \in {"finished", "closed"}, Over(c, how)
  PROVE  /\ response' \in [Callers -> {"none", "open", "finished", "closed"}] /\ response'[c] = how
         /\ \A d \in Callers : response[d] = "finished" => response'[d] = "finished"
BY Types DEF Over

\* A response that was sent lets the exit of its restart go on.
LEMMA FinishKeeps == ASSUME RestartIInv, NEW c \in Callers, Finish(c) PROVE RestartIInv'
<1>1. /\ response' \in [Callers -> {"none", "open", "finished", "closed"}] /\ response'[c] = "finished"
      /\ \A d \in Callers : response[d] = "finished" => response'[d] = "finished"
  BY OverResponse DEF Finish
<1>2. UNCHANGED <<reused, tracked, phase, caller, armed, brokers, toParent>> /\ parent # "gone"
  BY DEF Finish
<1>3. CASE \E r \in Waiting(c) : FinishExit(r)
  <2>1. PICK r \in Waiting(c) : FinishExit(r)
    BY <1>3
  <2>2. r \in Runs /\ run[r] = "requested" /\ armed[r] = c
    BY <2>1 DEF Waiting
  <2>3. tracked => caller[r] = c
    BY <2>2 DEF RestartIInv, RunInv
  <2> QED BY <1>1, <1>2, <2>1, <2>2, <2>3, FinishExitKeeps
<1>4. CASE UNCHANGED <<run, pending, reported, parent, fork, toBroker>>
  BY <1>1, <1>2, <1>4, Types, RestKeeps DEF RestartIInv, RestartTypeOK
<1> QED BY <1>3, <1>4 DEF Finish

\* A response that was not sent withdraws its restart.
LEMMA CloseKeeps == ASSUME RestartIInv, NEW c \in Callers, Close(c) PROVE RestartIInv'
<1>1. /\ response' \in [Callers -> {"none", "open", "finished", "closed"}]
      /\ \A d \in Callers : response[d] = "finished" => response'[d] = "finished"
  BY OverResponse DEF Close
<1>2. UNCHANGED <<parent, reused, tracked, phase, caller, armed, brokers, toParent>>
  BY DEF Close
<1>3. CASE \E r \in Waiting(c) : Withdrawn(r)
  <2>1. PICK r \in Waiting(c) : Withdrawn(r)
    BY <1>3
  <2>2. r \in Runs /\ run[r] = "requested"
    BY <2>1 DEF Waiting
  <2>3. /\ fork' \in [Runs -> Forks] /\ toBroker' \in [Runs -> Seq(ToBroker)]
        /\ fork'[r].cancelled /\ \A q \in Runs : q # r => fork'[q] = fork[q]
    BY <2>1, <2>2, CancelledKeeps DEF Withdrawn
  <2>4. ReportOK' /\ run' = [run EXCEPT ![r] = "failed"] /\ pending' = 0
    BY <2>1, Reports DEF Withdrawn
  <2> QED BY <1>1, <1>2, <2>2, <2>3, <2>4, Types, FailKeeps
<1>4. CASE UNCHANGED <<run, pending, reported, fork, toBroker>>
  BY <1>1, <1>2, <1>4, Types, RestKeeps DEF RestartIInv, RestartTypeOK
<1> QED BY <1>3, <1>4 DEF Close

\* The timer is armed only where responses cannot be observed.
LEMMA TimerKeeps == ASSUME RestartIInv, NEW r \in Runs, Timer(r) PROVE RestartIInv'
<1>1. run[r] = "requested" /\ armed[r] = Nobody /\ parent # "gone"
  BY DEF Timer
<1>2. ~tracked
  BY <1>1, RestartAssumption DEF RestartIInv, RunInv
<1>3. UNCHANGED <<reused, tracked, phase, response, caller, armed, brokers, toParent>> /\ FinishExit(r)
  BY DEF Timer, requests
<1> QED BY <1>1, <1>2, <1>3, Types, FinishExitKeeps

\* The process ends, and with it whatever it held.
LEMMA ProcessExitsKeeps == ASSUME RestartIInv, ProcessExits PROVE RestartIInv'
<1>1. /\ parent' = "gone"
      /\ UNCHANGED <<reused, tracked, phase, run, pending, caller, armed, reported, brokers>>
  BY DEF ProcessExits, restart
<1>2. /\ fork' \in [Runs -> Forks]
      /\ \A q \in Runs : fork'[q].cancelled = fork[q].cancelled /\ fork'[q].acknowledged = fork[q].acknowledged
  BY Types, LinksGone DEF ProcessExits
<1>3. toBroker' \in [Runs -> Seq(ToBroker)]
  <2>1. \A r \in Runs : toBroker[r] \in Seq(ToBroker) /\ Append(toBroker[r], "end") \in Seq(ToBroker)
    BY Types DEF ToBroker
  <2> QED BY <2>1 DEF ProcessExits
<1>4. toParent' \in [Runs -> Seq(ToParent)]
  BY DEF ProcessExits
<1>5. /\ response' \in [Callers -> {"none", "open", "finished", "closed"}]
      /\ \A c \in Callers : response[c] = "finished" => response'[c] = "finished"
  BY Types DEF ProcessExits
<1>6. RunInv'
  BY <1>1, <1>2, <1>5, RunsRest DEF brokers
<1>7. RestartTypeOK'
  <2>1. ReportOK'
    BY <1>1, ReportRests
  <2> QED BY <1>1, <1>2, <1>3, <1>4, <1>5, <2>1 DEF RestartIInv, RestartTypeOK, ReportOK, brokers
<1>8. ParentInv' /\ LaunchAfterExit'
  BY <1>1 DEF ParentInv, LaunchAfterExit
<1> QED BY <1>6, <1>7, <1>8 DEF RestartIInv

\* The process number means nothing to the invariant.
LEMMA NumberReusedKeeps == ASSUME RestartIInv, NumberReused PROVE RestartIInv'
BY Types, RestKeeps DEF NumberReused, requests, restart, wires, RestartIInv, RestartTypeOK

-----------------------------------------------------------------------------
(* The steps of brokers. *)

\* A broker's step touches its own end and its state, and starts no launch.
LEMMA BrokerKeeps ==
  ASSUME RestartIInv, UNCHANGED <<parent, reused, tracked, requests, restart, fork>>,
         broker' \in [Runs -> LiveBroker \cup {"none", "launched", "ended"}],
         end' \in [Runs -> BrokerEnds],
         toBroker' \in [Runs -> Seq(ToBroker)], toParent' \in [Runs -> Seq(ToParent)],
         \A q \in Runs : /\ broker'[q] = "none" <=> broker[q] = "none"
                         /\ broker'[q] \in {"launching", "launched"}
                              => broker[q] \in {"launching", "launched"} \/ parent = "gone"
  PROVE  RestartIInv'
<1>1. UNCHANGED <<parent, reused, tracked, phase, response, pending, run, caller, armed, reported, fork>>
  BY DEF requests, restart
<1>2. RunInv'
  BY <1>1, RunsRest
<1>3. RestartTypeOK'
  <2>1. ReportOK'
    BY <1>1, ReportRests
  <2> QED BY <1>1, <2>1 DEF RestartIInv, RestartTypeOK, ReportOK
<1>4. ParentInv' /\ LaunchAfterExit'
  BY <1>1 DEF RestartIInv, ParentInv, LaunchAfterExit
<1> QED BY <1>2, <1>3, <1>4 DEF RestartIInv

\* A broker that ends, alone or after it has said why.
LEMMA EndedKeeps ==
  ASSUME RestartIInv, NEW r \in Runs, broker[r] \in LiveBroker,
         NEW stage \in {"launched", "ended"}, stage = "launched" => broker[r] = "launching",
         NEW messages \in Seq(ToParent), BrokerOver(r, stage, messages),
         toBroker' \in [Runs -> Seq(ToBroker)],
         UNCHANGED <<parent, reused, tracked, requests, restart, fork>>
  PROVE  RestartIInv'
<1>1. broker[r] # "none"
  BY DEF LiveBroker
<1>2. /\ toParent' \in [Runs -> Seq(ToParent)] /\ end' \in [Runs -> BrokerEnds]
      /\ broker' \in [Runs -> LiveBroker \cup {"none", "launched", "ended"}]
      /\ \A q \in Runs : broker'[q] = "none" <=> broker[q] = "none"
      /\ \A q \in Runs : broker'[q] = broker[q] \/ (q = r /\ broker'[q] = stage)
  BY <1>1, OverKeeps
<1>3. ASSUME NEW q \in Runs, broker'[q] \in {"launching", "launched"}
      PROVE  broker[q] \in {"launching", "launched"}
  BY <1>2, <1>3
<1> QED BY <1>2, <1>3, BrokerKeeps

\* A broker goes on to a stage that is no launch.
LEMMA GivesKeeps ==
  ASSUME RestartIInv, NEW r \in Runs, broker[r] \in LiveBroker, NEW stage \in {"announced", "waiting"}, Gives(r, stage)
  PROVE  /\ broker' \in [Runs -> LiveBroker \cup {"none", "launched", "ended"}]
         /\ \A q \in Runs : /\ broker'[q] = "none" <=> broker[q] = "none"
                            /\ broker'[q] \in {"launching", "launched"} => broker[q] \in {"launching", "launched"}
BY Types DEF Gives, LiveBroker

\* A broker reads a message: it may go on, be cancelled or end, and launches nothing.
LEMMA BrokerReadsKeeps == ASSUME RestartIInv, NEW r \in Runs, BrokerReads(r) PROVE RestartIInv'
<1> DEFINE m == Head(toBroker[r])
<1>1. UNCHANGED <<parent, reused, tracked, requests, restart, fork>> /\ broker[r] \in LiveBroker
  BY DEF BrokerReads
<1>2. toBroker' \in [Runs -> Seq(ToBroker)]
  <2>1. toBroker \in [Runs -> Seq(ToBroker)] /\ toBroker[r] # <<>>
        /\ toBroker' = [toBroker EXCEPT ![r] = Tail(@)]
    BY Types DEF BrokerReads
  <2>2. Tail(toBroker[r]) \in Seq(ToBroker)
    BY <2>1
  <2> QED BY <2>1, <2>2
<1>3. <<"ready">> \in Seq(ToParent) /\ <<"committed">> \in Seq(ToParent)
      /\ <<"error">> \in Seq(ToParent) /\ <<>> \in Seq(ToParent)
  BY DEF ToParent
<1>4. ASSUME NEW why \in Seq(ToParent), BrokerOver(r, "ended", why) PROVE RestartIInv'
  BY <1>1, <1>2, <1>4, EndedKeeps
<1>5. ASSUME NEW linked \in BOOLEAN, LearnsCancel(r, linked) PROVE RestartIInv'
  <2>1. CASE BrokerOver(r, "ended", <<"error">>)
    BY <1>3, <1>4, <2>1
  <2>2. CASE /\ end' = [end EXCEPT ![r].cancelled = TRUE, ![r].link = linked]
             /\ UNCHANGED <<broker, toParent>>
    <3>1. end' \in [Runs -> BrokerEnds]
      <4>1. end[r] \in BrokerEnds
        BY Types
      <4>2. [[end[r] EXCEPT !.cancelled = TRUE] EXCEPT !.link = linked] \in BrokerEnds
        BY <4>1 DEF BrokerEnds
      <4>3. end' = [end EXCEPT ![r] = [[end[r] EXCEPT !.cancelled = TRUE] EXCEPT !.link = linked]]
        BY <2>2, Types
      <4> QED BY <4>2, <4>3, Types
    <3> QED BY <1>1, <1>2, <2>2, <3>1, Types, BrokerKeeps
  <2> QED BY <1>5, <2>1, <2>2 DEF LearnsCancel
<1>6. CASE Prepared(r)
  <2>1. CASE Gives(r, "announced") /\ Says(r, <<"ready">>) /\ UNCHANGED end
    <3>1. toParent' \in [Runs -> Seq(ToParent)]
      BY <1>3, <2>1, SaysKeeps
    <3>2. /\ broker' \in [Runs -> LiveBroker \cup {"none", "launched", "ended"}]
          /\ \A q \in Runs : /\ broker'[q] = "none" <=> broker[q] = "none"
                             /\ broker'[q] \in {"launching", "launched"} => broker[q] \in {"launching", "launched"}
      BY <1>1, <2>1, GivesKeeps
    <3> QED BY <1>1, <1>2, <2>1, <3>1, <3>2, Types, BrokerKeeps
  <2>2. CASE BrokerOver(r, "ended", <<"error">>)
    BY <1>3, <1>4, <2>2
  <2> QED BY <1>6, <2>1, <2>2 DEF Prepared
<1>7. CASE /\ Gives(r, "waiting")
           /\ end' = [end EXCEPT ![r].committed = TRUE]
           /\ Says(r, <<"committed">>)
  <2>1. toParent' \in [Runs -> Seq(ToParent)]
    BY <1>3, <1>7, SaysKeeps
  <2>2. /\ broker' \in [Runs -> LiveBroker \cup {"none", "launched", "ended"}]
        /\ \A q \in Runs : /\ broker'[q] = "none" <=> broker[q] = "none"
                           /\ broker'[q] \in {"launching", "launched"} => broker[q] \in {"launching", "launched"}
    BY <1>1, <1>7, GivesKeeps
  <2>3. end' \in [Runs -> BrokerEnds]
    <3>1. \A d \in BrokerEnds : [d EXCEPT !.committed = TRUE] \in BrokerEnds
      BY DEF BrokerEnds
    <3>2. end' = [end EXCEPT ![r] = [end[r] EXCEPT !.committed = TRUE]] /\ end[r] \in BrokerEnds
      BY <1>7, Types
    <3> QED BY <3>1, <3>2, Types
  <2> QED BY <1>1, <1>2, <2>1, <2>2, <2>3, BrokerKeeps
<1>8. CASE LearnsCancel(r, end[r].link)
  <2>1. end[r].link \in BOOLEAN
    BY Types DEF BrokerEnds
  <2> QED BY <1>5, <1>8, <2>1
<1>9. CASE LearnsCancel(r, FALSE)
  BY <1>5, <1>9
<1>10. CASE BrokerOver(r, "ended", <<>>)
  BY <1>3, <1>4, <1>10
<1>11. CASE end' = [end EXCEPT ![r].link = FALSE] /\ UNCHANGED <<broker, toParent>>
  <2>1. end' \in [Runs -> BrokerEnds]
    BY <1>11, Types, EndLinkSet
  <2> QED BY <1>1, <1>2, <1>11, <2>1, Types, BrokerKeeps
<1> QED BY <1>6, <1>7, <1>8, <1>9, <1>10, <1>11 DEF BrokerReads

\* The launch begins only when the original is seen to have gone, and what is seen is true.
LEMMA TickKeeps == ASSUME RestartIInv, NEW r \in Runs, Tick(r) PROVE RestartIInv'
<1>1. /\ UNCHANGED <<parent, reused, tracked, requests, restart, fork, toBroker>>
      /\ broker[r] = "waiting" /\ broker[r] \in LiveBroker
  BY DEF Tick, LiveBroker
<1>2. CASE BrokerOver(r, "ended", <<"error">>)
  <2>1. <<"error">> \in Seq(ToParent)
    BY DEF ToParent
  <2> QED BY <1>1, <1>2, <2>1, Types, EndedKeeps
<1>3. CASE /\ \E stamp \in StampAnswers : SeenGone(stamp)
           /\ Gives(r, "launching") /\ UNCHANGED <<end, toParent>>
  <2>1. parent = "gone"
    BY <1>3 DEF StampAnswers, SeenGone
  <2>2. /\ broker' \in [Runs -> LiveBroker \cup {"none", "launched", "ended"}]
        /\ \A q \in Runs : broker'[q] = "none" <=> broker[q] = "none"
    BY <1>1, <1>3, Types DEF Gives, LiveBroker
  <2> QED BY <1>1, <1>3, <2>1, <2>2, Types, BrokerKeeps
<1> QED BY <1>2, <1>3 DEF Tick

\* A launch, once begun, was begun after the exit.
LEMMA LaunchKeeps == ASSUME RestartIInv, NEW r \in Runs, Launch(r) PROVE RestartIInv'
<1>1. PICK stage \in {"launched", "ended"} : BrokerOver(r, stage, <<>>)
  BY DEF Launch
<1>2. broker[r] = "launching" /\ broker[r] \in LiveBroker
      /\ UNCHANGED <<parent, reused, tracked, requests, restart, fork, toBroker>> /\ <<>> \in Seq(ToParent)
  BY DEF Launch, LiveBroker
<1> QED BY <1>1, <1>2, Types, EndedKeeps

\* A broker that dies has launched nothing by it.
LEMMA BrokerDiesKeeps == ASSUME RestartIInv, NEW r \in Runs, BrokerDies(r) PROVE RestartIInv'
<1>1. <<>> \in Seq(ToParent)
  OBVIOUS
<1> QED BY <1>1, Types, EndedKeeps DEF BrokerDies

-----------------------------------------------------------------------------
(* The theorems. *)

\* Every step keeps the invariant.
LEMMA RestartInductive == ASSUME RestartIInv, [RestartNext]_restartVars PROVE RestartIInv'
<1>1. ASSUME NEW c \in Callers, Request(c) PROVE RestartIInv'
  BY <1>1, ArriveKeeps, BeginKeeps, BeginFailsKeeps, ShareKeeps, FinishKeeps, CloseKeeps DEF Request
<1>2. ASSUME NEW r \in Runs, Runtime(r) PROVE RestartIInv'
  BY <1>2, PrepareKeeps, DisconnectKeeps, ReadyTimeoutKeeps, ParentReadsKeeps, TimerKeeps DEF Runtime
<1>3. ASSUME NEW r \in Runs, Broker(r) PROVE RestartIInv'
  BY <1>3, BrokerReadsKeeps, TickKeeps, LaunchKeeps, BrokerDiesKeeps DEF Broker
<1>4. CASE ProcessExits \/ NumberReused
  BY <1>4, ProcessExitsKeeps, NumberReusedKeeps
<1>5. CASE UNCHANGED restartVars
  BY <1>5, Types, RestKeeps DEF restartVars, requests, restart, brokers, wires, RestartIInv, RestartTypeOK
<1> QED BY <1>1, <1>2, <1>3, <1>4, <1>5 DEF RestartNext

\* The restart that is under way is the only one, and its broker the only one uncancelled.
THEOREM RestartInvariantHolds == RestartSafeSpec => []RestartIInv
<1>1. RestartInit => RestartIInv
  BY RestartInitially
<1>2. RestartIInv /\ [RestartNext]_restartVars => RestartIInv'
  BY RestartInductive
<1> QED BY <1>1, <1>2, PTL DEF RestartSafeSpec

\* The runtime is replaced by one broker, after it has answered and gone: for any number
\* of requests and restarts, and whatever brokers, clients and timers do.
THEOREM RestartIsSound == RestartSafeSpec => []RestartSound
<1>1. RestartIInv => RestartSound
  BY Sound
<1> QED BY <1>1, RestartInvariantHolds, PTL

\* A replacement is launched only when the original is gone.
THEOREM ReplacedAfterExit == RestartSafeSpec => []LaunchAfterExit
<1>1. RestartIInv => LaunchAfterExit
  BY DEF RestartIInv
<1> QED BY <1>1, RestartInvariantHolds, PTL

-----------------------------------------------------------------------------
(***************************************************************************)
(* The session list takes no session back and forgets no host, and a late  *)
(* answer reaches every window that is connected, for any hosts, sessions, *)
(* calls and windows.                                                      *)
(***************************************************************************)
\* The frames on their way are of sessions, and none is ahead of its host.
InTransit ==
  /\ \A w \in Windows, h \in Hosts : \A i \in 1..Len(wire[w][h]) :
       LET f == wire[w][h][i] IN
       f.type = "event" => f.host = h /\ f.session \in Sessions /\ f.revision <= revision[h][f.session]
  /\ \A w \in Windows : \A i \in 1..Len(queue[w]) :
       LET f == queue[w][i] IN
       /\ f.type \in {"event", "late"} => f.session \in Sessions
       /\ f.type = "event" => f.revision <= revision[f.host][f.session]
  /\ \A w \in Windows, h \in Hosts, s \in Sessions : told[w][h][s] <= revision[h][s]

\* A refresh remembers versions that were, and its answer is a list.
RefreshInv ==
  \A h \in Hosts :
    /\ sessionListRefreshes[h].at # "none" => \A s \in Sessions :
         sessionListRefreshes[h].startVersions[s] <= sessionListSessionVersions[h][s]
    /\ sessionListRefreshes[h].at = "answered" => sessionListRefreshes[h].list \in Lists

\* Nothing newer than the answer on its way has reached a window, of a session the
\* hub heard nothing of since the refresh started.
Silent(h, s) ==
  /\ sessionListRefreshes[h].at = "answered" /\ sessionListRefreshes[h].list[s] # Absent
  /\ sessionListSessionVersions[h][s] = sessionListRefreshes[h].startVersions[s]

NewsFree ==
  \A h \in Hosts, s \in Sessions : Silent(h, s) => \A w \in Windows :
    /\ told[w][h][s] <= sessionListRefreshes[h].list[s]
    /\ \A i \in 1..Len(queue[w]) :
         queue[w][i].type = "event" /\ queue[w][i].host = h /\ queue[w][i].session = s
           => queue[w][i].revision <= sessionListRefreshes[h].list[s]

\* What a waiting call knew is still known.
CallsKnow ==
  /\ \A c \in ListCallers : listPhase[c] = "waiting" =>
       \A h \in known[c] : sessionListSnapshots[h] # NoList
  /\ KnownHostsListed

\* A window that is ready is a target of the refresh under way, and a frame is on a
\* connection that stands.
Linked ==
  \A w \in Windows, h \in Hosts :
    /\ link[w][h] # "down" => window[w] = "open"
    /\ wire[w][h] # <<>> => link[w][h] \in {"attached", "ready"}
    /\ link[w][h] = "ready" /\ sessionListRefreshes[h].at # "none"
         => <<w, generation[w][h]>> \in sessionListRefreshes[h].targets

ListIInv == TypeOK /\ InTransit /\ RefreshInv /\ NewsFree /\ LateNotStale /\ CallsKnow /\ Linked

-----------------------------------------------------------------------------
(* Types.                                                                   *)

LEMMA RefreshFields ==
  ASSUME NEW r \in Refreshes
  PROVE  /\ r.at \in {"none", "asked", "answered"} /\ r.list \in Lists \cup {NoList}
         /\ r.startVersions \in [Sessions -> Nat] /\ r.deferred \in BOOLEAN
         /\ r.targets \in SUBSET (Windows \X Nat)
  BY DEF Refreshes

LEMMA FrameFields ==
  ASSUME NEW type \in {"ready", "event", "late"}, NEW h \in Hosts,
         NEW s \in Sessions \cup {NoList}, NEW r \in Nat, NEW g \in Nat
  PROVE  /\ Frame(type, h, s, r, g) \in Frames
         /\ Frame(type, h, s, r, g).type = type /\ Frame(type, h, s, r, g).host = h
         /\ Frame(type, h, s, r, g).session = s /\ Frame(type, h, s, r, g).revision = r
  BY DEF Frame, Frames

LEMMA FramesType ==
  ASSUME NEW f \in Frames
  PROVE  f.host \in Hosts /\ f.revision \in Nat /\ f.type \in {"ready", "event", "late"}
  BY DEF Frames

LEMMA ListMember ==
  ASSUME NEW l \in Lists, NEW s \in Sessions, l[s] # Absent
  PROVE  l[s] \in Nat
  BY DEF Lists

LEMMA NoRefreshType == NoRefresh \in Refreshes /\ NoRefresh.at = "none" /\ Zero \in [Sessions -> Nat]
<1>1. Zero \in [Sessions -> Nat]
  BY DEF Zero
<1> QED BY <1>1 DEF NoRefresh, Refreshes

LEMMA StartedType ==
  ASSUME TypeOK, NEW h \in Hosts
  PROVE  /\ Started(h) \in Refreshes /\ Started(h).at = "asked"
         /\ Started(h).startVersions = sessionListSessionVersions[h]
         /\ Started(h).targets = CaptureTargets(h)
<1>1. \A w \in Windows : generation[w][h] \in Nat
  BY DEF TypeOK
<1>2. CaptureTargets(h) \in SUBSET (Windows \X Nat)
  BY <1>1 DEF CaptureTargets
<1>3. sessionListSessionVersions[h] \in [Sessions -> Nat]
  BY DEF TypeOK
<1> HIDE DEF CaptureTargets
<1> QED BY <1>2, <1>3 DEF Started, Refreshes

-----------------------------------------------------------------------------
(* Helpers on numbers and sequences.                                        *)

LEMMA LeastNumber ==
  ASSUME NEW T \in SUBSET Nat, T # {}
  PROVE  \E m \in T : \A k \in T : m <= k
<1> DEFINE R == OpToRel(<, Nat)
<1>1. IsWellFoundedOn(R, Nat)
  BY NatLessThanWellFounded
<1> HIDE DEF R
<1>2. PICK m \in T : \A k \in T : ~(<<k, m>> \in R)
  BY <1>1, WFMin, Zenon
<1>3. \A k \in Nat : k < m => <<k, m>> \in R
  BY DEF R, OpToRel
<1>4. ASSUME NEW k \in T PROVE m <= k
  <2>1. m \in Nat /\ k \in Nat
    OBVIOUS
  <2>2. ~(k < m)
    BY <1>2, <1>3, <2>1
  <2> QED BY <2>1, <2>2
<1> QED BY <1>4

\* The last of some places has one.
LEMMA LastPlace ==
  ASSUME NEW n \in Nat, NEW S \in SUBSET (1..n), S # {}
  PROVE  Max(S) \in S
<1> DEFINE T == {n - i : i \in S}
<1>1. \A i \in S : n - i \in Nat /\ i \in Nat
  OBVIOUS
<1>2. T \in SUBSET Nat /\ T # {}
  BY <1>1
<1>3. PICK m \in T : \A k \in T : m <= k
  BY <1>2, LeastNumber
<1>4. PICK i \in S : m = n - i
  BY <1>3
<1>5. ASSUME NEW j \in S PROVE i >= j
  <2>1. n - i <= n - j
    BY <1>3, <1>4
  <2> QED BY <1>1, <2>1
<1> QED BY <1>5 DEF Max

\* The sequence of a finite set holds its elements and no others.
LEMMA SetInSequence ==
  ASSUME NEW S, IsFiniteSet(S)
  PROVE  /\ SetToSeq(S) \in Seq(S)
         /\ \A x \in S : \E i \in 1..Len(SetToSeq(S)) : SetToSeq(S)[i] = x
<1> DEFINE n == Cardinality(S)
           f == SetToSeq(S)
<1>1. n \in Nat /\ \E b : b \in Bijection(1..n, S)
  BY FS_CardinalityType DEF ExistsBijection
<1>2. \E b \in [1..n -> S] : IsInjective(b)
  BY <1>1 DEF Bijection, Injection
<1>3. f \in [1..n -> S] /\ IsInjective(f)
  BY <1>2 DEF SetToSeq
<1> HIDE DEF f
<1>4. f \in Injection(1..n, S)
  BY <1>3 DEF Injection
<1>5. IsFiniteSet(1..n) /\ Cardinality(1..n) = n
  <2>1. Cardinality(1..n) = IF 1 > n THEN 0 ELSE n - 1 + 1
    BY <1>1, FS_Interval
  <2> QED BY <1>1, <2>1, FS_Interval
<1>6. f \in Surjection(1..n, S)
  BY <1>4, <1>5, FS_Injection
<1>7. f \in Seq(S) /\ Len(f) = n
  BY <1>1, <1>3
<1>8. \A x \in S : \E i \in 1..n : f[i] = x
  BY <1>6 DEF Surjection
<1> QED BY <1>7, <1>8 DEF f

\* A queue whose late frames are not stale, for what a window was told.
FreshIn(q, t) ==
  \A i \in 1..Len(q) : q[i].type = "late" =>
    /\ t[q[i].host][q[i].session] <= q[i].revision
    /\ \A j \in 1..(i - 1) :
         q[j].type = "event" /\ q[j].host = q[i].host /\ q[j].session = q[i].session
           => q[j].revision <= q[i].revision

LEMMA FreshQueues == LateNotStale <=> \A w \in Windows : FreshIn(queue[w], told[w])
  BY DEF LateNotStale, FreshIn

LEMMA FreshQueuesNext == (LateNotStale)' <=> \A w \in Windows : FreshIn(queue'[w], told'[w])
  BY DEF LateNotStale, FreshIn

LEMMA FreshAppend ==
  ASSUME NEW q \in Seq(Frames), NEW t, NEW f \in Frames, FreshIn(q, t), f.type # "late"
  PROVE  FreshIn(Append(q, f), t)
<1> DEFINE p == Append(q, f)
<1>1. /\ Len(q) \in Nat /\ Len(p) = Len(q) + 1 /\ p[Len(q) + 1] = f
      /\ \A i \in 1..Len(q) : p[i] = q[i]
  OBVIOUS
<1> HIDE DEF p
<1>2. ASSUME NEW i \in 1..Len(p), p[i].type = "late"
      PROVE  /\ i \in 1..Len(q) /\ p[i] = q[i]
             /\ \A j \in 1..(i - 1) : j \in 1..Len(q) /\ p[j] = q[j]
  BY <1>1, <1>2
<1> QED BY <1>2 DEF FreshIn, p

LEMMA FreshConcat ==
  ASSUME NEW q \in Seq(Frames), NEW l \in Seq(Frames), NEW t, FreshIn(q, t),
         \A i \in 1..Len(l) :
           /\ l[i].type = "late" /\ t[l[i].host][l[i].session] <= l[i].revision
           /\ \A j \in 1..Len(q) :
                q[j].type = "event" /\ q[j].host = l[i].host /\ q[j].session = l[i].session
                  => q[j].revision <= l[i].revision
  PROVE  FreshIn(q \o l, t)
<1> DEFINE p == q \o l
<1>1. /\ Len(q) \in Nat /\ Len(l) \in Nat /\ Len(p) = Len(q) + Len(l)
      /\ \A i \in 1..Len(q) : p[i] = q[i]
      /\ \A i \in 1..Len(p) : i \notin 1..Len(q) => i - Len(q) \in 1..Len(l) /\ p[i] = l[i - Len(q)]
  OBVIOUS
<1> HIDE DEF p
<1>2. ASSUME NEW i \in 1..Len(p), p[i].type = "late"
      PROVE  /\ t[p[i].host][p[i].session] <= p[i].revision
             /\ \A j \in 1..(i - 1) :
                  p[j].type = "event" /\ p[j].host = p[i].host /\ p[j].session = p[i].session
                    => p[j].revision <= p[i].revision
  <2>1. CASE i \in 1..Len(q)
    <3>1. p[i] = q[i] /\ \A j \in 1..(i - 1) : j \in 1..Len(q) /\ p[j] = q[j]
      BY <1>1, <2>1
    <3> QED BY <1>2, <2>1, <3>1 DEF FreshIn
  <2>2. CASE i \notin 1..Len(q)
    <3>1. i - Len(q) \in 1..Len(l) /\ p[i] = l[i - Len(q)]
      BY <1>1, <2>2
    <3>2. ASSUME NEW j \in 1..(i - 1), p[j].type = "event"
          PROVE  j \in 1..Len(q) /\ p[j] = q[j]
      <4>1. j \in 1..Len(p)
        BY <1>1
      <4>2. CASE j \notin 1..Len(q)
        <5>1. p[j].type = "late"
          BY <1>1, <4>1, <4>2
        <5> QED BY <3>2, <5>1
      <4> QED BY <1>1, <4>2
    <3> QED BY <3>1, <3>2
  <2> QED BY <2>1, <2>2
<1> QED BY <1>2 DEF FreshIn, p

\* The window takes the first frame.
LEMMA FreshTail ==
  ASSUME NEW q \in Seq(Frames), q # <<>>, NEW t, FreshIn(q, t), NEW u,
         \A h \in Hosts, s \in Sessions :
           u[h][s] = IF Head(q).type = "event" /\ Head(q).host = h /\ Head(q).session = s
                     THEN Head(q).revision ELSE t[h][s],
         \A i \in 1..Len(q) : q[i].type = "late" => q[i].session \in Sessions
  PROVE  FreshIn(Tail(q), u)
<1> DEFINE p == Tail(q)
<1>1. /\ Len(q) \in Nat /\ Len(p) = Len(q) - 1 /\ Head(q) = q[1] /\ 1 \in 1..Len(q)
      /\ \A i \in 1..Len(p) : p[i] = q[i + 1] /\ i + 1 \in 1..Len(q)
      /\ \A i \in 1..Len(q) : q[i] \in Frames
  OBVIOUS
<1> HIDE DEF p
<1>2. ASSUME NEW i \in 1..Len(p), p[i].type = "late"
      PROVE  /\ u[p[i].host][p[i].session] <= p[i].revision
             /\ \A j \in 1..(i - 1) :
                  p[j].type = "event" /\ p[j].host = p[i].host /\ p[j].session = p[i].session
                    => p[j].revision <= p[i].revision
  <2> DEFINE x == q[i + 1]
  <2>1. p[i] = x /\ i + 1 \in 1..Len(q) /\ x.type = "late" /\ x.session \in Sessions /\ x.host \in Hosts
    <3>1. p[i] = x /\ i + 1 \in 1..Len(q) /\ x \in Frames
      BY <1>1
    <3> QED BY <1>2, <3>1, FramesType
  <2>2. /\ t[x.host][x.session] <= x.revision
        /\ \A j \in 1..i :
             q[j].type = "event" /\ q[j].host = x.host /\ q[j].session = x.session
               => q[j].revision <= x.revision
    <3>1. (i + 1) - 1 = i
      BY <1>1
    <3> QED BY <2>1, <3>1 DEF FreshIn
  <2>3. 1 \in 1..i /\ \A j \in 1..(i - 1) : j + 1 \in 1..i /\ p[j] = q[j + 1]
    BY <1>1
  <2> HIDE DEF x
  <2>4. u[x.host][x.session] <= x.revision
    <3>1. CASE q[1].type = "event" /\ q[1].host = x.host /\ q[1].session = x.session
      <4>1. u[x.host][x.session] = q[1].revision
        BY <1>1, <2>1, <3>1
      <4>2. q[1].revision <= x.revision
        BY <2>2, <2>3, <3>1
      <4> QED BY <4>1, <4>2
    <3>2. CASE ~(q[1].type = "event" /\ q[1].host = x.host /\ q[1].session = x.session)
      <4>1. u[x.host][x.session] = t[x.host][x.session]
        BY <1>1, <2>1, <3>2
      <4> QED BY <2>2, <4>1
    <3> QED BY <3>1, <3>2
  <2>5. \A j \in 1..(i - 1) :
          p[j].type = "event" /\ p[j].host = x.host /\ p[j].session = x.session => p[j].revision <= x.revision
    <3> SUFFICES ASSUME NEW j \in 1..(i - 1), p[j].type = "event", p[j].host = x.host, p[j].session = x.session
                 PROVE  p[j].revision <= x.revision
      OBVIOUS
    <3>1. j + 1 \in 1..i /\ p[j] = q[j + 1]
      BY <2>3
    <3> QED BY <2>2, <3>1
  <2> QED BY <2>1, <2>4, <2>5
<1> QED BY <1>2 DEF FreshIn, p

-----------------------------------------------------------------------------
(* What Settle leaves of the calls and the snapshots.                       *)
LEMMA Settles ==
  ASSUME TypeOK,
         NEW results \in [ListCallers -> [Hosts -> Lists \cup {NoList, Pending}]],
         NEW snapshots \in [Hosts -> Lists \cup {NoList}],
         Settle(results, snapshots)
  PROVE  /\ got' = results /\ UNCHANGED <<order, known>>
         /\ listPhase' \in [ListCallers -> {"idle", "waiting", "done"}]
         /\ listed' \in [ListCallers -> SUBSET Hosts]
         /\ sessionListSnapshots' \in [Hosts -> Lists \cup {NoList}]
         /\ \A h \in Hosts : snapshots[h] # NoList => sessionListSnapshots'[h] # NoList
         /\ \A c \in ListCallers :
              \/ listPhase'[c] = listPhase[c] /\ listed'[c] = listed[c]
              \/ /\ listPhase[c] = "waiting" /\ listPhase'[c] = "done"
                 /\ \A h \in Hosts : snapshots[h] # NoList => h \in listed'[c]
<1> DEFINE over == {c \in ListCallers : listPhase[c] = "waiting" /\ \A h \in Hosts : results[c][h] # Pending}
           fresh(h) == {i \in 1..Len(order) : order[i] \in over /\ results[order[i]][h] # NoList}
<1>1. /\ got' = results
      /\ listPhase' = [c \in ListCallers |-> IF c \in over THEN "done" ELSE listPhase[c]]
      /\ listed' = [c \in ListCallers |->
           IF c \in over THEN Usable(results[c], snapshots) ELSE listed[c]]
      /\ sessionListSnapshots' = [h \in Hosts |->
           IF fresh(h) = {} THEN snapshots[h] ELSE results[order[Max(fresh(h))]][h]]
      /\ UNCHANGED <<order, known>>
  BY DEF Settle
<1>2. \A h \in Hosts : fresh(h) \subseteq 1..Len(order)
  OBVIOUS
<1>3. Len(order) \in Nat
  BY DEF TypeOK
<1>4. ASSUME NEW h \in Hosts, fresh(h) # {}
      PROVE  results[order[Max(fresh(h))]][h] \in Lists
  <2>1. Max(fresh(h)) \in fresh(h)
    BY <1>2, <1>3, <1>4, LastPlace
  <2> DEFINE c == order[Max(fresh(h))]
  <2>2. c \in over /\ results[c][h] # NoList
    BY <2>1
  <2>3. c \in ListCallers /\ results[c][h] # Pending
    BY <2>2
  <2> HIDE DEF c
  <2>4. results[c][h] \in Lists \cup {NoList, Pending}
    BY <2>3
  <2>5. results[c][h] \in Lists
    BY <2>2, <2>3, <2>4
  <2> QED BY <2>5 DEF c
<1>5. ASSUME NEW c \in ListCallers
      PROVE  /\ Usable(results[c], snapshots) \in SUBSET Hosts
             /\ \A h \in Hosts : snapshots[h] # NoList => h \in Usable(results[c], snapshots)
  BY DEF Usable
<1>6. \A c \in over : c \in ListCallers /\ listPhase[c] = "waiting"
  OBVIOUS
<1>7. /\ listPhase \in [ListCallers -> {"idle", "waiting", "done"}]
      /\ listed \in [ListCallers -> SUBSET Hosts]
  BY DEF TypeOK
<1> HIDE DEF over, fresh
<1>8. listPhase' \in [ListCallers -> {"idle", "waiting", "done"}]
  BY <1>1, <1>7
<1>9. listed' \in [ListCallers -> SUBSET Hosts]
  BY <1>1, <1>5, <1>7
<1>10. ASSUME NEW h \in Hosts
       PROVE  /\ sessionListSnapshots'[h] \in Lists \cup {NoList}
              /\ snapshots[h] # NoList => sessionListSnapshots'[h] # NoList
  <2>1. CASE fresh(h) = {}
    BY <1>1, <2>1
  <2>2. CASE fresh(h) # {}
    <3>1. sessionListSnapshots'[h] \in Lists
      BY <1>1, <1>4, <2>2
    <3> QED BY <3>1, ListAssumption
  <2> QED BY <2>1, <2>2
<1>11. sessionListSnapshots' \in [Hosts -> Lists \cup {NoList}]
  BY <1>1, <1>10
<1>12. ASSUME NEW c \in ListCallers
       PROVE  \/ listPhase'[c] = listPhase[c] /\ listed'[c] = listed[c]
              \/ /\ listPhase[c] = "waiting" /\ listPhase'[c] = "done"
                 /\ \A h \in Hosts : snapshots[h] # NoList => h \in listed'[c]
  BY <1>1, <1>5, <1>6
<1> QED BY <1>1, <1>8, <1>9, <1>10, <1>11, <1>12

-----------------------------------------------------------------------------
(* The start and the actions, one lemma each.                               *)

LEMMA ListInitially == Init => ListIInv
<1> SUFFICES ASSUME Init PROVE ListIInv
  OBVIOUS
<1>1. NoRefresh \in Refreshes /\ NoRefresh.at = "none" /\ Zero \in [Sessions -> Nat]
  BY NoRefreshType
<1>2. TypeOK
  BY <1>1 DEF Init, TypeOK
<1>3. InTransit
  BY DEF Init, InTransit, Zero
<1>4. RefreshInv
  BY <1>1 DEF Init, RefreshInv
<1>5. NewsFree
  BY <1>1 DEF Init, NewsFree, Silent
<1>6. LateNotStale
  BY DEF Init, LateNotStale
<1>7. CallsKnow
  BY DEF Init, CallsKnow, KnownHostsListed
<1>8. Linked
  BY DEF Init, Linked
<1> QED BY <1>2, <1>3, <1>4, <1>5, <1>6, <1>7, <1>8 DEF ListIInv

\* What of the invariant a step that leaves its variables alone keeps.
LEMMA TransitRests ==
  ASSUME InTransit, LateNotStale, UNCHANGED <<revision, wire, queue, told>>
  PROVE  (InTransit /\ LateNotStale)'
<1>1. InTransit'
  BY DEF InTransit
<1>2. LateNotStale'
  BY DEF LateNotStale
<1> QED BY <1>1, <1>2

LEMMA ListCallsRest ==
  ASSUME CallsKnow, UNCHANGED <<callVars, sessionListSnapshots>>
  PROVE  CallsKnow'
  BY DEF CallsKnow, KnownHostsListed, callVars

LEMMA LinksRest ==
  ASSUME Linked, UNCHANGED <<windowVars, wire, sessionListRefreshes>>
  PROVE  Linked'
  BY DEF Linked, windowVars

LEMMA KeepsChange ==
  ASSUME ListIInv, NEW h \in Hosts, NEW s \in Sessions, NEW living \in BOOLEAN, Change(h, s, living)
  PROVE  ListIInv'
<1>0. TypeOK /\ InTransit /\ RefreshInv /\ NewsFree /\ LateNotStale /\ CallsKnow /\ Linked
  BY DEF ListIInv
<1> USE DEF Change
<1>1. /\ revision \in [Hosts -> [Sessions -> Nat]] /\ alive \in [Hosts -> SUBSET Sessions]
      /\ wire \in [Windows -> [Hosts -> Seq(Frames)]]
  BY <1>0 DEF TypeOK
<1>2. /\ revision' \in [Hosts -> [Sessions -> Nat]]
      /\ revision'[h][s] = revision[h][s] + 1
      /\ \A g \in Hosts, t \in Sessions : revision[g][t] <= revision'[g][t]
  BY <1>1
<1>3. alive' \in [Hosts -> SUBSET Sessions]
  BY <1>1
<1> DEFINE f == Frame("event", h, s, revision'[h][s], 0)
<1>4. f \in Frames /\ f.type = "event" /\ f.host = h /\ f.session = s /\ f.revision = revision'[h][s]
  BY <1>2, FrameFields
<1>5. \A w \in Windows, g \in Hosts :
        wire'[w][g] = IF g = h /\ link[w][h] \in {"attached", "ready"}
                      THEN Append(wire[w][g], f) ELSE wire[w][g]
  BY <1>1
<1> HIDE DEF f
<1>6. wire' \in [Windows -> [Hosts -> Seq(Frames)]]
  <2>1. \A w \in Windows, g \in Hosts : wire[w][g] \in Seq(Frames) /\ Append(wire[w][g], f) \in Seq(Frames)
    BY <1>1, <1>4
  <2>2. \A w \in Windows : [wire[w] EXCEPT ![h] = Append(@, f)] \in [Hosts -> Seq(Frames)]
    BY <1>1, <2>1
  <2> QED BY <1>1, <2>2 DEF f
<1>7. TypeOK'
  BY <1>0, <1>2, <1>3, <1>6 DEF TypeOK, callVars, windowVars
<1>8. InTransit'
  <2>1. ASSUME NEW w \in Windows, NEW g \in Hosts, NEW i \in 1..Len(wire'[w][g]),
               wire'[w][g][i].type = "event"
        PROVE  /\ wire'[w][g][i].host = g /\ wire'[w][g][i].session \in Sessions
               /\ wire'[w][g][i].revision <= revision'[g][wire'[w][g][i].session]
    <3> DEFINE q == wire[w][g]
    <3>1. q \in Seq(Frames)
      BY <1>1
    <3>2. \A j \in 1..Len(q) : q[j].type = "event" =>
            /\ q[j].host = g /\ q[j].session \in Sessions /\ q[j].revision \in Nat
            /\ q[j].revision <= revision'[g][q[j].session]
      <4> SUFFICES ASSUME NEW j \in 1..Len(q), q[j].type = "event"
                   PROVE  /\ q[j].host = g /\ q[j].session \in Sessions /\ q[j].revision \in Nat
                          /\ q[j].revision <= revision'[g][q[j].session]
        OBVIOUS
      <4>1. q[j] \in Frames
        BY <3>1
      <4>2. q[j].host = g /\ q[j].session \in Sessions /\ q[j].revision <= revision[g][q[j].session]
        BY <1>0 DEF InTransit
      <4>3. q[j].revision \in Nat
        BY <4>1, FramesType
      <4>4. revision[g][q[j].session] \in Nat /\ revision'[g][q[j].session] \in Nat
        BY <1>1, <1>2, <4>2
      <4> HIDE DEF q
      <4> QED BY <1>2, <4>2, <4>3, <4>4
    <3>3. wire'[w][g] = q \/ (g = h /\ wire'[w][g] = Append(q, f))
      <4>1. w \in Windows /\ g \in Hosts
        OBVIOUS
      <4> QED BY ONLY <1>5, <4>1 DEF q
    <3> HIDE DEF q
    <3>4. CASE wire'[w][g] = q
      BY <2>1, <3>2, <3>4
    <3>5. CASE g = h /\ wire'[w][g] = Append(q, f)
      <4>1. g = h /\ wire'[w][g] = Append(q, f)
        BY <3>5
      <4>2. CASE i \in 1..Len(q)
        <5>1. wire'[w][g][i] = q[i]
          BY <3>1, <4>1, <4>2
        <5> QED BY <2>1, <3>2, <4>2, <5>1
      <4>3. CASE i \notin 1..Len(q)
        <5>1. wire'[w][g][i] = f
          BY <3>1, <4>1, <4>3
        <5> QED BY <1>2, <1>4, <4>1, <5>1
      <4> QED BY <4>2, <4>3
    <3> QED BY <3>3, <3>4, <3>5
  <2>2. ASSUME NEW w \in Windows, NEW i \in 1..Len(queue[w])
        PROVE  /\ queue[w][i].type \in {"event", "late"} => queue[w][i].session \in Sessions
               /\ queue[w][i].type = "event" =>
                    queue[w][i].revision <= revision'[queue[w][i].host][queue[w][i].session]
    <3>1. queue[w][i] \in Frames
      BY <1>0 DEF TypeOK
    <3> DEFINE x == queue[w][i]
    <3>2. x.host \in Hosts /\ x.revision \in Nat
      BY <3>1, FramesType
    <3>3. /\ x.type \in {"event", "late"} => x.session \in Sessions
          /\ x.type = "event" => x.revision <= revision[x.host][x.session]
      BY <1>0 DEF InTransit
    <3> HIDE DEF x
    <3>4. CASE x.type = "event"
      <4>1. revision[x.host][x.session] \in Nat /\ revision'[x.host][x.session] \in Nat
        BY <1>1, <1>2, <3>2, <3>3, <3>4
      <4> QED BY <1>2, <3>2, <3>3, <3>4, <4>1 DEF x
    <3> QED BY <3>3, <3>4 DEF x
  <2>3. ASSUME NEW w \in Windows, NEW g \in Hosts, NEW t \in Sessions
        PROVE  told[w][g][t] <= revision'[g][t]
    <3>1. told[w][g][t] \in Nat /\ revision[g][t] \in Nat /\ revision'[g][t] \in Nat
      BY <1>0, <1>1, <1>2 DEF TypeOK
    <3>2. told[w][g][t] <= revision[g][t]
      BY <1>0 DEF InTransit
    <3> QED BY <1>2, <3>1, <3>2
  <2> QED BY <2>1, <2>2, <2>3 DEF InTransit
<1>9. Linked'
  <2>1. \A w \in Windows, g \in Hosts :
          wire'[w][g] # <<>> => wire[w][g] # <<>> \/ link[w][g] \in {"attached", "ready"}
    BY <1>5
  <2> QED BY <1>0, <2>1 DEF Linked, windowVars
<1>10. (RefreshInv /\ NewsFree /\ LateNotStale /\ CallsKnow)'
  BY <1>0 DEF RefreshInv, NewsFree, Silent, LateNotStale, CallsKnow, KnownHostsListed, callVars, windowVars
<1> QED BY <1>7, <1>8, <1>9, <1>10 DEF ListIInv

LEMMA KeepsCompute ==
  ASSUME ListIInv, NEW h \in Hosts, Compute(h)
  PROVE  ListIInv'
<1>0. TypeOK /\ InTransit /\ RefreshInv /\ NewsFree /\ LateNotStale /\ CallsKnow /\ Linked
  BY DEF ListIInv
<1> DEFINE r == sessionListRefreshes[h]
           l == [s \in Sessions |-> IF s \in alive[h] THEN revision[h][s] ELSE Absent]
           n == [r EXCEPT !.at = "answered", !.list = l]
<1>1. sessionListRefreshes \in [Hosts -> Refreshes] /\ r \in Refreshes /\ r.at = "asked"
  BY <1>0 DEF TypeOK, Compute
<1>2. l \in Lists /\ \A s \in Sessions : l[s] # Absent => l[s] = revision[h][s]
  BY <1>0 DEF TypeOK, Lists
<1>3. sessionListRefreshes' = [sessionListRefreshes EXCEPT ![h] = n]
  BY <1>1 DEF Compute
<1> HIDE DEF l, r
<1>4. /\ n \in Refreshes /\ n.at = "answered" /\ n.list = l
      /\ n.startVersions = r.startVersions /\ n.targets = r.targets
  BY <1>1, <1>2 DEF Refreshes
<1> HIDE DEF n
<1>5. /\ sessionListRefreshes' \in [Hosts -> Refreshes] /\ sessionListRefreshes'[h] = n
      /\ \A g \in Hosts : g # h => sessionListRefreshes'[g] = sessionListRefreshes[g]
  BY <1>1, <1>3, <1>4
<1>6. TypeOK'
  BY <1>0, <1>5 DEF TypeOK, Compute, callVars, windowVars, hostVars
<1>7. RefreshInv'
  BY <1>0, <1>1, <1>2, <1>4, <1>5 DEF RefreshInv, Compute, r
<1>8. NewsFree'
  <2> SUFFICES ASSUME NEW g \in Hosts, NEW s \in Sessions, Silent(g, s)', NEW w \in Windows
               PROVE  /\ told[w][g][s] <= sessionListRefreshes'[g].list[s]
                      /\ \A i \in 1..Len(queue[w]) :
                           queue[w][i].type = "event" /\ queue[w][i].host = g /\ queue[w][i].session = s
                             => queue[w][i].revision <= sessionListRefreshes'[g].list[s]
    BY DEF NewsFree, Compute
  <2>1. CASE g = h
    <3>1. sessionListRefreshes'[g].list[s] = revision[g][s]
      BY <1>2, <1>4, <1>5, <2>1 DEF Silent
    <3> QED BY <1>0, <3>1 DEF InTransit
  <2>2. CASE g # h
    <3>1. Silent(g, s) /\ sessionListRefreshes'[g] = sessionListRefreshes[g]
      BY <1>5, <2>2 DEF Silent, Compute
    <3> QED BY <1>0, <3>1 DEF NewsFree
  <2> QED BY <2>1, <2>2
<1>9. Linked'
  BY <1>0, <1>1, <1>4, <1>5 DEF Linked, Compute, windowVars, r
<1>10. (InTransit /\ LateNotStale /\ CallsKnow)'
  <2>1. UNCHANGED <<revision, wire, queue, told, callVars, sessionListSnapshots>>
    BY DEF Compute, hostVars
  <2> QED BY <1>0, <2>1, TransitRests, ListCallsRest
<1> QED BY <1>6, <1>7, <1>8, <1>9, <1>10 DEF ListIInv

LEMMA KeepsControlFrame ==
  ASSUME ListIInv, NEW h \in Hosts, NEW s \in Sessions, RecordControlFrame(h, s)
  PROVE  ListIInv'
<1>0. TypeOK /\ InTransit /\ RefreshInv /\ NewsFree /\ LateNotStale /\ CallsKnow /\ Linked
  BY DEF ListIInv
<1> USE DEF RecordControlFrame
<1>1. /\ sessionListSessionVersions \in [Hosts -> [Sessions -> Nat]]
      /\ sessionListSessionVersions' \in [Hosts -> [Sessions -> Nat]]
      /\ \A g \in Hosts, t \in Sessions :
           sessionListSessionVersions'[g][t] =
             sessionListSessionVersions[g][t] + IF g = h /\ t = s THEN 1 ELSE 0
  BY <1>0 DEF TypeOK, Bumped
<1>2. TypeOK'
  BY <1>0, <1>1 DEF TypeOK, callVars, windowVars, hostVars
<1>3. \A g \in Hosts : sessionListRefreshes[g].at # "none" => \A t \in Sessions :
        /\ sessionListRefreshes[g].startVersions[t] \in Nat /\ sessionListSessionVersions[g][t] \in Nat
        /\ sessionListRefreshes[g].startVersions[t] <= sessionListSessionVersions[g][t]
  <2>1. \A g \in Hosts : sessionListRefreshes[g].startVersions \in [Sessions -> Nat]
    BY <1>0, RefreshFields DEF TypeOK
  <2> QED BY <1>0, <1>1, <2>1 DEF RefreshInv
<1>4. RefreshInv'
  BY <1>0, <1>1, <1>3 DEF RefreshInv
<1>5. \A g \in Hosts, t \in Sessions : Silent(g, t)' => Silent(g, t)
  BY <1>1, <1>3 DEF Silent
<1>6. NewsFree'
  BY <1>0, <1>5 DEF NewsFree
<1>7. (InTransit /\ LateNotStale /\ CallsKnow /\ Linked)'
  <2>1. UNCHANGED <<revision, wire, queue, told, callVars, sessionListSnapshots, windowVars, sessionListRefreshes>>
    BY DEF hostVars
  <2> QED BY <1>0, <2>1, TransitRests, ListCallsRest, LinksRest
<1> QED BY <1>2, <1>4, <1>6, <1>7 DEF ListIInv

LEMMA KeepsArchived ==
  ASSUME ListIInv, NEW h \in Hosts, NEW set \in SUBSET Sessions, RecordArchived(h, set)
  PROVE  ListIInv'
<1>0. TypeOK /\ InTransit /\ RefreshInv /\ NewsFree /\ LateNotStale /\ CallsKnow /\ Linked
  BY DEF ListIInv
<1>1. TypeOK'
  BY <1>0 DEF TypeOK, RecordArchived, callVars, windowVars, hostVars
<1>2. (InTransit /\ RefreshInv /\ NewsFree /\ LateNotStale /\ CallsKnow /\ Linked)'
  <2>1. UNCHANGED <<revision, wire, queue, told, callVars, sessionListSnapshots, windowVars,
                    sessionListRefreshes, sessionListSessionVersions>>
    BY DEF RecordArchived, hostVars
  <2>2. RefreshInv'
    BY <1>0, <2>1 DEF RefreshInv
  <2>3. NewsFree'
    BY <1>0, <2>1 DEF NewsFree, Silent
  <2> QED BY <1>0, <2>1, <2>2, <2>3, TransitRests, ListCallsRest, LinksRest
<1> QED BY <1>1, <1>2 DEF ListIInv

\* What Settle does keeps what the calls know.
LEMMA SettlesCalls ==
  ASSUME TypeOK, CallsKnow,
         NEW results \in [ListCallers -> [Hosts -> Lists \cup {NoList, Pending}]],
         NEW snapshots \in [Hosts -> Lists \cup {NoList}],
         \A h \in Hosts : sessionListSnapshots[h] # NoList => snapshots[h] # NoList,
         Settle(results, snapshots)
  PROVE  CallsKnow'
<1>1. /\ UNCHANGED known
      /\ \A h \in Hosts : snapshots[h] # NoList => sessionListSnapshots'[h] # NoList
      /\ \A c \in ListCallers :
           \/ listPhase'[c] = listPhase[c] /\ listed'[c] = listed[c]
           \/ /\ listPhase[c] = "waiting" /\ listPhase'[c] = "done"
              /\ \A h \in Hosts : snapshots[h] # NoList => h \in listed'[c]
  BY Settles
<1>2. \A c \in ListCallers : known[c] \subseteq Hosts
  BY DEF TypeOK
<1>3. ASSUME NEW c \in ListCallers, listPhase'[c] = "waiting"
      PROVE  \A h \in known'[c] : sessionListSnapshots'[h] # NoList
  <2>1. listPhase[c] = "waiting"
    BY <1>1, <1>3
  <2>2. \A h \in known[c] : sessionListSnapshots[h] # NoList
    BY <2>1 DEF CallsKnow
  <2> QED BY <1>1, <1>2, <2>2
<1>4. ASSUME NEW c \in ListCallers, listPhase'[c] = "done"
      PROVE  known'[c] \subseteq listed'[c]
  <2>1. CASE listPhase'[c] = listPhase[c] /\ listed'[c] = listed[c]
    <3>1. known[c] \subseteq listed[c]
      BY <1>4, <2>1 DEF CallsKnow, KnownHostsListed
    <3> QED BY <1>1, <2>1, <3>1
  <2>2. CASE listPhase[c] = "waiting" /\ \A h \in Hosts : snapshots[h] # NoList => h \in listed'[c]
    <3>1. \A h \in known[c] : sessionListSnapshots[h] # NoList
      BY <2>2 DEF CallsKnow
    <3> QED BY <1>1, <1>2, <2>2, <3>1
  <2> QED BY <1>1, <2>1, <2>2
<1> QED BY <1>3, <1>4 DEF CallsKnow, KnownHostsListed

LEMMA KeepsCall ==
  ASSUME ListIInv, NEW c \in ListCallers, Call(c)
  PROVE  ListIInv'
<1>0. TypeOK /\ InTransit /\ RefreshInv /\ NewsFree /\ LateNotStale /\ CallsKnow /\ Linked
  BY DEF ListIInv
<1>1. \A h \in Hosts : /\ Started(h) \in Refreshes /\ Started(h).at = "asked"
                       /\ Started(h).startVersions = sessionListSessionVersions[h]
                       /\ Started(h).targets = CaptureTargets(h)
  BY <1>0, StartedType
<1>2. \A h \in Hosts :
        sessionListRefreshes'[h] =
          IF sessionListRefreshes[h].at = "none" THEN Started(h) ELSE sessionListRefreshes[h]
  BY DEF Call
<1>3. sessionListRefreshes' \in [Hosts -> Refreshes]
  BY <1>0, <1>1 DEF TypeOK, Call
<1>4. TypeOK'
  <2>1. /\ listPhase' \in [ListCallers -> {"idle", "waiting", "done"}]
        /\ order' \in Seq(ListCallers) /\ known' \in [ListCallers -> SUBSET Hosts]
    BY <1>0 DEF TypeOK, Call
  <2> QED BY <1>0, <1>3, <2>1 DEF TypeOK, Call, windowVars, hostVars
<1>5. RefreshInv'
  <2>1. sessionListSessionVersions \in [Hosts -> [Sessions -> Nat]]
    BY <1>0 DEF TypeOK
  <2> QED BY <1>0, <1>1, <1>2, <2>1 DEF RefreshInv, Call
<1>6. NewsFree'
  <2>1. \A h \in Hosts, s \in Sessions : Silent(h, s)' =>
          Silent(h, s) /\ sessionListRefreshes'[h] = sessionListRefreshes[h]
    BY <1>1, <1>2 DEF Silent, Call
  <2> QED BY <1>0, <2>1 DEF NewsFree, Call
<1>7. CallsKnow'
  <2>1. /\ listPhase' = [listPhase EXCEPT ![c] = "waiting"]
        /\ known' = [known EXCEPT ![c] = {h \in Hosts : sessionListSnapshots[h] # NoList}]
        /\ UNCHANGED <<sessionListSnapshots, listed>>
    BY DEF Call
  <2>2. \A d \in ListCallers :
          /\ listPhase'[d] = IF d = c THEN "waiting" ELSE listPhase[d]
          /\ known'[d] = IF d = c THEN {h \in Hosts : sessionListSnapshots[h] # NoList} ELSE known[d]
    BY <1>0, <2>1 DEF TypeOK
  <2>3. ASSUME NEW d \in ListCallers, listPhase'[d] = "waiting"
        PROVE  \A h \in known'[d] : sessionListSnapshots'[h] # NoList
    <3>1. sessionListSnapshots' = sessionListSnapshots
      BY <2>1
    <3>2. CASE d = c
      BY <2>2, <3>1, <3>2
    <3>3. CASE d # c
      <4>1. listPhase[d] = "waiting" /\ known'[d] = known[d]
        BY <2>2, <2>3, <3>3
      <4>2. \A h \in known[d] : sessionListSnapshots[h] # NoList
        BY <1>0, <4>1 DEF CallsKnow
      <4> QED BY <3>1, <4>1, <4>2
    <3> QED BY <3>2, <3>3
  <2>4. ASSUME NEW d \in ListCallers, listPhase'[d] = "done"
        PROVE  known'[d] \subseteq listed'[d]
    BY <1>0, <2>1, <2>2, <2>4 DEF CallsKnow, KnownHostsListed
  <2> QED BY <2>3, <2>4 DEF CallsKnow, KnownHostsListed
<1>8. Linked'
  <2>1. \A w \in Windows, h \in Hosts :
          link[w][h] = "ready" => <<w, generation[w][h]>> \in CaptureTargets(h)
    BY <1>0 DEF Linked, CaptureTargets
  <2>2. ASSUME NEW w \in Windows, NEW h \in Hosts
        PROVE  /\ link[w][h] # "down" => window[w] = "open"
               /\ wire[w][h] # <<>> => link[w][h] \in {"attached", "ready"}
               /\ link[w][h] = "ready" /\ sessionListRefreshes'[h].at # "none"
                    => <<w, generation[w][h]>> \in sessionListRefreshes'[h].targets
    <3>1. CASE sessionListRefreshes[h].at = "none"
      BY <1>0, <1>1, <1>2, <2>1, <3>1 DEF Linked
    <3>2. CASE sessionListRefreshes[h].at # "none"
      BY <1>0, <1>2, <3>2 DEF Linked
    <3> QED BY <3>1, <3>2
  <2> QED BY <2>2 DEF Linked, Call, windowVars
<1>9. (InTransit /\ LateNotStale)'
  <2>1. UNCHANGED <<revision, wire, queue, told>>
    BY DEF Call, hostVars
  <2> QED BY <1>0, <2>1, TransitRests
<1> QED BY <1>4, <1>5, <1>6, <1>7, <1>8, <1>9 DEF ListIInv

LEMMA KeepsHostTimeout ==
  ASSUME ListIInv, NEW c \in ListCallers, NEW h \in Hosts, HostTimeout(c, h)
  PROVE  ListIInv'
<1>0. TypeOK /\ InTransit /\ RefreshInv /\ NewsFree /\ LateNotStale /\ CallsKnow /\ Linked
  BY DEF ListIInv
<1> DEFINE r == sessionListRefreshes[h]
           n == [r EXCEPT !.deferred = TRUE]
           results == [got EXCEPT ![c][h] = NoList]
<1>1. r \in Refreshes /\ sessionListRefreshes' = [sessionListRefreshes EXCEPT ![h] = n]
  BY <1>0 DEF TypeOK, HostTimeout
<1>2. results \in [ListCallers -> [Hosts -> Lists \cup {NoList, Pending}]]
  BY <1>0 DEF TypeOK
<1>3. Settle(results, sessionListSnapshots)
  BY DEF HostTimeout
<1> HIDE DEF r, results
<1>4. n \in Refreshes /\ n.at = r.at /\ n.list = r.list /\ n.startVersions = r.startVersions /\ n.targets = r.targets
  BY <1>1 DEF Refreshes
<1> HIDE DEF n
<1>5. /\ sessionListRefreshes' \in [Hosts -> Refreshes]
      /\ \A g \in Hosts :
           /\ sessionListRefreshes'[g].at = sessionListRefreshes[g].at
           /\ sessionListRefreshes'[g].list = sessionListRefreshes[g].list
           /\ sessionListRefreshes'[g].startVersions = sessionListRefreshes[g].startVersions
           /\ sessionListRefreshes'[g].targets = sessionListRefreshes[g].targets
  BY <1>0, <1>1, <1>4 DEF TypeOK, r
<1>6. sessionListSnapshots \in [Hosts -> Lists \cup {NoList}]
  BY <1>0 DEF TypeOK
<1>7. /\ got' = results /\ UNCHANGED <<order, known>>
      /\ listPhase' \in [ListCallers -> {"idle", "waiting", "done"}]
      /\ listed' \in [ListCallers -> SUBSET Hosts]
      /\ sessionListSnapshots' \in [Hosts -> Lists \cup {NoList}]
  BY <1>0, <1>2, <1>3, <1>6, Settles
<1>8. TypeOK'
  BY <1>0, <1>2, <1>5, <1>7 DEF TypeOK, HostTimeout, windowVars, hostVars
<1>9. CallsKnow'
  BY <1>0, <1>2, <1>3, <1>6, SettlesCalls
<1>10. RefreshInv'
  BY <1>0, <1>5 DEF RefreshInv, HostTimeout
<1>11. NewsFree'
  <2>1. UNCHANGED <<queue, told, sessionListSessionVersions>>
    BY DEF HostTimeout
  <2>2. \A g \in Hosts, t \in Sessions : Silent(g, t)' => Silent(g, t)
    BY <1>5, <2>1 DEF Silent
  <2> QED BY <1>0, <1>5, <2>1, <2>2 DEF NewsFree
<1>12. Linked'
  <2>1. UNCHANGED <<window, link, generation, wire>>
    BY DEF HostTimeout, windowVars
  <2> QED BY <1>0, <1>5, <2>1 DEF Linked
<1>13. (InTransit /\ LateNotStale)'
  <2>1. UNCHANGED <<revision, wire, queue, told>>
    BY DEF HostTimeout, hostVars
  <2> QED BY <1>0, <2>1, TransitRests
<1> QED BY <1>8, <1>9, <1>10, <1>11, <1>12, <1>13 DEF ListIInv

LEMMA KeepsAbort ==
  ASSUME ListIInv, NEW c \in ListCallers, Abort(c)
  PROVE  ListIInv'
<1>0. TypeOK /\ InTransit /\ RefreshInv /\ NewsFree /\ LateNotStale /\ CallsKnow /\ Linked
  BY DEF ListIInv
<1> DEFINE results == [got EXCEPT ![c] = [h \in Hosts |-> IF @[h] = Pending THEN NoList ELSE @[h]]]
<1>1. results \in [ListCallers -> [Hosts -> Lists \cup {NoList, Pending}]]
  BY <1>0 DEF TypeOK
<1>2. Settle(results, sessionListSnapshots)
  BY DEF Abort
<1> HIDE DEF results
<1>3. sessionListSnapshots \in [Hosts -> Lists \cup {NoList}]
  BY <1>0 DEF TypeOK
<1>4. /\ got' = results /\ UNCHANGED <<order, known>>
      /\ listPhase' \in [ListCallers -> {"idle", "waiting", "done"}]
      /\ listed' \in [ListCallers -> SUBSET Hosts]
      /\ sessionListSnapshots' \in [Hosts -> Lists \cup {NoList}]
  BY <1>0, <1>1, <1>2, <1>3, Settles
<1>5. TypeOK'
  BY <1>0, <1>1, <1>4 DEF TypeOK, Abort, windowVars, hostVars
<1>6. CallsKnow'
  BY <1>0, <1>1, <1>2, <1>3, SettlesCalls
<1>7. UNCHANGED <<hostVars, sessionListRefreshes, sessionListSessionVersions,
                 archivedSessionIds, windowVars, wire, queue, told>>
  BY DEF Abort
<1>8. (InTransit /\ LateNotStale /\ Linked)'
  <2>1. UNCHANGED <<revision, wire, queue, told>>
    BY <1>7 DEF hostVars
  <2> QED BY <1>0, <1>7, <2>1, TransitRests, LinksRest
<1>9. (RefreshInv /\ NewsFree)'
  BY <1>0, <1>7 DEF RefreshInv, NewsFree, Silent
<1> QED BY <1>5, <1>6, <1>8, <1>9 DEF ListIInv

\* The late frames of a refresh: of the host, each of a session the hub heard
\* nothing of, and one for every such session.
LEMMA LateSequence ==
  ASSUME ListIInv, NEW h \in Hosts, sessionListRefreshes[h].at = "answered", NEW g \in Nat
  PROVE  /\ LateFrames(h, g) \in Seq(Frames)
         /\ \A i \in 1..Len(LateFrames(h, g)) :
              LET f == LateFrames(h, g)[i] IN
              /\ f.type = "late" /\ f.host = h /\ f.session \in Sessions
              /\ Silent(h, f.session) /\ f.revision = sessionListRefreshes[h].list[f.session]
         /\ \A s \in Sessions :
              sessionListRefreshes[h].list[s] # Absent /\ CanPublishLate(h, s) =>
                \E i \in 1..Len(LateFrames(h, g)) :
                  LateFrames(h, g)[i] = Frame("late", h, s, sessionListRefreshes[h].list[s], g)
<1> DEFINE list == sessionListRefreshes[h].list
           late == {s \in Sessions : list[s] # Absent /\ CanPublishLate(h, s)}
           S == {Frame("late", h, s, list[s], g) : s \in late}
<1>1. list \in Lists
  BY DEF ListIInv, RefreshInv
<1>2. \A s \in late : s \in Sessions /\ list[s] \in Nat /\ Silent(h, s)
  BY <1>1, ListMember DEF CanPublishLate, Silent
<1> HIDE DEF list, late
<1>3. IsFiniteSet(S)
  <2>1. IsFiniteSet(late)
    BY FS_Subset, ListAssumption DEF late
  <2> DEFINE m == [s \in late |-> Frame("late", h, s, list[s], g)]
  <2>2. m \in Surjection(late, S)
    BY DEF Surjection
  <2> HIDE DEF S, m
  <2> QED BY <2>1, <2>2, FS_Surjection
<1> DEFINE q == SetToSeq(S)
<1>4. q \in Seq(S) /\ \A x \in S : \E i \in 1..Len(q) : q[i] = x
  BY <1>3, SetInSequence
<1>5. ASSUME NEW f \in S
      PROVE  /\ f \in Frames /\ f.type = "late" /\ f.host = h /\ f.session \in Sessions
             /\ Silent(h, f.session) /\ f.revision = list[f.session]
  <2>1. PICK s \in late : f = Frame("late", h, s, list[s], g)
    OBVIOUS
  <2>2. s \in Sessions /\ list[s] \in Nat /\ Silent(h, s)
    BY <1>2
  <2> HIDE DEF S
  <2> QED BY <2>1, <2>2, FrameFields
<1>6. LateFrames(h, g) = q
  BY DEF LateFrames, list, late
<1>7. \A s \in late : Frame("late", h, s, list[s], g) \in S
  OBVIOUS
<1> HIDE DEF S, q
<1>8. q \in Seq(Frames) /\ \A i \in 1..Len(q) : q[i] \in S
  BY <1>4, <1>5
<1> QED BY <1>4, <1>5, <1>6, <1>7, <1>8 DEF list, late

LEMMA KeepsReply ==
  ASSUME ListIInv, NEW h \in Hosts, NEW ok \in BOOLEAN, Reply(h, ok)
  PROVE  ListIInv'
<1>0. TypeOK /\ InTransit /\ RefreshInv /\ NewsFree /\ LateNotStale /\ CallsKnow /\ Linked
  BY DEF ListIInv
<1> DEFINE r == sessionListRefreshes[h]
           list == IF ok THEN r.list ELSE NoList
           results == [c \in ListCallers |-> IF listPhase[c] = "waiting" /\ got[c][h] = Pending
                                   THEN [got[c] EXCEPT ![h] = list] ELSE got[c]]
           snapshots == IF ok THEN [sessionListSnapshots EXCEPT ![h] = list] ELSE sessionListSnapshots
<1>1. r \in Refreshes /\ (ok => r.at = "answered" /\ r.list \in Lists)
  BY <1>0 DEF TypeOK, Reply, RefreshInv
<1>2. list \in Lists \cup {NoList} /\ (ok => list \in Lists)
  BY <1>1
<1>3. /\ sessionListRefreshes' = [sessionListRefreshes EXCEPT ![h] = NoRefresh]
      /\ queue' = IF ok /\ r.deferred THEN [w \in Windows |-> Published(h, w)] ELSE queue
      /\ Settle(results, snapshots)
      /\ UNCHANGED <<hostVars, sessionListSessionVersions, archivedSessionIds, windowVars, wire, told>>
  BY DEF Reply
<1> HIDE DEF list, r
<1>4. results \in [ListCallers -> [Hosts -> Lists \cup {NoList, Pending}]]
  <2>1. \A c \in ListCallers : got[c] \in [Hosts -> Lists \cup {NoList, Pending}]
    BY <1>0 DEF TypeOK
  <2>2. \A c \in ListCallers : [got[c] EXCEPT ![h] = list] \in [Hosts -> Lists \cup {NoList, Pending}]
    BY <1>2, <2>1
  <2> QED BY <2>1, <2>2
<1>5. /\ snapshots \in [Hosts -> Lists \cup {NoList}]
      /\ \A g \in Hosts : sessionListSnapshots[g] # NoList => snapshots[g] # NoList
  <2>1. sessionListSnapshots \in [Hosts -> Lists \cup {NoList}]
    BY <1>0 DEF TypeOK
  <2>2. ok => list # NoList
    BY <1>2, ListAssumption
  <2> QED BY <1>2, <2>1, <2>2
<1> HIDE DEF results, snapshots
<1>6. /\ sessionListRefreshes' \in [Hosts -> Refreshes] /\ sessionListRefreshes'[h].at = "none"
      /\ \A g \in Hosts : g # h => sessionListRefreshes'[g] = sessionListRefreshes[g]
  BY <1>0, <1>3, NoRefreshType DEF TypeOK
\* What a queue has more are late frames.
<1>7. \A w \in Windows :
        \/ queue'[w] = queue[w]
        \/ /\ ok /\ generation[w][h] \in Nat
           /\ queue'[w] = queue[w] \o LateFrames(h, generation[w][h])
  BY <1>0, <1>3 DEF Published, TypeOK
<1>8. ASSUME ok, NEW g \in Nat
      PROVE  /\ LateFrames(h, g) \in Seq(Frames)
             /\ \A i \in 1..Len(LateFrames(h, g)) :
                  LET f == LateFrames(h, g)[i] IN
                  /\ f.type = "late" /\ f.host = h /\ f.session \in Sessions
                  /\ Silent(h, f.session) /\ f.revision = sessionListRefreshes[h].list[f.session]
  <2>1. sessionListRefreshes[h].at = "answered"
    BY <1>1, <1>8 DEF r
  <2> QED BY <2>1, LateSequence
<1>9. queue \in [Windows -> Seq(Frames)]
  BY <1>0 DEF TypeOK
<1>10. ASSUME NEW w \in Windows
       PROVE  /\ queue'[w] \in Seq(Frames)
              /\ \A i \in 1..Len(queue'[w]) :
                   \/ i \in 1..Len(queue[w]) /\ queue'[w][i] = queue[w][i]
                   \/ queue'[w][i].type = "late" /\ queue'[w][i].session \in Sessions
              /\ FreshIn(queue'[w], told[w])
  <2>1. FreshIn(queue[w], told[w])
    BY <1>0, FreshQueues
  <2>2. CASE queue'[w] = queue[w]
    BY <1>9, <2>1, <2>2
  <2>3. CASE ok /\ generation[w][h] \in Nat /\ queue'[w] = queue[w] \o LateFrames(h, generation[w][h])
    <3> DEFINE l == LateFrames(h, generation[w][h])
               q == queue[w]
    <3>1. /\ l \in Seq(Frames)
          /\ \A i \in 1..Len(l) :
               /\ l[i].type = "late" /\ l[i].host = h /\ l[i].session \in Sessions
               /\ Silent(h, l[i].session) /\ l[i].revision = sessionListRefreshes[h].list[l[i].session]
      BY <1>8, <2>3
    <3> HIDE DEF l
    <3>2. \A i \in 1..Len(l) :
            /\ l[i].type = "late" /\ told[w][l[i].host][l[i].session] <= l[i].revision
            /\ \A j \in 1..Len(q) :
                 q[j].type = "event" /\ q[j].host = l[i].host /\ q[j].session = l[i].session
                   => q[j].revision <= l[i].revision
      <4> SUFFICES ASSUME NEW i \in 1..Len(l)
                   PROVE  /\ l[i].type = "late" /\ told[w][l[i].host][l[i].session] <= l[i].revision
                          /\ \A j \in 1..Len(q) :
                               q[j].type = "event" /\ q[j].host = l[i].host /\ q[j].session = l[i].session
                                 => q[j].revision <= l[i].revision
        OBVIOUS
      <4> DEFINE f == l[i]
      <4>1. /\ f.type = "late" /\ f.host = h /\ f.session \in Sessions /\ Silent(h, f.session)
            /\ f.revision = sessionListRefreshes[h].list[f.session]
        BY <3>1
      <4> HIDE DEF f
      <4>2. /\ told[w][h][f.session] <= f.revision
            /\ \A j \in 1..Len(q) :
                 q[j].type = "event" /\ q[j].host = h /\ q[j].session = f.session
                   => q[j].revision <= f.revision
        BY <1>0, <4>1 DEF NewsFree
      <4> QED BY <4>1, <4>2 DEF f
    <3>3. q \in Seq(Frames) /\ FreshIn(q, told[w]) /\ queue'[w] = q \o l
      BY <1>9, <2>1, <2>3 DEF l
    <3> HIDE DEF q
    <3>4. FreshIn(q \o l, told[w])
      BY <3>1, <3>2, <3>3, FreshConcat
    <3>5. /\ q \o l \in Seq(Frames)
          /\ \A i \in 1..Len(q \o l) :
               \/ i \in 1..Len(q) /\ (q \o l)[i] = q[i]
               \/ i - Len(q) \in 1..Len(l) /\ (q \o l)[i] = l[i - Len(q)]
      BY <3>1, <3>3
    <3> QED BY <3>1, <3>3, <3>4, <3>5 DEF q
  <2> QED BY <1>7, <2>2, <2>3
<1>11. queue' \in [Windows -> Seq(Frames)]
  BY <1>3, <1>9, <1>10
<1>12. /\ got' = results /\ UNCHANGED <<order, known>>
       /\ listPhase' \in [ListCallers -> {"idle", "waiting", "done"}]
       /\ listed' \in [ListCallers -> SUBSET Hosts]
       /\ sessionListSnapshots' \in [Hosts -> Lists \cup {NoList}]
  BY <1>0, <1>3, <1>4, <1>5, Settles
<1>13. TypeOK'
  BY <1>0, <1>3, <1>4, <1>6, <1>11, <1>12 DEF TypeOK, windowVars, hostVars
<1>14. CallsKnow'
  BY <1>0, <1>3, <1>4, <1>5, SettlesCalls
<1>15. RefreshInv'
  BY <1>0, <1>3, <1>6 DEF RefreshInv
<1>16. NewsFree'
  <2> SUFFICES ASSUME NEW g \in Hosts, NEW s \in Sessions, Silent(g, s)', NEW w \in Windows
               PROVE  /\ told[w][g][s] <= sessionListRefreshes'[g].list[s]
                      /\ \A i \in 1..Len(queue'[w]) :
                           queue'[w][i].type = "event" /\ queue'[w][i].host = g /\ queue'[w][i].session = s
                             => queue'[w][i].revision <= sessionListRefreshes'[g].list[s]
    BY <1>3 DEF NewsFree
  <2>1. Silent(g, s) /\ sessionListRefreshes'[g] = sessionListRefreshes[g]
    BY <1>3, <1>6 DEF Silent
  <2>2. /\ told[w][g][s] <= sessionListRefreshes[g].list[s]
        /\ \A i \in 1..Len(queue[w]) :
             queue[w][i].type = "event" /\ queue[w][i].host = g /\ queue[w][i].session = s
               => queue[w][i].revision <= sessionListRefreshes[g].list[s]
    BY <1>0, <2>1 DEF NewsFree
  <2>3. \A i \in 1..Len(queue'[w]) : queue'[w][i].type = "event" =>
          i \in 1..Len(queue[w]) /\ queue'[w][i] = queue[w][i]
    BY <1>10
  <2> QED BY <2>1, <2>2, <2>3
<1>17. LateNotStale'
  <2>1. told' = told
    BY <1>3
  <2> QED BY <1>10, <2>1, FreshQueuesNext
<1>18. InTransit'
  <2>1. revision' = revision /\ wire' = wire /\ told' = told
    BY <1>3 DEF hostVars
  <2>2. ASSUME NEW w \in Windows, NEW i \in 1..Len(queue'[w])
        PROVE  /\ queue'[w][i].type \in {"event", "late"} => queue'[w][i].session \in Sessions
               /\ queue'[w][i].type = "event" =>
                    queue'[w][i].revision <= revision[queue'[w][i].host][queue'[w][i].session]
    <3>1. CASE i \in 1..Len(queue[w]) /\ queue'[w][i] = queue[w][i]
      BY <1>0, <3>1 DEF InTransit
    <3>2. CASE queue'[w][i].type = "late" /\ queue'[w][i].session \in Sessions
      BY <3>2
    <3> QED BY <1>10, <3>1, <3>2
  <2> QED BY <1>0, <2>1, <2>2 DEF InTransit
<1>19. Linked'
  BY <1>0, <1>3, <1>6 DEF Linked, windowVars
<1> QED BY <1>13, <1>14, <1>15, <1>16, <1>17, <1>18, <1>19 DEF ListIInv

\* The actions that only make or break connections.
LEMMA KeepsConnections ==
  ASSUME ListIInv, NEW w \in Windows,
         OpenWindow(w) \/ \E h \in Hosts : Attach(w, h) \/ LinkEnds(w, h) \/ Reconnect(w, h)
  PROVE  ListIInv'
<1>0. TypeOK /\ InTransit /\ RefreshInv /\ NewsFree /\ LateNotStale /\ CallsKnow /\ Linked
  BY DEF ListIInv
<1>1. /\ window \in [Windows -> {"new", "open", "gone"}]
      /\ link \in [Windows -> [Hosts -> {"down", "opening", "attached", "ready"}]]
      /\ generation \in [Windows -> [Hosts -> Nat]]
      /\ wire \in [Windows -> [Hosts -> Seq(Frames)]]
  BY <1>0 DEF TypeOK
<1>2. UNCHANGED <<hostVars, sessionListRefreshes, sessionListSnapshots, sessionListSessionVersions,
                  archivedSessionIds, callVars, queue, told>>
  BY DEF OpenWindow, Attach, LinkEnds, Reconnect
<1> DEFINE Parts == /\ window' \in [Windows -> {"new", "open", "gone"}]
                    /\ link' \in [Windows -> [Hosts -> {"down", "opening", "attached", "ready"}]]
                    /\ generation' \in [Windows -> [Hosts -> Nat]]
                    /\ wire' \in [Windows -> [Hosts -> Seq(Frames)]]
           StandsAt(v, g) ==
             /\ \/ wire'[v][g] = wire[v][g]
                \/ wire'[v][g] = <<>>
                \/ wire'[v][g] = <<Frame("ready", g, NoList, 0, 0)>> /\ link'[v][g] = "attached"
             /\ link'[v][g] # "down" => window'[v] = "open"
             /\ wire'[v][g] # <<>> => link'[v][g] \in {"attached", "ready"}
             /\ link'[v][g] = "ready" => link[v][g] = "ready" /\ generation'[v][g] = generation[v][g]
           Stands == \A v \in Windows, g \in Hosts : StandsAt(v, g)
<1>9. ASSUME NEW v \in Windows, NEW g \in Hosts
      PROVE  /\ link[v][g] # "down" => window[v] = "open"
             /\ wire[v][g] # <<>> => link[v][g] \in {"attached", "ready"}
  BY <1>0 DEF Linked
<1>3. ASSUME OpenWindow(w) PROVE Parts /\ Stands
  <2>1. \A g \in Hosts : link[w][g] = "down" /\ wire[w][g] = <<>>
    BY <1>0, <1>1, <1>3 DEF OpenWindow, Linked
  <2>2. /\ window' = [window EXCEPT ![w] = "open"]
        /\ link' = [link EXCEPT ![w] = [g \in Hosts |-> "opening"]]
        /\ generation' = [generation EXCEPT ![w] = [g \in Hosts |-> 1]]
        /\ wire' = wire
    BY <1>3 DEF OpenWindow
  <2>3. Parts
    BY <1>1, <2>2
  <2>4. \A v \in Windows, g \in Hosts :
          /\ link'[v][g] = IF v = w THEN "opening" ELSE link[v][g]
          /\ v # w => window'[v] = window[v] /\ generation'[v] = generation[v]
          /\ wire'[v][g] = wire[v][g]
    BY <1>1, <2>2
  <2>5. window'[w] = "open"
    BY <1>1, <2>2
  <2>6. Stands
    <3> SUFFICES ASSUME NEW v \in Windows, NEW g \in Hosts PROVE StandsAt(v, g)
      OBVIOUS
    <3>1. CASE v = w
      BY <1>9, <2>1, <2>4, <2>5, <3>1
    <3>2. CASE ~(v = w)
      BY <1>9, <2>1, <2>4, <2>5, <3>2
    <3> QED BY <3>1, <3>2
  <2> QED BY <2>3, <2>6
<1>4. ASSUME NEW h \in Hosts, Attach(w, h) PROVE Parts /\ Stands
  <2>1. /\ link' = [link EXCEPT ![w][h] = "attached"]
        /\ wire' = [wire EXCEPT ![w][h] = <<Frame("ready", h, NoList, 0, 0)>>]
        /\ window' = window /\ generation' = generation /\ link[w][h] = "opening"
    BY <1>4 DEF Attach
  <2>2. <<Frame("ready", h, NoList, 0, 0)>> \in Seq(Frames)
    <3>1. Frame("ready", h, NoList, 0, 0) \in Frames
      BY FrameFields
    <3> QED BY <3>1
  <2>3. Parts
    BY <1>1, <2>1, <2>2
  <2>4. \A v \in Windows, g \in Hosts :
          /\ link'[v][g] = IF v = w /\ g = h THEN "attached" ELSE link[v][g]
          /\ wire'[v][g] = IF v = w /\ g = h THEN <<Frame("ready", h, NoList, 0, 0)>> ELSE wire[v][g]
    BY <1>1, <2>1
  <2>5. link[w][h] = "opening" /\ window' = window /\ generation' = generation
    BY <2>1
  <2>6. Stands
    <3> SUFFICES ASSUME NEW v \in Windows, NEW g \in Hosts PROVE StandsAt(v, g)
      OBVIOUS
    <3>1. CASE v = w /\ g = h
      BY <1>9, <2>4, <2>5, <3>1
    <3>2. CASE ~(v = w /\ g = h)
      BY <1>9, <2>4, <2>5, <3>2
    <3> QED BY <3>1, <3>2
  <2> QED BY <2>3, <2>6
<1>5. ASSUME NEW h \in Hosts, LinkEnds(w, h) PROVE Parts /\ Stands
  <2>1. /\ link' = [link EXCEPT ![w][h] = "down"] /\ wire' = [wire EXCEPT ![w][h] = <<>>]
        /\ window' = window /\ generation' = generation
    BY <1>5 DEF LinkEnds
  <2>2. Parts
    BY <1>1, <2>1
  <2>4. \A v \in Windows, g \in Hosts :
          /\ link'[v][g] = IF v = w /\ g = h THEN "down" ELSE link[v][g]
          /\ wire'[v][g] = IF v = w /\ g = h THEN <<>> ELSE wire[v][g]
    BY <1>1, <2>1
  <2>5. window' = window /\ generation' = generation
    BY <2>1
  <2>3. Stands
    <3> SUFFICES ASSUME NEW v \in Windows, NEW g \in Hosts PROVE StandsAt(v, g)
      OBVIOUS
    <3>1. CASE v = w /\ g = h
      BY <1>9, <2>4, <2>5, <3>1
    <3>2. CASE ~(v = w /\ g = h)
      BY <1>9, <2>4, <2>5, <3>2
    <3> QED BY <3>1, <3>2
  <2> QED BY <2>2, <2>3
<1>6. ASSUME NEW h \in Hosts, Reconnect(w, h) PROVE Parts /\ Stands
  <2>1. /\ link' = [link EXCEPT ![w][h] = "opening"]
        /\ generation' = [generation EXCEPT ![w][h] = @ + 1]
        /\ window' = window /\ wire' = wire /\ window[w] = "open" /\ link[w][h] = "down"
    BY <1>6 DEF Reconnect
  <2>2. Parts
    BY <1>1, <2>1
  <2>4. \A v \in Windows, g \in Hosts :
          /\ link'[v][g] = IF v = w /\ g = h THEN "opening" ELSE link[v][g]
          /\ generation'[v][g] = IF v = w /\ g = h THEN generation[v][g] + 1 ELSE generation[v][g]
    BY <1>1, <2>1
  <2>5. window' = window /\ wire' = wire /\ window[w] = "open" /\ link[w][h] = "down"
    BY <2>1
  <2>3. Stands
    <3> SUFFICES ASSUME NEW v \in Windows, NEW g \in Hosts PROVE StandsAt(v, g)
      OBVIOUS
    <3>1. CASE v = w /\ g = h
      BY <1>9, <2>4, <2>5, <3>1
    <3>2. CASE ~(v = w /\ g = h)
      BY <1>9, <2>4, <2>5, <3>2
    <3> QED BY <3>1, <3>2
  <2> QED BY <2>2, <2>3
<1> HIDE DEF Parts, Stands
<1>7. Parts /\ Stands
  BY <1>3, <1>4, <1>5, <1>6
<1>8. TypeOK'
  BY <1>0, <1>2, <1>7 DEF TypeOK, hostVars, callVars, Parts
<1>13. Linked'
  <2>1. ASSUME NEW v \in Windows, NEW g \in Hosts
        PROVE  link'[v][g] = "ready" /\ sessionListRefreshes[g].at # "none"
                 => <<v, generation'[v][g]>> \in sessionListRefreshes[g].targets
    BY <1>0, <1>7 DEF Linked, Stands, StandsAt
  <2> QED BY <1>2, <1>7, <2>1 DEF Linked, Stands, StandsAt
<1>10. InTransit'
  <2>1. revision' = revision /\ told' = told /\ queue' = queue
    BY <1>2 DEF hostVars
  <2>2. ASSUME NEW v \in Windows, NEW g \in Hosts, NEW i \in 1..Len(wire'[v][g]),
               wire'[v][g][i].type = "event"
        PROVE  /\ wire'[v][g][i].host = g /\ wire'[v][g][i].session \in Sessions
               /\ wire'[v][g][i].revision <= revision[g][wire'[v][g][i].session]
    <3>1. Len(<<Frame("ready", g, NoList, 0, 0)>>) = 1
          /\ <<Frame("ready", g, NoList, 0, 0)>>[1].type = "ready"
      BY FrameFields
    <3>2. CASE wire'[v][g] = wire[v][g]
      BY <1>0, <2>2, <3>2 DEF InTransit
    <3>3. CASE wire'[v][g] = <<>>
      BY <3>3
    <3>4. CASE wire'[v][g] = <<Frame("ready", g, NoList, 0, 0)>>
      BY <2>2, <3>1, <3>4
    <3> QED BY <1>7, <3>2, <3>3, <3>4 DEF Stands, StandsAt
  <2> QED BY <1>0, <2>1, <2>2 DEF InTransit
<1>11. (RefreshInv /\ NewsFree /\ LateNotStale)'
  BY <1>0, <1>2 DEF RefreshInv, NewsFree, Silent, LateNotStale
<1>12. CallsKnow'
  BY <1>0, <1>2 DEF CallsKnow, KnownHostsListed, callVars
<1> QED BY <1>8, <1>10, <1>13, <1>11, <1>12 DEF ListIInv

LEMMA KeepsCloseWindow ==
  ASSUME ListIInv, NEW w \in Windows, CloseWindow(w)
  PROVE  ListIInv'
<1>0. TypeOK /\ InTransit /\ RefreshInv /\ NewsFree /\ LateNotStale /\ CallsKnow /\ Linked
  BY DEF ListIInv
<1>1. /\ window \in [Windows -> {"new", "open", "gone"}]
      /\ link \in [Windows -> [Hosts -> {"down", "opening", "attached", "ready"}]]
      /\ wire \in [Windows -> [Hosts -> Seq(Frames)]] /\ queue \in [Windows -> Seq(Frames)]
  BY <1>0 DEF TypeOK
<1>2. /\ window' = [window EXCEPT ![w] = "gone"]
      /\ link' = [link EXCEPT ![w] = [h \in Hosts |-> "down"]]
      /\ wire' = [wire EXCEPT ![w] = [h \in Hosts |-> <<>>]]
      /\ queue' = [queue EXCEPT ![w] = <<>>]
      /\ UNCHANGED <<hostVars, sessionListRefreshes, sessionListSnapshots, generation,
                     sessionListSessionVersions, archivedSessionIds, callVars, told>>
  BY DEF CloseWindow
<1>3. \A v \in Windows : queue'[v] = IF v = w THEN <<>> ELSE queue[v]
  BY <1>1, <1>2
<1>4. \A v \in Windows, g \in Hosts :
        /\ wire'[v][g] = IF v = w THEN <<>> ELSE wire[v][g]
        /\ link'[v][g] = IF v = w THEN "down" ELSE link[v][g]
        /\ v # w => window'[v] = window[v]
  BY <1>1, <1>2
<1>5. TypeOK'
  <2>1. /\ window' \in [Windows -> {"new", "open", "gone"}]
        /\ link' \in [Windows -> [Hosts -> {"down", "opening", "attached", "ready"}]]
        /\ wire' \in [Windows -> [Hosts -> Seq(Frames)]] /\ queue' \in [Windows -> Seq(Frames)]
    BY <1>1, <1>2
  <2> QED BY <1>0, <1>2, <2>1 DEF TypeOK, hostVars, callVars
<1>6. Linked'
  BY <1>0, <1>2, <1>4 DEF Linked
<1>7. InTransit'
  BY <1>0, <1>2, <1>3, <1>4 DEF InTransit, hostVars
<1>8. NewsFree'
  BY <1>0, <1>2, <1>3 DEF NewsFree, Silent
<1>9. LateNotStale'
  <2>1. \A v \in Windows : FreshIn(queue'[v], told'[v])
    <3> SUFFICES ASSUME NEW v \in Windows PROVE FreshIn(queue'[v], told[v])
      BY <1>2
    <3>1. CASE v = w
      BY <1>3, <3>1 DEF FreshIn
    <3>2. CASE v # w
      BY <1>0, <1>3, <3>2, FreshQueues
    <3> QED BY <3>1, <3>2
  <2> QED BY <2>1, FreshQueuesNext
<1>10. RefreshInv'
  BY <1>0, <1>2 DEF RefreshInv
<1>11. CallsKnow'
  BY <1>0, <1>2 DEF CallsKnow, KnownHostsListed, callVars
<1> QED BY <1>5, <1>6, <1>7, <1>8, <1>9, <1>10, <1>11 DEF ListIInv

\* A pump passes the first frame of its connection on.
LEMMA Passed ==
  ASSUME ListIInv, NEW w \in Windows, NEW h \in Hosts, wire[w][h] # <<>>,
         wire' = [wire EXCEPT ![w][h] = Tail(@)],
         queue' = [queue EXCEPT ![w] = Append(@, Head(wire[w][h]))],
         Head(wire[w][h]).type # "late",
         UNCHANGED <<revision, told>>
  PROVE  /\ Head(wire[w][h]) \in Frames
         /\ wire' \in [Windows -> [Hosts -> Seq(Frames)]] /\ queue' \in [Windows -> Seq(Frames)]
         /\ InTransit' /\ LateNotStale'
         /\ \A v \in Windows, g \in Hosts : wire'[v][g] # <<>> => wire[v][g] # <<>>
         /\ \A v \in Windows : \A i \in 1..Len(queue'[v]) :
              \/ i \in 1..Len(queue[v]) /\ queue'[v][i] = queue[v][i]
              \/ queue'[v][i] = Head(wire[w][h])
<1>0. TypeOK /\ InTransit /\ LateNotStale
  BY DEF ListIInv
<1> DEFINE f == Head(wire[w][h])
<1>1. /\ wire \in [Windows -> [Hosts -> Seq(Frames)]] /\ queue \in [Windows -> Seq(Frames)]
      /\ wire[w][h] \in Seq(Frames)
  BY <1>0 DEF TypeOK
<1>2. f \in Frames /\ f = wire[w][h][1] /\ 1 \in 1..Len(wire[w][h])
  BY <1>1
<1>3. f.type = "event" => f.host = h /\ f.session \in Sessions /\ f.revision <= revision[h][f.session]
  BY <1>0, <1>2 DEF InTransit
<1>4. /\ \A v \in Windows, g \in Hosts :
           wire'[v][g] = IF v = w /\ g = h THEN Tail(wire[w][h]) ELSE wire[v][g]
      /\ \A v \in Windows : queue'[v] = IF v = w THEN Append(queue[w], f) ELSE queue[v]
  BY <1>1
<1> HIDE DEF f
<1>5. wire' \in [Windows -> [Hosts -> Seq(Frames)]] /\ queue' \in [Windows -> Seq(Frames)]
  <2>1. Tail(wire[w][h]) \in Seq(Frames) /\ Append(queue[w], f) \in Seq(Frames)
    BY <1>1, <1>2
  <2> QED BY <1>1, <2>1 DEF f
<1>6. \A v \in Windows, g \in Hosts : \A i \in 1..Len(wire'[v][g]) :
        \E j \in 1..Len(wire[v][g]) : wire'[v][g][i] = wire[v][g][j]
  <2> SUFFICES ASSUME NEW v \in Windows, NEW g \in Hosts, NEW i \in 1..Len(wire'[v][g])
               PROVE  \E j \in 1..Len(wire[v][g]) : wire'[v][g][i] = wire[v][g][j]
    OBVIOUS
  <2>1. CASE v = w /\ g = h
    <3>1. /\ wire'[v][g] = Tail(wire[v][g])
          /\ i + 1 \in 1..Len(wire[v][g]) /\ wire'[v][g][i] = wire[v][g][i + 1]
      BY <1>1, <1>4, <2>1
    <3> QED BY <3>1
  <2>2. CASE ~(v = w /\ g = h)
    BY <1>4, <2>2
  <2> QED BY <2>1, <2>2
<1>7. \A v \in Windows : \A i \in 1..Len(queue'[v]) :
        \/ i \in 1..Len(queue[v]) /\ queue'[v][i] = queue[v][i]
        \/ queue'[v][i] = f
  <2> SUFFICES ASSUME NEW v \in Windows, NEW i \in 1..Len(queue'[v]),
                      ~(i \in 1..Len(queue[v]) /\ queue'[v][i] = queue[v][i])
               PROVE  queue'[v][i] = f
    OBVIOUS
  <2>1. queue'[v] = Append(queue[v], f) /\ queue[v] \in Seq(Frames)
    BY <1>1, <1>4
  <2> QED BY <2>1
<1>8. InTransit'
  <2>1. ASSUME NEW v \in Windows, NEW g \in Hosts, NEW i \in 1..Len(wire'[v][g]),
               wire'[v][g][i].type = "event"
        PROVE  /\ wire'[v][g][i].host = g /\ wire'[v][g][i].session \in Sessions
               /\ wire'[v][g][i].revision <= revision[g][wire'[v][g][i].session]
    <3>1. PICK j \in 1..Len(wire[v][g]) : wire'[v][g][i] = wire[v][g][j]
      BY <1>6
    <3> DEFINE x == wire[v][g][j]
    <3>2. x.type = "event" => x.host = g /\ x.session \in Sessions /\ x.revision <= revision[g][x.session]
      BY <1>0 DEF InTransit
    <3> HIDE DEF x
    <3>3. wire'[v][g][i] = x
      BY <3>1 DEF x
    <3> QED BY <2>1, <3>2, <3>3
  <2>2. ASSUME NEW v \in Windows, NEW i \in 1..Len(queue'[v])
        PROVE  /\ queue'[v][i].type \in {"event", "late"} => queue'[v][i].session \in Sessions
               /\ queue'[v][i].type = "event" =>
                    queue'[v][i].revision <= revision[queue'[v][i].host][queue'[v][i].session]
    <3>1. CASE i \in 1..Len(queue[v]) /\ queue'[v][i] = queue[v][i]
      BY <1>0, <3>1 DEF InTransit
    <3>2. CASE queue'[v][i] = f
      <4>1. f.type # "late"
        BY DEF f
      <4> QED BY <1>3, <3>2, <4>1
    <3> QED BY <1>7, <3>1, <3>2
  <2>3. revision' = revision /\ told' = told
    OBVIOUS
  <2>4. \A v \in Windows, g \in Hosts, t \in Sessions : told[v][g][t] <= revision[g][t]
    BY <1>0 DEF InTransit
  <2> QED BY ONLY <2>1, <2>2, <2>3, <2>4 DEF InTransit
<1>9. LateNotStale'
  <2>1. \A v \in Windows : FreshIn(queue'[v], told'[v])
    <3> SUFFICES ASSUME NEW v \in Windows PROVE FreshIn(queue'[v], told[v])
      OBVIOUS
    <3>1. FreshIn(queue[v], told[v]) /\ queue[v] \in Seq(Frames)
      BY <1>0, <1>1, FreshQueues
    <3>2. f.type # "late"
      BY DEF f
    <3>3. FreshIn(Append(queue[v], f), told[v])
      BY <1>2, <3>1, <3>2, FreshAppend
    <3> QED BY <1>4, <3>1, <3>3
  <2> QED BY <2>1, FreshQueuesNext
<1>10. \A v \in Windows, g \in Hosts : wire'[v][g] # <<>> => wire[v][g] # <<>>
  BY <1>4
<1> QED BY <1>2, <1>5, <1>7, <1>8, <1>9, <1>10 DEF f

LEMMA KeepsReceiveReady ==
  ASSUME ListIInv, NEW w \in Windows, NEW h \in Hosts, ReceiveReady(w, h)
  PROVE  ListIInv'
<1>0. TypeOK /\ InTransit /\ RefreshInv /\ NewsFree /\ LateNotStale /\ CallsKnow /\ Linked
  BY DEF ListIInv
<1>1. /\ wire[w][h] # <<>> /\ Head(wire[w][h]).type = "ready"
      /\ wire' = [wire EXCEPT ![w][h] = Tail(@)]
      /\ link' = [link EXCEPT ![w][h] = "ready"]
      /\ sessionListRefreshes' = RegisterTargets(w, h)
      /\ queue' = [queue EXCEPT ![w] = Append(@, Head(wire[w][h]))]
      /\ UNCHANGED <<hostVars, sessionListSnapshots, sessionListSessionVersions,
                     archivedSessionIds, callVars, window, generation, told>>
  BY DEF ReceiveReady
<1>2. /\ wire' \in [Windows -> [Hosts -> Seq(Frames)]] /\ queue' \in [Windows -> Seq(Frames)]
      /\ InTransit' /\ LateNotStale'
      /\ \A v \in Windows, g \in Hosts : wire'[v][g] # <<>> => wire[v][g] # <<>>
      /\ \A v \in Windows : \A i \in 1..Len(queue'[v]) :
           \/ i \in 1..Len(queue[v]) /\ queue'[v][i] = queue[v][i]
           \/ queue'[v][i] = Head(wire[w][h])
  BY <1>1, Passed DEF hostVars
<1> DEFINE r == sessionListRefreshes[h]
           n == [r EXCEPT !.targets = @ \cup {<<w, generation[w][h]>>}]
<1>3. r \in Refreshes /\ generation[w][h] \in Nat
  BY <1>0 DEF TypeOK
<1>4. /\ sessionListRefreshes' \in [Hosts -> Refreshes]
      /\ \A g \in Hosts :
           /\ sessionListRefreshes'[g].at = sessionListRefreshes[g].at
           /\ sessionListRefreshes'[g].list = sessionListRefreshes[g].list
           /\ sessionListRefreshes'[g].startVersions = sessionListRefreshes[g].startVersions
           /\ sessionListRefreshes[g].targets \subseteq sessionListRefreshes'[g].targets
      /\ r.at # "none" => <<w, generation[w][h]>> \in sessionListRefreshes'[h].targets
  <2>1. CASE r.at = "none"
    <3>1. sessionListRefreshes' = sessionListRefreshes
      BY <1>1, <2>1 DEF RegisterTargets
    <3> QED BY <1>0, <2>1, <3>1 DEF TypeOK
  <2>2. CASE r.at # "none"
    <3>1. sessionListRefreshes' = [sessionListRefreshes EXCEPT ![h] = n]
      BY <1>1, <2>2 DEF RegisterTargets
    <3>2. sessionListRefreshes \in [Hosts -> Refreshes]
      BY <1>0 DEF TypeOK
    <3> HIDE DEF r
    <3>3. /\ n \in Refreshes /\ n.at = r.at /\ n.list = r.list /\ n.startVersions = r.startVersions
          /\ n.targets = r.targets \cup {<<w, generation[w][h]>>}
      BY <1>3 DEF Refreshes
    <3> HIDE DEF n
    <3> QED BY <3>1, <3>2, <3>3 DEF r
  <2> QED BY <2>1, <2>2
<1>5. \A v \in Windows, g \in Hosts : link'[v][g] = IF v = w /\ g = h THEN "ready" ELSE link[v][g]
  BY <1>0, <1>1 DEF TypeOK
<1>6. TypeOK'
  <2>1. link' \in [Windows -> [Hosts -> {"down", "opening", "attached", "ready"}]]
    BY <1>0, <1>1 DEF TypeOK
  <2> QED BY <1>0, <1>1, <1>2, <1>4, <2>1 DEF TypeOK, hostVars, callVars
<1>7. RefreshInv'
  BY <1>0, <1>1, <1>4 DEF RefreshInv
<1>8. NewsFree'
  <2> SUFFICES ASSUME NEW g \in Hosts, NEW s \in Sessions, Silent(g, s)', NEW v \in Windows
               PROVE  /\ told[v][g][s] <= sessionListRefreshes[g].list[s]
                      /\ \A i \in 1..Len(queue'[v]) :
                           queue'[v][i].type = "event" /\ queue'[v][i].host = g /\ queue'[v][i].session = s
                             => queue'[v][i].revision <= sessionListRefreshes[g].list[s]
    BY <1>1, <1>4 DEF NewsFree
  <2>1. Silent(g, s)
    BY <1>1, <1>4 DEF Silent
  <2>2. \A i \in 1..Len(queue'[v]) : queue'[v][i].type = "event" =>
          i \in 1..Len(queue[v]) /\ queue'[v][i] = queue[v][i]
    BY <1>1, <1>2
  <2> QED BY <1>0, <2>1, <2>2 DEF NewsFree
<1>9. Linked'
  <2>1. link[w][h] \in {"attached", "ready"} /\ window[w] = "open"
    BY <1>0, <1>1 DEF Linked
  <2>2. ASSUME NEW v \in Windows, NEW g \in Hosts
        PROVE  /\ link'[v][g] # "down" => window[v] = "open"
               /\ wire'[v][g] # <<>> => link'[v][g] \in {"attached", "ready"}
    <3>1. /\ link[v][g] # "down" => window[v] = "open"
          /\ wire[v][g] # <<>> => link[v][g] \in {"attached", "ready"}
      BY <1>0 DEF Linked
    <3>2. CASE v = w /\ g = h
      BY <1>5, <2>1, <3>2
    <3>3. CASE ~(v = w /\ g = h)
      BY <1>2, <1>5, <3>1, <3>3
    <3> QED BY <3>2, <3>3
  <2>3. ASSUME NEW v \in Windows, NEW g \in Hosts,
               link'[v][g] = "ready", sessionListRefreshes'[g].at # "none"
        PROVE  <<v, generation[v][g]>> \in sessionListRefreshes'[g].targets
    <3>1. CASE v = w /\ g = h
      BY <1>4, <2>3, <3>1
    <3>2. CASE ~(v = w /\ g = h)
      <4>1. link[v][g] = "ready" /\ sessionListRefreshes[g].at # "none"
        BY <1>4, <1>5, <2>3, <3>2
      <4>2. <<v, generation[v][g]>> \in sessionListRefreshes[g].targets
        BY <1>0, <4>1 DEF Linked
      <4> QED BY <1>4, <4>2
    <3> QED BY <3>1, <3>2
  <2>4. window' = window /\ generation' = generation
    BY <1>1
  <2> QED BY ONLY <2>2, <2>3, <2>4 DEF Linked
<1>10. CallsKnow'
  BY <1>0, <1>1 DEF CallsKnow, KnownHostsListed, callVars
<1> QED BY <1>2, <1>6, <1>7, <1>8, <1>9, <1>10 DEF ListIInv

LEMMA KeepsReceiveEvent ==
  ASSUME ListIInv, NEW w \in Windows, NEW h \in Hosts, ReceiveEvent(w, h)
  PROVE  ListIInv'
<1>0. TypeOK /\ InTransit /\ RefreshInv /\ NewsFree /\ LateNotStale /\ CallsKnow /\ Linked
  BY DEF ListIInv
<1> DEFINE f == Head(wire[w][h])
<1>1. /\ wire[w][h] # <<>> /\ f.type = "event"
      /\ wire' = [wire EXCEPT ![w][h] = Tail(@)]
      /\ sessionListSessionVersions' = Bumped(h, f.session)
      /\ queue' = [queue EXCEPT ![w] = Append(@, f)]
      /\ UNCHANGED <<hostVars, sessionListRefreshes, sessionListSnapshots,
                     archivedSessionIds, callVars, windowVars, told>>
  BY DEF ReceiveEvent
<1>2. /\ wire' \in [Windows -> [Hosts -> Seq(Frames)]] /\ queue' \in [Windows -> Seq(Frames)]
      /\ InTransit' /\ LateNotStale'
      /\ \A v \in Windows, g \in Hosts : wire'[v][g] # <<>> => wire[v][g] # <<>>
      /\ \A v \in Windows : \A i \in 1..Len(queue'[v]) :
           \/ i \in 1..Len(queue[v]) /\ queue'[v][i] = queue[v][i]
           \/ queue'[v][i] = f
  BY <1>1, Passed DEF hostVars
<1>3. f.host = h /\ f.session \in Sessions
  <2>1. wire[w][h] \in Seq(Frames)
    BY <1>0 DEF TypeOK
  <2>2. f = wire[w][h][1] /\ 1 \in 1..Len(wire[w][h])
    BY <1>1, <2>1
  <2> QED BY <1>0, <1>1, <2>2 DEF InTransit
<1> HIDE DEF f
<1>4. /\ sessionListSessionVersions \in [Hosts -> [Sessions -> Nat]]
      /\ sessionListSessionVersions' \in [Hosts -> [Sessions -> Nat]]
      /\ \A g \in Hosts, t \in Sessions :
           sessionListSessionVersions'[g][t] =
             IF g = h /\ t = f.session THEN sessionListSessionVersions[g][t] + 1
             ELSE sessionListSessionVersions[g][t]
  <2>1. sessionListSessionVersions \in [Hosts -> [Sessions -> Nat]]
    BY <1>0 DEF TypeOK
  <2>2. sessionListSessionVersions' = Bumped(h, f.session) /\ f.session \in Sessions
    BY <1>1, <1>3
  <2> QED BY <2>1, <2>2 DEF Bumped
<1>5. TypeOK'
  BY <1>0, <1>1, <1>2, <1>4 DEF TypeOK, callVars, windowVars, hostVars
<1>6. \A g \in Hosts : sessionListRefreshes[g].at # "none" => \A t \in Sessions :
        /\ sessionListRefreshes[g].startVersions[t] \in Nat /\ sessionListSessionVersions[g][t] \in Nat
        /\ sessionListRefreshes[g].startVersions[t] <= sessionListSessionVersions[g][t]
  <2>1. \A g \in Hosts : sessionListRefreshes[g].startVersions \in [Sessions -> Nat]
    BY <1>0, RefreshFields DEF TypeOK
  <2> QED BY <1>0, <1>4, <2>1 DEF RefreshInv
<1>12. sessionListRefreshes' = sessionListRefreshes
  BY <1>1
<1>7. RefreshInv'
  <2>1. \A g \in Hosts : sessionListRefreshes[g].at # "none" => \A t \in Sessions :
          sessionListRefreshes[g].startVersions[t] <= sessionListSessionVersions'[g][t]
    BY <1>4, <1>6
  <2> QED BY <1>0, <1>12, <2>1 DEF RefreshInv
<1>8. \A g \in Hosts, t \in Sessions : Silent(g, t)' => Silent(g, t) /\ ~(g = h /\ t = f.session)
  BY <1>12, <1>4, <1>6 DEF Silent
<1>9. NewsFree'
  <2> SUFFICES ASSUME NEW g \in Hosts, NEW s \in Sessions, Silent(g, s)', NEW v \in Windows
               PROVE  /\ told[v][g][s] <= sessionListRefreshes[g].list[s]
                      /\ \A i \in 1..Len(queue'[v]) :
                           queue'[v][i].type = "event" /\ queue'[v][i].host = g /\ queue'[v][i].session = s
                             => queue'[v][i].revision <= sessionListRefreshes[g].list[s]
    BY <1>1 DEF NewsFree
  <2>1. Silent(g, s) /\ ~(g = h /\ s = f.session)
    BY <1>8
  <2>2. \A i \in 1..Len(queue'[v]) : queue'[v][i].host = g /\ queue'[v][i].session = s =>
          i \in 1..Len(queue[v]) /\ queue'[v][i] = queue[v][i]
    BY <1>2, <1>3, <2>1
  <2> QED BY <1>0, <2>1, <2>2 DEF NewsFree
<1>10. Linked'
  <2>1. /\ link' = link /\ window' = window /\ generation' = generation
        /\ sessionListRefreshes' = sessionListRefreshes
        /\ \A v \in Windows, g \in Hosts : wire'[v][g] # <<>> => wire[v][g] # <<>>
    BY <1>1, <1>2 DEF windowVars
  <2> QED BY <1>0, <2>1 DEF Linked
<1>11. CallsKnow'
  BY <1>0, <1>1 DEF CallsKnow, KnownHostsListed, callVars
<1> QED BY <1>2, <1>5, <1>7, <1>9, <1>10, <1>11 DEF ListIInv

LEMMA KeepsDeliver ==
  ASSUME ListIInv, NEW w \in Windows, Deliver(w)
  PROVE  ListIInv'
<1>0. TypeOK /\ InTransit /\ RefreshInv /\ NewsFree /\ LateNotStale /\ CallsKnow /\ Linked
  BY DEF ListIInv
<1> DEFINE f == Head(queue[w])
<1>1. /\ queue[w] # <<>> /\ queue' = [queue EXCEPT ![w] = Tail(@)]
      /\ told' = IF f.type = "event" THEN [told EXCEPT ![w][f.host][f.session] = f.revision] ELSE told
      /\ UNCHANGED <<hostVars, sessionListRefreshes, sessionListSnapshots,
                     sessionListSessionVersions, archivedSessionIds, callVars, windowVars, wire>>
  BY DEF Deliver
<1>2. queue \in [Windows -> Seq(Frames)] /\ told \in [Windows -> [Hosts -> [Sessions -> Nat]]]
  BY <1>0 DEF TypeOK
<1>3. f = queue[w][1] /\ 1 \in 1..Len(queue[w]) /\ f \in Frames
  BY <1>1, <1>2
<1> HIDE DEF f
<1>4. f.host \in Hosts /\ f.revision \in Nat
  BY <1>3, FramesType
<1>5. f.type = "event" => f.session \in Sessions /\ f.revision <= revision[f.host][f.session]
  BY <1>0, <1>3 DEF InTransit
<1>6. /\ told' \in [Windows -> [Hosts -> [Sessions -> Nat]]]
      /\ \A v \in Windows, h \in Hosts, s \in Sessions :
           told'[v][h][s] = IF v = w /\ f.type = "event" /\ f.host = h /\ f.session = s
                            THEN f.revision ELSE told[v][h][s]
  BY <1>1, <1>2, <1>4, <1>5
<1>7. /\ queue' \in [Windows -> Seq(Frames)]
      /\ \A v \in Windows : queue'[v] = IF v = w THEN Tail(queue[w]) ELSE queue[v]
  <2>1. Tail(queue[w]) \in Seq(Frames)
    BY <1>1, <1>2
  <2> QED BY <1>1, <1>2, <2>1
<1>8. \A v \in Windows : \A i \in 1..Len(queue'[v]) :
        \E j \in 1..Len(queue[v]) : queue'[v][i] = queue[v][j]
  <2> SUFFICES ASSUME NEW v \in Windows, NEW i \in 1..Len(queue'[v])
               PROVE  \E j \in 1..Len(queue[v]) : queue'[v][i] = queue[v][j]
    OBVIOUS
  <2>1. CASE v = w
    <3>1. i + 1 \in 1..Len(queue[v]) /\ queue'[v][i] = queue[v][i + 1]
      BY <1>1, <1>2, <1>7, <2>1
    <3> QED BY <3>1
  <2>2. CASE v # w
    BY <1>7, <2>2
  <2> QED BY <2>1, <2>2
<1>9. TypeOK'
  BY <1>0, <1>1, <1>6, <1>7 DEF TypeOK, hostVars, callVars, windowVars
<1>10. InTransit'
  <2>1. revision' = revision /\ wire' = wire
    BY <1>1 DEF hostVars
  <2>2. ASSUME NEW v \in Windows, NEW i \in 1..Len(queue'[v])
        PROVE  /\ queue'[v][i].type \in {"event", "late"} => queue'[v][i].session \in Sessions
               /\ queue'[v][i].type = "event" =>
                    queue'[v][i].revision <= revision[queue'[v][i].host][queue'[v][i].session]
    BY <1>0, <1>8 DEF InTransit
  <2>3. ASSUME NEW v \in Windows, NEW h \in Hosts, NEW s \in Sessions
        PROVE  told'[v][h][s] <= revision[h][s]
    BY <1>0, <1>5, <1>6 DEF InTransit
  <2> QED BY <1>0, <2>1, <2>2, <2>3 DEF InTransit
<1>11. NewsFree'
  <2> SUFFICES ASSUME NEW h \in Hosts, NEW s \in Sessions, Silent(h, s), NEW v \in Windows
               PROVE  /\ told'[v][h][s] <= sessionListRefreshes[h].list[s]
                      /\ \A i \in 1..Len(queue'[v]) :
                           queue'[v][i].type = "event" /\ queue'[v][i].host = h /\ queue'[v][i].session = s
                             => queue'[v][i].revision <= sessionListRefreshes[h].list[s]
    BY <1>1 DEF NewsFree, Silent
  <2>1. /\ told[v][h][s] <= sessionListRefreshes[h].list[s]
        /\ \A i \in 1..Len(queue[v]) :
             queue[v][i].type = "event" /\ queue[v][i].host = h /\ queue[v][i].session = s
               => queue[v][i].revision <= sessionListRefreshes[h].list[s]
    BY <1>0 DEF NewsFree
  <2>2. told'[v][h][s] <= sessionListRefreshes[h].list[s]
    <3>1. CASE v = w /\ f.type = "event" /\ f.host = h /\ f.session = s
      <4>1. told'[v][h][s] = f.revision
        BY <1>6, <3>1
      <4> QED BY <1>3, <2>1, <3>1, <4>1
    <3>2. CASE ~(v = w /\ f.type = "event" /\ f.host = h /\ f.session = s)
      <4>1. told'[v][h][s] = told[v][h][s]
        BY <1>6, <3>2
      <4> QED BY <2>1, <4>1
    <3> QED BY <3>1, <3>2
  <2> QED BY <1>8, <2>1, <2>2
<1>12. LateNotStale'
  <2>1. \A v \in Windows : FreshIn(queue'[v], told'[v])
    <3> SUFFICES ASSUME NEW v \in Windows PROVE FreshIn(queue'[v], told'[v])
      OBVIOUS
    <3>1. FreshIn(queue[v], told[v])
      BY <1>0, FreshQueues
    <3>2. queue[v] \in Seq(Frames)
      BY <1>2
    <3>3. \A i \in 1..Len(queue[v]) : queue[v][i].type = "late" => queue[v][i].session \in Sessions
      BY <1>0 DEF InTransit
    <3>4. CASE v = w
      <4>1. \A h \in Hosts, s \in Sessions :
              told'[w][h][s] = IF Head(queue[w]).type = "event" /\ Head(queue[w]).host = h
                                  /\ Head(queue[w]).session = s
                               THEN Head(queue[w]).revision ELSE told[w][h][s]
        BY <1>6 DEF f
      <4> DEFINE q == queue[w]
                 t == told[w]
                 u == told'[w]
      <4>2. /\ q \in Seq(Frames) /\ q # <<>> /\ FreshIn(q, t)
            /\ \A i \in 1..Len(q) : q[i].type = "late" => q[i].session \in Sessions
            /\ \A h \in Hosts, s \in Sessions :
                 u[h][s] = IF Head(q).type = "event" /\ Head(q).host = h /\ Head(q).session = s
                           THEN Head(q).revision ELSE t[h][s]
        BY <1>1, <3>1, <3>2, <3>3, <3>4, <4>1
      <4> HIDE DEF q, t, u
      <4>3. FreshIn(Tail(q), u)
        BY <4>2, FreshTail
      <4> QED BY <1>7, <3>4, <4>3 DEF q, u
    <3>5. CASE v # w
      <4>1. told'[v] = told[v]
        BY <1>1, <1>2, <3>5
      <4> QED BY <1>7, <3>1, <3>5, <4>1
    <3> QED BY <3>4, <3>5
  <2> QED BY <2>1, FreshQueuesNext
<1>13. Linked' /\ RefreshInv'
  BY <1>0, <1>1 DEF Linked, RefreshInv, windowVars
<1>14. CallsKnow'
  BY <1>0, <1>1 DEF CallsKnow, KnownHostsListed, callVars
<1> QED BY <1>9, <1>10, <1>11, <1>12, <1>13, <1>14 DEF ListIInv

LEMMA ListStep ==
  ASSUME ListIInv, [Next]_vars
  PROVE  ListIInv'
<1>1. CASE UNCHANGED vars
  <2>1. TypeOK'
    BY <1>1 DEF ListIInv, TypeOK, vars, hostVars, callVars, windowVars
  <2>2. (InTransit /\ RefreshInv /\ NewsFree)'
    BY <1>1 DEF ListIInv, InTransit, RefreshInv, NewsFree, Silent, vars, hostVars, callVars, windowVars
  <2>3. (LateNotStale /\ CallsKnow /\ Linked)'
    BY <1>1 DEF ListIInv, LateNotStale, CallsKnow, KnownHostsListed, Linked, vars, hostVars,
                callVars, windowVars
  <2> QED BY <2>1, <2>2, <2>3 DEF ListIInv
<1>2. ASSUME NEW h \in Hosts,
             \/ \E s \in Sessions, living \in BOOLEAN : Change(h, s, living)
             \/ Compute(h)
             \/ \E ok \in BOOLEAN : Reply(h, ok)
             \/ \E s \in Sessions : RecordControlFrame(h, s)
             \/ \E set \in SUBSET Sessions : RecordArchived(h, set)
      PROVE  ListIInv'
  BY <1>2, KeepsChange, KeepsCompute, KeepsReply, KeepsControlFrame, KeepsArchived
<1>3. ASSUME NEW c \in ListCallers, Call(c) \/ Abort(c) \/ \E h \in Hosts : HostTimeout(c, h)
      PROVE  ListIInv'
  BY <1>3, KeepsCall, KeepsAbort, KeepsHostTimeout
<1>4. ASSUME NEW w \in Windows,
             \/ OpenWindow(w) \/ CloseWindow(w) \/ Deliver(w)
             \/ \E h \in Hosts : \/ Attach(w, h) \/ LinkEnds(w, h) \/ Reconnect(w, h)
                                 \/ ReceiveReady(w, h) \/ ReceiveEvent(w, h)
      PROVE  ListIInv'
  BY <1>4, KeepsCloseWindow, KeepsDeliver, KeepsConnections, KeepsReceiveReady, KeepsReceiveEvent
<1> QED BY <1>1, <1>2, <1>3, <1>4 DEF Next

\* The invariant the others follow from.
THEOREM ListInvariantHolds == Spec => []ListIInv
  BY ListInitially, ListStep, PTL DEF Spec

\* No late session is older than what a window was told of it before, and a host
\* that once gave its list is in every later answer.
THEOREM ListIsSound == Spec => []ListSound
<1>1. ListIInv => ListSound
  BY DEF ListIInv, ListSound, CallsKnow
<1> QED BY <1>1, ListInvariantHolds, PTL

\* A late answer reaches every window that is connected to its host.
THEOREM LateAnswersReach == Spec => LateReachesAll
<1> DEFINE Reaches ==
      \A h \in Hosts : sessionListRefreshes[h].deferred /\ Reply(h, TRUE) =>
        \A w \in Windows, s \in Sessions :
          /\ link[w][h] = "ready" /\ s \notin archivedSessionIds[h]
          /\ sessionListRefreshes[h].list[s] # Absent
          /\ sessionListSessionVersions[h][s] = sessionListRefreshes[h].startVersions[s]
          => Frame("late", h, s, sessionListRefreshes[h].list[s], generation[w][h])
               \in {queue'[w][i] : i \in 1..Len(queue'[w])}
<1>1. ListIInv /\ [Next]_vars => [Reaches]_vars
  <2> SUFFICES ASSUME ListIInv PROVE Reaches
    OBVIOUS
  <2> SUFFICES ASSUME NEW h \in Hosts, sessionListRefreshes[h].deferred, Reply(h, TRUE),
                      NEW w \in Windows, NEW s \in Sessions,
                      link[w][h] = "ready", s \notin archivedSessionIds[h],
                      sessionListRefreshes[h].list[s] # Absent,
                      sessionListSessionVersions[h][s] = sessionListRefreshes[h].startVersions[s]
               PROVE  Frame("late", h, s, sessionListRefreshes[h].list[s], generation[w][h])
                        \in {queue'[w][i] : i \in 1..Len(queue'[w])}
    BY Zenon
  <2> SUFFICES \E i \in 1..Len(queue'[w]) :
                 queue'[w][i] = Frame("late", h, s, sessionListRefreshes[h].list[s], generation[w][h])
    OBVIOUS
  <2>1. sessionListRefreshes[h].at = "answered"
    BY DEF Reply
  <2>2. window[w] = "open" /\ <<w, generation[w][h]>> \in sessionListRefreshes[h].targets
    BY <2>1 DEF ListIInv, Linked
  <2>3. queue' = [v \in Windows |-> Published(h, v)]
    BY DEF Reply
  <2> DEFINE g == generation[w][h]
             l == LateFrames(h, g)
             q == queue[w]
  <2>4. queue'[w] = q \o l
    BY <2>2, <2>3 DEF Published
  <2>5. g \in Nat /\ q \in Seq(Frames)
    BY DEF ListIInv, TypeOK
  <2>6. CanPublishLate(h, s)
    BY DEF CanPublishLate
  <2> HIDE DEF g, q
  <2>7. l \in Seq(Frames) /\ \E i \in 1..Len(l) :
          l[i] = Frame("late", h, s, sessionListRefreshes[h].list[s], g)
    BY <2>1, <2>5, <2>6, LateSequence
  <2> HIDE DEF l
  <2>8. PICK i \in 1..Len(l) : l[i] = Frame("late", h, s, sessionListRefreshes[h].list[s], g)
    BY <2>7
  <2>9. Len(q) + i \in 1..Len(q \o l) /\ (q \o l)[Len(q) + i] = l[i]
    BY <2>5, <2>7
  <2> QED BY <2>4, <2>8, <2>9 DEF g
<1> QED BY <1>1, ListInvariantHolds, PTL DEF Spec, LateReachesAll

-----------------------------------------------------------------------------
(***************************************************************************)
(* Writes to a session's log follow each other and their callers are told  *)
(* the truth, for any number of sessions, writes and events, any size of   *)
(* chunks and both contracts.                                              *)
(***************************************************************************)
WriteStages == {"waiting", "opening", "opened", "closing", "settled"}

Writes ==
  [id : Stored, kind : {"create", "append"}, size : Nat, previous : Nat, stage : WriteStages,
   failed : BOOLEAN, told : {"nothing", "ok", "failed", "unknown"}]

\* All earlier writes of the session have settled.
Settled(ws, v) == ws[v].stage = "settled"
Before(ws, w) == \A v \in 1..(w - 1) : ws[v].id = ws[w].id => Settled(ws, v)

TurnCame(ws, w) == ws[w].previous = 0 \/ Settled(ws, ws[w].previous)

\* A write waits for the last one of its session that had not settled when it was called,
\* and goes on when no earlier one is left.
TurnFits(ws, w) ==
  /\ ws[w].previous < w
  /\ ws[w].previous # 0 => ws[ws[w].previous].id = ws[w].id
  /\ \A v \in 1..(w - 1) : ws[v].id = ws[w].id /\ ws[w].previous < v => Settled(ws, v)
  /\ ~Settled(ws, w) /\ TurnCame(ws, w) => Before(ws, w)
  /\ ws[w].stage # "waiting" /\ ~Settled(ws, w) => TurnCame(ws, w)
  /\ ws[w].told = "nothing" <=> ~Settled(ws, w)

\* What a session's queue names is its last write that has not settled.
QueueFits(ws, q, id) ==
  /\ q \in 0..Len(ws)
  /\ q # 0 => ws[q].id = id /\ ~Settled(ws, q)
  /\ \A v \in DOMAIN ws : ws[v].id = id /\ q < v => Settled(ws, v)

\* No write runs on a session that one has left unsure.
SureFits(ws, un, w) ==
  /\ ws[w].told = "unknown" => ws[w].id \in un
  /\ ws[w].stage \in {"opening", "opened", "closing"} => ws[w].id \notin un

\* An event in the log of a session is of a write of it that came so far, after all earlier.
EventFits(ws, id, e) ==
  /\ e[1] \in DOMAIN ws /\ ws[e[1]].id = id
  /\ e[2] \in 1..ws[e[1]].size
  /\ ws[e[1]].stage \in {"closing", "settled"} /\ ws[e[1]].told # "failed"
  /\ Before(ws, e[1])

AllThere(ws, log, w) ==
  ws[w].told = "ok" \/ (ws[w].stage = "closing" /\ ~ws[w].failed) =>
    \A k \in 1..ws[w].size : \E i \in DOMAIN log : log[i] = <<w, k>>

InOrder(ws, log) ==
  \A i, j \in DOMAIN log : i < j =>
    /\ log[i][1] < log[j][1] \/ (log[i][1] = log[j][1] /\ log[i][2] < log[j][2])
    /\ log[i][1] # log[j][1] => ws[log[i][1]].told = "ok"

Readers ==
  [stage : {"idle", "reading", "closing", "done"}, id : SUBSET Stored, from : Nat, offset : Nat,
   events : Seq(Nat \X Nat), atLeast : Nat]

\* What was read is the log from the first offset on to where the read is.
ReadFits(x, log) ==
  /\ x.from <= x.offset /\ x.offset <= Len(log) /\ x.atLeast <= Len(log)
  /\ Len(x.events) = x.offset - x.from
  /\ \A i \in 1..Len(x.events) : x.events[i] = log[x.from + i]
  /\ x.stage \in {"closing", "done"} => x.atLeast <= x.offset

WritesFit(ws, un) == \A w \in DOMAIN ws : TurnFits(ws, w) /\ SureFits(ws, un, w)
QueuesFit(ws, qs) == \A id \in Stored : QueueFits(ws, qs[id], id)
LogsFit(ws, st) ==
  /\ \A id \in Stored : \A i \in DOMAIN st[id] : EventFits(ws, id, st[id][i])
  /\ \A w \in DOMAIN ws : AllThere(ws, st[ws[w].id], w)
  /\ \A id \in Stored : InOrder(ws, st[id])
ReaderFits(x, st) == x.stage # "idle" => \E id \in Stored : x.id = {id} /\ ReadFits(x, st[id])

PersTypes ==
  /\ contract \in {"current", "legacy"}
  /\ writes \in Seq(Writes) /\ stored \in [Stored -> Seq(Nat \X Nat)]
  /\ queues \in [Stored -> Nat] /\ uncertain \subseteq Stored /\ reader \in Readers

PersIInv ==
  /\ PersTypes
  /\ WritesFit(writes, uncertain)
  /\ QueuesFit(writes, queues)
  /\ LogsFit(writes, stored)
  /\ ReaderFits(reader, stored)

-----------------------------------------------------------------------------
(* What a write that goes on, or settles, keeps. *)

\* A write of the sequence has become r, which is further on.
GoesOn(ws, w, r, wt) ==
  /\ ws \in Seq(Writes) /\ w \in DOMAIN ws /\ r \in Writes /\ wt = [ws EXCEPT ![w] = r]
  /\ r.id = ws[w].id /\ r.previous = ws[w].previous /\ r.size = ws[w].size
  /\ r.stage # "waiting" /\ (r.told = "nothing" <=> r.stage # "settled")
  /\ ~Settled(ws, w) /\ TurnCame(ws, w)

LEMMA Advanced ==
  ASSUME NEW ws, NEW w, NEW r, NEW wt, GoesOn(ws, w, r, wt)
  PROVE  /\ wt \in Seq(Writes) /\ DOMAIN wt = DOMAIN ws /\ Len(wt) = Len(ws)
         /\ DOMAIN ws = 1..Len(ws) /\ Len(ws) \in Nat /\ w \in Nat
         /\ wt[w] = r
         /\ \A v \in DOMAIN ws :
              /\ v # w => wt[v] = ws[v]
              /\ wt[v].id = ws[v].id /\ wt[v].previous = ws[v].previous /\ wt[v].size = ws[v].size
              /\ Settled(ws, v) => Settled(wt, v) /\ wt[v] = ws[v]
<1>1. /\ ws \in Seq(Writes) /\ w \in DOMAIN ws /\ r \in Writes /\ wt = [ws EXCEPT ![w] = r]
      /\ r.id = ws[w].id /\ r.previous = ws[w].previous /\ r.size = ws[w].size /\ ~Settled(ws, w)
  BY DEF GoesOn
<1>2. DOMAIN ws = 1..Len(ws) /\ Len(ws) \in Nat /\ w \in Nat
  BY <1>1
<1>3. wt \in Seq(Writes) /\ DOMAIN wt = DOMAIN ws /\ Len(wt) = Len(ws)
  BY <1>1, <1>2, ExceptSeq
<1>4. wt[w] = r /\ \A v \in DOMAIN ws : v # w => wt[v] = ws[v]
  BY <1>1, <1>2
<1>5. \A v \in DOMAIN ws : wt[v].id = ws[v].id /\ wt[v].previous = ws[v].previous /\ wt[v].size = ws[v].size
  BY <1>1, <1>4
<1>6. \A v \in DOMAIN ws : Settled(ws, v) => Settled(wt, v) /\ wt[v] = ws[v]
  BY <1>1, <1>4 DEF Settled
<1> QED BY <1>2, <1>3, <1>4, <1>5, <1>6

LEMMA BeforeStays ==
  ASSUME NEW ws, NEW w, NEW r, NEW wt, GoesOn(ws, w, r, wt), NEW u \in DOMAIN ws, Before(ws, u)
  PROVE  Before(wt, u)
<1>1. DOMAIN ws = 1..Len(ws) /\ Len(ws) \in Nat
  BY Advanced
<1>2. \A v \in 1..(u - 1) : v \in DOMAIN ws
  BY <1>1
<1> QED BY <1>2, Advanced DEF Before

LEMMA TurnStays ==
  ASSUME NEW ws, NEW w, NEW r, NEW wt, GoesOn(ws, w, r, wt), \A v \in DOMAIN ws : TurnFits(ws, v),
         NEW u \in DOMAIN ws
  PROVE  TurnFits(wt, u)
<1>1. /\ DOMAIN ws = 1..Len(ws) /\ Len(ws) \in Nat /\ w \in Nat /\ w \in DOMAIN ws /\ wt[w] = r
      /\ ws \in Seq(Writes)
  <2>1. DOMAIN ws = 1..Len(ws) /\ Len(ws) \in Nat /\ w \in Nat /\ wt[w] = r
    BY Advanced
  <2>2. w \in DOMAIN ws /\ ws \in Seq(Writes)
    BY DEF GoesOn
  <2> QED BY <2>1, <2>2
<1>2. TurnFits(ws, u) /\ ws[u].previous \in Nat /\ ws[u].previous < u
  <2>1. ws[u] \in Writes
    BY <1>1
  <2>2. ws[u].previous \in Nat
    BY <2>1 DEF Writes
  <2>3. TurnFits(ws, u)
    OBVIOUS
  <2> QED BY <2>2, <2>3 DEF TurnFits
<1>3. /\ wt[u].id = ws[u].id /\ wt[u].previous = ws[u].previous
      /\ Settled(ws, u) => Settled(wt, u) /\ wt[u] = ws[u]
      /\ u # w => wt[u] = ws[u]
  BY Advanced
<1>4. ws[u].previous # 0 => ws[u].previous \in DOMAIN ws
  BY <1>1, <1>2
<1>5. ws[u].previous # 0 => wt[ws[u].previous].id = wt[u].id
  BY <1>2, <1>3, <1>4, Advanced DEF TurnFits
<1>6. ASSUME NEW v \in 1..(u - 1), wt[v].id = wt[u].id, wt[u].previous < v PROVE Settled(wt, v)
  <2>1. v \in DOMAIN ws
    BY <1>1
  <2>2. wt[v].id = ws[v].id
    BY <2>1, Advanced
  <2>3. Settled(ws, v)
    BY <1>2, <1>3, <1>6, <2>2 DEF TurnFits
  <2> QED BY <2>1, <2>3, Advanced
<1>7. ASSUME ~Settled(wt, u), TurnCame(wt, u) PROVE Before(wt, u)
  <2>1. ~Settled(ws, u)
    BY <1>7, <1>3
  <2>2. CASE TurnCame(ws, u)
    <3>1. Before(ws, u)
      BY <2>1, <2>2, <1>2 DEF TurnFits
    <3> QED BY <3>1, BeforeStays
  <2>3. CASE ~TurnCame(ws, u)
    <3>1. PICK p : p = ws[u].previous
      OBVIOUS
    <3>2. p # 0 /\ ~Settled(ws, p) /\ p \in DOMAIN ws /\ Settled(wt, p) /\ p < u /\ p \in Nat
      BY <2>3, <1>3, <1>7, <1>4, <1>2, <3>1 DEF TurnCame
    <3>3. p = w
      BY <3>2, Advanced DEF Settled
    <3>4. Before(ws, w)
      BY <1>1 DEF GoesOn, TurnFits
    <3>5. ws[w].id = ws[u].id
      BY <1>2, <3>1, <3>2, <3>3 DEF TurnFits
    <3>6. SUFFICES ASSUME NEW v \in 1..(u - 1), wt[v].id = wt[u].id PROVE Settled(wt, v)
      BY DEF Before
    <3>7. v \in DOMAIN ws /\ wt[v].id = ws[v].id
      BY <1>1, Advanced
    <3>8. CASE v = w
      BY <3>8, <3>2, <3>3
    <3>9. CASE v < w
      <4>1. v \in 1..(w - 1)
        BY <3>9, <1>1, <3>2, <3>3
      <4>2. Settled(ws, v)
        BY <4>1, <3>4, <3>5, <3>6, <3>7, <1>3 DEF Before
      <4> QED BY <4>2, <3>7, Advanced
    <3>10. CASE w < v
      BY <3>10, <1>6, <3>1, <3>3, <3>6, <1>3
    <3> QED BY <3>8, <3>9, <3>10, <1>1, <3>7
  <2> QED BY <2>2, <2>3
<1>8. ASSUME wt[u].stage # "waiting", ~Settled(wt, u) PROVE TurnCame(wt, u)
  <2>1. TurnCame(ws, u)
    <3>1. CASE u = w
      BY <3>1 DEF GoesOn
    <3>2. CASE u # w
      BY <3>2, <1>8, <1>2, <1>3 DEF TurnFits, Settled
    <3> QED BY <3>1, <3>2
  <2> QED BY <2>1, <1>3, <1>4, Advanced DEF TurnCame
<1>9. wt[u].told = "nothing" <=> ~Settled(wt, u)
  <2>1. CASE u = w
    BY <2>1, <1>1 DEF GoesOn, Settled
  <2>2. CASE u # w
    BY <2>2, <1>2, <1>3 DEF TurnFits, Settled
  <2> QED BY <2>1, <2>2
<1>10. wt[u].previous < u
  BY <1>2, <1>3
<1>11. wt[u].previous # 0 => wt[wt[u].previous].id = wt[u].id
  BY <1>5, <1>3
<1> QED BY <1>6, <1>7, <1>8, <1>9, <1>10, <1>11 DEF TurnFits

LEMMA SureStays ==
  ASSUME NEW ws, NEW w, NEW r, NEW wt, GoesOn(ws, w, r, wt), NEW un, NEW unNext,
         NEW u \in DOMAIN ws, SureFits(ws, un, u), SureFits(wt, unNext, w),
         un \subseteq unNext,
         \A v \in DOMAIN ws : v # w /\ ws[v].id \in unNext \ un => ws[v].stage \notin {"opening", "opened", "closing"}
  PROVE  SureFits(wt, unNext, u)
<1>1. u # w => wt[u] = ws[u]
  BY Advanced
<1>2. CASE u # w
  BY <1>1, <1>2 DEF SureFits
<1> QED BY <1>2

\* A write that goes on without an end leaves the queues; one that settles leaves its own.
LEMMA QueueStays ==
  ASSUME NEW ws, NEW w, NEW r, NEW wt, GoesOn(ws, w, r, wt), NEW id, NEW q, NEW p,
         QueueFits(ws, q, id), \A v \in DOMAIN ws : TurnFits(ws, v),
         r.stage = "settled" => p = (IF q = w THEN 0 ELSE q),
         r.stage # "settled" => p = q
  PROVE  QueueFits(wt, p, id)
<1>1. DOMAIN ws = 1..Len(ws) /\ Len(ws) \in Nat /\ w \in Nat /\ wt[w] = r /\ DOMAIN wt = DOMAIN ws /\ Len(wt) = Len(ws)
  BY Advanced
<1>2. /\ q \in 0..Len(ws)
      /\ q # 0 => ws[q].id = id /\ ~Settled(ws, q)
      /\ \A v \in DOMAIN ws : ws[v].id = id /\ q < v => Settled(ws, v)
  BY DEF QueueFits
<1>3. q # 0 => q \in DOMAIN ws
  BY <1>1, <1>2
<1>4. w \in DOMAIN ws /\ TurnFits(ws, w) /\ ~Settled(ws, w) /\ TurnCame(ws, w)
  BY DEF GoesOn
<1>5. \A v \in DOMAIN ws : wt[v].id = ws[v].id /\ (Settled(ws, v) => Settled(wt, v)) /\ (v # w => wt[v] = ws[v])
  BY Advanced
<1>6. CASE r.stage = "settled" /\ q = w
  <2>1. p = 0
    BY <1>6
  <2>2. Before(ws, w) /\ ws[w].id = id
    BY <1>2, <1>4, <1>6, <1>1 DEF TurnFits
  <2>3. ASSUME NEW v \in DOMAIN wt, wt[v].id = id PROVE Settled(wt, v)
    <3>1. v \in DOMAIN ws /\ ws[v].id = id
      BY <2>3, <1>1, <1>5
    <3>2. CASE v < w
      <4>1. v \in 1..(w - 1)
        BY <3>1, <3>2, <1>1
      <4>2. Settled(ws, v)
        BY <4>1, <2>2, <3>1 DEF Before
      <4> QED BY <4>2, <3>1, <1>5
    <3>3. CASE v = w
      BY <3>3, <1>1, <1>6 DEF Settled
    <3>4. CASE w < v
      BY <3>1, <3>4, <1>2, <1>5, <1>6
    <3> QED BY <3>1, <3>2, <3>3, <3>4, <1>1
  <2> QED BY <2>1, <2>3, <1>1 DEF QueueFits
<1>7. CASE ~(r.stage = "settled" /\ q = w)
  <2>1. p = q
    BY <1>7
  <2>2. q # 0 => wt[q].id = id /\ ~Settled(wt, q)
    <3>1. CASE q = w
      BY <3>1, <1>1, <1>2, <1>3, <1>5, <1>7 DEF Settled
    <3>2. CASE q # w
      BY <3>2, <1>2, <1>3, <1>5 DEF Settled
    <3> QED BY <3>1, <3>2
  <2>3. \A v \in DOMAIN wt : wt[v].id = id /\ q < v => Settled(wt, v)
    BY <1>1, <1>2, <1>5
  <2> QED BY <2>1, <2>2, <2>3, <1>1, <1>2 DEF QueueFits
<1> QED BY <1>6, <1>7

\* An event in the log stays one: unless its own write is said to have failed.
LEMMA EventStays ==
  ASSUME NEW ws, NEW w, NEW r, NEW wt, GoesOn(ws, w, r, wt), NEW id, NEW e,
         EventFits(ws, id, e), e[1] = w => r.stage \in {"closing", "settled"} /\ r.told # "failed"
  PROVE  EventFits(wt, id, e)
<1>1. /\ e[1] \in DOMAIN ws /\ ws[e[1]].id = id /\ e[2] \in 1..ws[e[1]].size
      /\ ws[e[1]].stage \in {"closing", "settled"} /\ ws[e[1]].told # "failed" /\ Before(ws, e[1])
  BY DEF EventFits
<1>2. Before(wt, e[1])
  BY <1>1, BeforeStays
<1>3. /\ DOMAIN wt = DOMAIN ws /\ wt[w] = r
      /\ wt[e[1]].id = ws[e[1]].id /\ wt[e[1]].size = ws[e[1]].size /\ (e[1] # w => wt[e[1]] = ws[e[1]])
  BY <1>1, Advanced
<1>4. wt[e[1]].stage \in {"closing", "settled"} /\ wt[e[1]].told # "failed"
  BY <1>1, <1>3
<1> QED BY <1>1, <1>2, <1>3, <1>4 DEF EventFits

LEMMA OrderStays ==
  ASSUME NEW ws, NEW w, NEW r, NEW wt, GoesOn(ws, w, r, wt), NEW id, NEW log,
         \A i \in DOMAIN log : EventFits(ws, id, log[i]), InOrder(ws, log),
         \A v \in DOMAIN ws : TurnFits(ws, v)
  PROVE  InOrder(wt, log)
<1> SUFFICES ASSUME NEW i \in DOMAIN log, NEW j \in DOMAIN log, i < j, log[i][1] # log[j][1]
             PROVE  wt[log[i][1]].told = "ok"
  BY DEF InOrder
<1>1. ws[log[i][1]].told = "ok" /\ log[i][1] \in DOMAIN ws
  BY DEF InOrder, EventFits
<1>2. TurnFits(ws, log[i][1])
  BY <1>1
<1>3. Settled(ws, log[i][1])
  BY <1>1, <1>2 DEF TurnFits
<1> QED BY <1>1, <1>3, Advanced

-----------------------------------------------------------------------------
(* What a new write keeps. *)

\* create or append was called: the write r came after the others.
Called(ws, q, r, wt) ==
  /\ ws \in Seq(Writes) /\ r \in Writes /\ wt = Append(ws, r)
  /\ QueueFits(ws, q, r.id) /\ r.previous = q
  /\ r.stage \in {"waiting", "settled"} /\ (r.told = "nothing" <=> r.stage # "settled")
  /\ r.told \in {"nothing", "unknown"}

LEMMA CalledAdds ==
  ASSUME NEW ws, NEW q, NEW r, NEW wt, Called(ws, q, r, wt)
  PROVE  /\ wt \in Seq(Writes) /\ Len(ws) \in Nat /\ Len(wt) = Len(ws) + 1
         /\ DOMAIN ws = 1..Len(ws) /\ DOMAIN wt = 1..(Len(ws) + 1)
         /\ wt[Len(ws) + 1] = r
         /\ \A v \in DOMAIN ws : v \in DOMAIN wt /\ wt[v] = ws[v]
<1>1. ws \in Seq(Writes) /\ r \in Writes /\ wt = Append(ws, r)
  BY DEF Called
<1> QED BY <1>1, AppendProperties

LEMMA BeforeStillSettled ==
  ASSUME NEW ws, NEW q, NEW r, NEW wt, Called(ws, q, r, wt), NEW u \in DOMAIN ws, Before(ws, u)
  PROVE  Before(wt, u)
<1>1. DOMAIN ws = 1..Len(ws) /\ Len(ws) \in Nat /\ \A v \in DOMAIN ws : wt[v] = ws[v]
  BY CalledAdds
<1>2. \A v \in 1..(u - 1) : v \in DOMAIN ws
  BY <1>1
<1> QED BY <1>1, <1>2 DEF Before, Settled

LEMMA TurnsAfterCall ==
  ASSUME NEW ws, NEW q, NEW r, NEW wt, Called(ws, q, r, wt), \A v \in DOMAIN ws : TurnFits(ws, v),
         NEW u \in DOMAIN wt
  PROVE  TurnFits(wt, u)
<1>1. /\ DOMAIN ws = 1..Len(ws) /\ Len(ws) \in Nat /\ \A v \in DOMAIN ws : wt[v] = ws[v]
      /\ DOMAIN wt = 1..(Len(ws) + 1) /\ wt[Len(ws) + 1] = r
  BY CalledAdds
<1>2. CASE u \in DOMAIN ws
  <2>1. TurnFits(ws, u) /\ wt[u] = ws[u]
    BY <1>1, <1>2
  <2>2. ws[u] \in Writes
    BY <1>2 DEF Called
  <2>3. ws[u].previous \in Nat
    BY <2>2 DEF Writes
  <2>4. ws[u].previous < u
    BY <2>1 DEF TurnFits
  <2>5. ws[u].previous # 0 => ws[u].previous \in DOMAIN ws /\ wt[ws[u].previous] = ws[ws[u].previous]
    BY <2>3, <2>4, <1>1, <1>2
  <2>6. \A v \in 1..(u - 1) : v \in DOMAIN ws /\ wt[v] = ws[v]
    BY <1>1, <1>2
  <2>7. TurnCame(wt, u) <=> TurnCame(ws, u)
    BY <2>1, <2>5 DEF TurnCame, Settled
  <2>8. Before(ws, u) => Before(wt, u)
    BY <1>2, BeforeStillSettled
  <2>9. Settled(wt, u) <=> Settled(ws, u)
    BY <2>1 DEF Settled
  <2>10. \A v \in 1..(u - 1) : wt[v].id = wt[u].id /\ wt[u].previous < v => Settled(wt, v)
    BY <2>1, <2>6 DEF TurnFits, Settled
  <2>11. wt[u].previous # 0 => wt[wt[u].previous].id = wt[u].id
    BY <2>1, <2>5 DEF TurnFits
  <2>12. ~Settled(wt, u) /\ TurnCame(wt, u) => Before(wt, u)
    BY <2>1, <2>7, <2>8, <2>9 DEF TurnFits
  <2>13. wt[u].stage # "waiting" /\ ~Settled(wt, u) => TurnCame(wt, u)
    BY <2>1, <2>7, <2>9 DEF TurnFits
  <2>14. wt[u].told = "nothing" <=> ~Settled(wt, u)
    BY <2>1, <2>9 DEF TurnFits
  <2>15. wt[u].previous < u
    BY <2>1, <2>4
  <2> QED BY <2>10, <2>11, <2>12, <2>13, <2>14, <2>15 DEF TurnFits
<1>3. CASE u = Len(ws) + 1
  <2>1. wt[u] = r
    BY <1>1, <1>3
  <2>2. QueueFits(ws, q, r.id) /\ r.previous = q
    BY DEF Called
  <2>3. q \in 0..Len(ws)
    BY <2>2 DEF QueueFits
  <2>4. q # 0 => q \in DOMAIN ws /\ wt[q] = ws[q]
    BY <2>3, <1>1
  <2>5. q # 0 => wt[q].id = r.id /\ ~Settled(wt, q)
    BY <2>2, <2>4 DEF QueueFits, Settled
  <2>6. \A v \in 1..(u - 1) : v \in DOMAIN ws /\ wt[v] = ws[v]
    BY <1>1, <1>3
  <2>7. \A v \in 1..(u - 1) : wt[v].id = wt[u].id /\ wt[u].previous < v => Settled(wt, v)
    BY <2>1, <2>2, <2>6 DEF QueueFits, Settled
  <2>8. ASSUME TurnCame(wt, u) PROVE Before(wt, u)
    <3>1. q = 0
      BY <2>8, <2>1, <2>2, <2>5 DEF TurnCame
    <3>2. \A v \in 1..(u - 1) : 0 < v
      OBVIOUS
    <3> QED BY <3>1, <3>2, <2>1, <2>2, <2>7 DEF Before
  <2>9. wt[u].stage # "waiting" /\ ~Settled(wt, u) => TurnCame(wt, u)
    BY <2>1 DEF Called, Settled
  <2>10. wt[u].told = "nothing" <=> ~Settled(wt, u)
    BY <2>1 DEF Called, Settled
  <2>11. wt[u].previous < u
    BY <2>1, <2>2, <2>3, <1>1, <1>3
  <2>12. wt[u].previous # 0 => wt[wt[u].previous].id = wt[u].id
    BY <2>1, <2>2, <2>5
  <2> QED BY <2>7, <2>8, <2>9, <2>10, <2>11, <2>12 DEF TurnFits
<1> QED BY <1>1, <1>2, <1>3

LEMMA SureAfterCall ==
  ASSUME NEW ws, NEW q, NEW r, NEW wt, Called(ws, q, r, wt), NEW un,
         \A v \in DOMAIN ws : SureFits(ws, un, v), r.told = "unknown" => r.id \in un, NEW u \in DOMAIN wt
  PROVE  SureFits(wt, un, u)
<1>1. /\ DOMAIN ws = 1..Len(ws) /\ Len(ws) \in Nat /\ \A v \in DOMAIN ws : wt[v] = ws[v]
      /\ DOMAIN wt = 1..(Len(ws) + 1) /\ wt[Len(ws) + 1] = r
  BY CalledAdds
<1>2. CASE u \in DOMAIN ws
  BY <1>1, <1>2 DEF SureFits
<1>3. CASE u = Len(ws) + 1
  <2>1. r.stage \in {"waiting", "settled"}
    BY DEF Called
  <2> QED BY <1>1, <1>3, <2>1 DEF SureFits
<1> QED BY <1>1, <1>2, <1>3

\* The queue names the new write, unless that has settled at once.
LEMMA QueueAfterCall ==
  ASSUME NEW ws, NEW q, NEW r, NEW wt, Called(ws, q, r, wt), NEW id, NEW o, NEW p,
         QueueFits(ws, o, id),
         IF r.id = id /\ r.stage = "waiting" THEN p = Len(ws) + 1 ELSE p = o
  PROVE  QueueFits(wt, p, id)
<1>1. /\ DOMAIN ws = 1..Len(ws) /\ Len(ws) \in Nat /\ \A v \in DOMAIN ws : wt[v] = ws[v]
      /\ DOMAIN wt = 1..(Len(ws) + 1) /\ wt[Len(ws) + 1] = r /\ Len(wt) = Len(ws) + 1
  BY CalledAdds
<1>2. CASE r.id = id /\ r.stage = "waiting"
  <2>1. p = Len(ws) + 1
    BY <1>2
  <2>2. wt[p].id = id /\ ~Settled(wt, p)
    BY <1>1, <1>2, <2>1 DEF Settled
  <2>3. \A v \in DOMAIN wt : ~(p < v)
    BY <1>1, <2>1
  <2> QED BY <1>1, <2>1, <2>2, <2>3 DEF QueueFits
<1>3. CASE ~(r.id = id /\ r.stage = "waiting")
  <2>1. p = o /\ o \in 0..Len(ws)
    BY <1>3 DEF QueueFits
  <2>2. p # 0 => p \in DOMAIN ws
    BY <1>1, <2>1
  <2>3. p # 0 => wt[p].id = id /\ ~Settled(wt, p)
    BY <1>1, <2>1, <2>2 DEF QueueFits, Settled
  <2>4. ASSUME NEW v \in DOMAIN wt, wt[v].id = id, p < v PROVE Settled(wt, v)
    <3>1. CASE v \in DOMAIN ws
      BY <3>1, <1>1, <2>1, <2>4 DEF QueueFits, Settled
    <3>2. CASE v = Len(ws) + 1
      <4>1. r.stage \in {"waiting", "settled"}
        BY DEF Called
      <4> QED BY <3>2, <4>1, <1>1, <1>3, <2>4 DEF Settled
    <3> QED BY <3>1, <3>2, <1>1
  <2>5. p \in 0..Len(wt)
    BY <1>1, <2>1
  <2> QED BY <2>3, <2>4, <2>5 DEF QueueFits
<1> QED BY <1>2, <1>3

LEMMA LogAfterCall ==
  ASSUME NEW ws, NEW q, NEW r, NEW wt, Called(ws, q, r, wt), NEW id, NEW log,
         \A i \in DOMAIN log : EventFits(ws, id, log[i]), InOrder(ws, log)
  PROVE  InOrder(wt, log) /\ \A i \in DOMAIN log : EventFits(wt, id, log[i])
<1>1. \A v \in DOMAIN ws : v \in DOMAIN wt /\ wt[v] = ws[v]
  BY CalledAdds
<1>2. \A i \in DOMAIN log : log[i][1] \in DOMAIN ws
  BY DEF EventFits
<1>3. InOrder(wt, log)
  BY <1>1, <1>2 DEF InOrder
<1>4. ASSUME NEW i \in DOMAIN log PROVE EventFits(wt, id, log[i])
  <2>1. EventFits(ws, id, log[i])
    OBVIOUS
  <2>2. Before(wt, log[i][1])
    BY <2>1, <1>2, BeforeStillSettled DEF EventFits
  <2> QED BY <1>1, <1>2, <2>1, <2>2 DEF EventFits
<1> QED BY <1>3, <1>4

-----------------------------------------------------------------------------
(* What a write that adds to a log keeps. *)

Pairs == Nat \X Nat

\* The first n events of a write came after the others.
Added(log, w, size, n, after) ==
  /\ log \in Seq(Pairs) /\ w \in Nat /\ size \in Nat /\ n \in 0..size
  /\ after = log \o SubSeq([k \in 1..size |-> <<w, k>>], 1, n)

LEMMA EventsAdded ==
  ASSUME NEW log, NEW w, NEW size, NEW n, NEW after, Added(log, w, size, n, after)
  PROVE  /\ after \in Seq(Pairs) /\ Len(log) \in Nat /\ n \in Nat /\ Len(after) = Len(log) + n
         /\ DOMAIN log = 1..Len(log) /\ DOMAIN after = 1..(Len(log) + n)
         /\ \A i \in DOMAIN log : i \in DOMAIN after /\ after[i] = log[i]
         /\ \A k \in 1..n : Len(log) + k \in DOMAIN after /\ after[Len(log) + k] = <<w, k>>
<1>1. /\ log \in Seq(Pairs) /\ w \in Nat /\ size \in Nat /\ n \in 0..size
      /\ after = log \o SubSeq([k \in 1..size |-> <<w, k>>], 1, n)
  BY DEF Added
<1>2. PICK all : all = [k \in 1..size |-> <<w, k>>]
  OBVIOUS
<1>3. \A k \in 1..size : <<w, k>> \in Pairs
  BY <1>1 DEF Pairs
<1>4. all \in [1..size -> Pairs] /\ DOMAIN all = 1..size /\ \A k \in 1..size : all[k] = <<w, k>>
  BY <1>2, <1>3
<1>5. all \in Seq(Pairs) /\ Len(all) = size
  BY <1>4, <1>1, SeqDef
<1>6. PICK part : part = SubSeq(all, 1, n)
  OBVIOUS
<1>7. part \in Seq(Pairs) /\ Len(part) = n /\ \A k \in 1..n : part[k] = all[k]
  BY <1>1, <1>5, <1>6, SubSeqProperties
<1>8. after = log \o part
  BY <1>1, <1>2, <1>6
<1>9. /\ after \in Seq(Pairs) /\ Len(log) \in Nat /\ n \in Nat /\ Len(after) = Len(log) + n
      /\ DOMAIN log = 1..Len(log) /\ DOMAIN after = 1..(Len(log) + n)
  <2>1. n \in Nat
    BY <1>1
  <2>2. Len(log) \in Nat /\ DOMAIN log = 1..Len(log)
    BY <1>1, LenProperties
  <2>3. after \in Seq(Pairs) /\ Len(after) = Len(log) + Len(part)
    BY <1>1, <1>7, <1>8, ConcatProperties
  <2>4. DOMAIN after = 1..Len(after)
    BY <2>3, LenProperties
  <2> QED BY <1>7, <2>1, <2>2, <2>3, <2>4
<1>10. \A i \in 1..(Len(log) + n) : after[i] = IF i <= Len(log) THEN log[i] ELSE part[i - Len(log)]
  <2>1. \A i \in 1..(Len(log) + Len(part)) :
          (log \o part)[i] = IF i <= Len(log) THEN log[i] ELSE part[i - Len(log)]
    BY <1>1, <1>7, ConcatProperties
  <2> QED BY <2>1, <1>7, <1>8
<1>11. \A k \in 1..n : Len(log) + k \in DOMAIN after /\ after[Len(log) + k] = part[k]
  <2> SUFFICES ASSUME NEW k \in 1..n PROVE Len(log) + k \in DOMAIN after /\ after[Len(log) + k] = part[k]
    OBVIOUS
  <2>1. PICK i : i = Len(log) + k
    OBVIOUS
  <2>2. i \in 1..(Len(log) + n) /\ ~(i <= Len(log)) /\ i - Len(log) = k
    BY <1>9, <2>1
  <2> QED BY <1>9, <1>10, <2>1, <2>2
<1>12. \A k \in 1..n : part[k] = <<w, k>>
  BY <1>1, <1>4, <1>7
<1>13. \A i \in DOMAIN log : i \in DOMAIN after /\ after[i] = log[i]
  BY <1>9, <1>10
<1> QED BY <1>9, <1>11, <1>12, <1>13

LEMMA LogsStay ==
  ASSUME NEW ws, NEW w, NEW r, NEW wt, GoesOn(ws, w, r, wt), \A v \in DOMAIN ws : TurnFits(ws, v),
         NEW st, LogsFit(ws, st), AllThere(wt, st[ws[w].id], w),
         ws[w].stage = "closing" => r.stage \in {"closing", "settled"} /\ r.told # "failed"
  PROVE  LogsFit(wt, st)
<1>1. DOMAIN wt = DOMAIN ws /\ \A v \in DOMAIN ws : wt[v].id = ws[v].id /\ (v # w => wt[v] = ws[v])
  BY Advanced
<1>2. ASSUME NEW id \in Stored, NEW i \in DOMAIN st[id] PROVE EventFits(wt, id, st[id][i])
  <2>1. PICK e : e = st[id][i]
    OBVIOUS
  <2>2. EventFits(ws, id, e)
    BY <2>1 DEF LogsFit
  <2>3. e[1] = w => ws[w].stage = "closing"
    BY <2>2 DEF EventFits, GoesOn, Settled
  <2> QED BY <2>1, <2>2, <2>3, EventStays
<1>3. ASSUME NEW v \in DOMAIN wt PROVE AllThere(wt, st[wt[v].id], v)
  <2>1. CASE v = w
    BY <2>1, <1>1, <1>3
  <2>2. CASE v # w
    <3>1. AllThere(ws, st[ws[v].id], v)
      BY <1>1, <1>3 DEF LogsFit
    <3> QED BY <3>1, <2>2, <1>1, <1>3 DEF AllThere
  <2> QED BY <2>1, <2>2
<1>4. ASSUME NEW id \in Stored PROVE InOrder(wt, st[id])
  <2>1. PICK log : log = st[id]
    OBVIOUS
  <2>2. InOrder(ws, log) /\ \A i \in DOMAIN log : EventFits(ws, id, log[i])
    BY <2>1 DEF LogsFit
  <2> QED BY <2>1, <2>2, OrderStays
<1> QED BY <1>2, <1>3, <1>4 DEF LogsFit

\* The write whose turn it is comes after all that are in the log, which went well.
LEMMA AllBeforeAreOk ==
  ASSUME NEW ws, NEW un, NEW w \in DOMAIN ws, ws \in Seq(Writes), WritesFit(ws, un),
         ws[w].stage = "opened", NEW e, e[1] \in Nat, EventFits(ws, ws[w].id, e)
  PROVE  e[1] < w /\ ws[e[1]].told = "ok"
<1>1. PICK v : v = e[1]
  OBVIOUS
<1>2. /\ v \in DOMAIN ws /\ ws[v].id = ws[w].id /\ ws[v].stage \in {"closing", "settled"}
      /\ ws[v].told # "failed" /\ Before(ws, v)
  BY <1>1 DEF EventFits
<1>3. v \in Nat /\ w \in Nat /\ DOMAIN ws = 1..Len(ws) /\ Len(ws) \in Nat
  BY <1>2
<1>4. ~Settled(ws, w)
  BY DEF Settled
<1>5. ~(w < v)
  <2> SUFFICES ASSUME w < v PROVE FALSE
    OBVIOUS
  <2>1. w \in 1..(v - 1)
    BY <1>3
  <2> QED BY <2>1, <1>2, <1>4 DEF Before
<1>6. v # w
  BY <1>2
<1>7. v \in 1..(w - 1) /\ v < w
  BY <1>2, <1>3, <1>5, <1>6
<1>8. TurnFits(ws, w) /\ TurnFits(ws, v) /\ SureFits(ws, un, w) /\ SureFits(ws, un, v)
  BY <1>2 DEF WritesFit
<1>9. Before(ws, w)
  BY <1>4, <1>8 DEF TurnFits
<1>10. Settled(ws, v)
  BY <1>2, <1>7, <1>9 DEF Before
<1>11. ws[v].told # "nothing"
  BY <1>8, <1>10 DEF TurnFits
<1>12. ws[v].told # "unknown"
  BY <1>2, <1>8 DEF SureFits
<1>13. ws[v] \in Writes
  BY <1>2
<1>14. ws[v].told \in {"nothing", "ok", "failed", "unknown"}
  BY <1>13 DEF Writes
<1> QED BY <1>1, <1>2, <1>7, <1>11, <1>12, <1>14

\* A write that says so has added all of its events.
Filled(r, n, size) == r.told = "ok" \/ (r.stage = "closing" /\ ~r.failed) => n = size

\* One log has become another.
Grown(st, id, after, sa) ==
  DOMAIN sa = Stored /\ sa[id] = after /\ \A i \in Stored : i # id => sa[i] = st[i]

\* The write r has added n of its events, all of them if it says so.
LEMMA LogGrows ==
  ASSUME NEW ws, NEW un, NEW w, NEW r, NEW wt, GoesOn(ws, w, r, wt), WritesFit(ws, un),
         ws[w].stage = "opened", NEW st, LogsFit(ws, st), NEW n, NEW after,
         Added(st[ws[w].id], w, ws[w].size, n, after),
         r.stage \in {"closing", "settled"}, r.told # "failed",
         Filled(r, n, ws[w].size), NEW sa, Grown(st, ws[w].id, after, sa)
  PROVE  LogsFit(wt, sa)
<1>1. w \in DOMAIN ws /\ ws \in Seq(Writes) /\ ~Settled(ws, w)
  BY DEF GoesOn
<1>2. PICK mine, log : mine = ws[w].id /\ log = st[mine]
  OBVIOUS
<1>3. ws[w] \in Writes
  BY <1>1
<1>4. mine \in Stored /\ ws[w].size \in Nat
  BY <1>2, <1>3 DEF Writes
<1>5. /\ Len(log) \in Nat /\ n \in Nat
      /\ DOMAIN log = 1..Len(log) /\ DOMAIN after = 1..(Len(log) + n)
      /\ \A i \in DOMAIN log : i \in DOMAIN after /\ after[i] = log[i]
      /\ \A k \in 1..n : Len(log) + k \in DOMAIN after /\ after[Len(log) + k] = <<w, k>>
  <2>1. PICK size : size = ws[w].size
    OBVIOUS
  <2>2. Added(log, w, size, n, after)
    BY <1>2, <2>1
  <2> QED BY <2>2, EventsAdded
<1>6. log \in Seq(Pairs) /\ n \in 0..ws[w].size /\ w \in Nat
  BY <1>2 DEF Added
<1>7. \A v \in DOMAIN ws : TurnFits(ws, v)
  BY DEF WritesFit
<1>8. /\ DOMAIN wt = DOMAIN ws /\ wt[w] = r
      /\ \A v \in DOMAIN ws : wt[v].id = ws[v].id /\ wt[v].size = ws[v].size /\ (v # w => wt[v] = ws[v])
  BY Advanced
<1>9. \A i \in DOMAIN after : i \in DOMAIN log \/ (i - Len(log) \in 1..n /\ i = Len(log) + (i - Len(log)))
  BY <1>5
<1>10. \A id \in Stored : \A i \in DOMAIN st[id] : EventFits(wt, id, st[id][i])
  <2> SUFFICES ASSUME NEW id \in Stored, NEW i \in DOMAIN st[id] PROVE EventFits(wt, id, st[id][i])
    OBVIOUS
  <2>1. PICK e : e = st[id][i]
    OBVIOUS
  <2>2. EventFits(ws, id, e)
    BY <2>1 DEF LogsFit
  <2> QED BY <2>1, <2>2, EventStays
<1>11. ASSUME NEW k \in 1..n PROVE EventFits(wt, mine, <<w, k>>)
  <2>1. Before(ws, w)
    BY <1>1, <1>7, Zenon DEF TurnFits, GoesOn
  <2>2. Before(wt, w)
    BY <2>1, <1>1, BeforeStays
  <2>3. k \in 1..wt[w].size
    BY <1>1, <1>4, <1>6, <1>8
  <2>4. wt[w].id = mine
    BY <1>1, <1>2, <1>8
  <2>5. PICK e : e = <<w, k>>
    OBVIOUS
  <2>6. e[1] = w /\ e[2] = k
    BY <2>5
  <2> QED BY <1>1, <1>8, <2>2, <2>3, <2>4, <2>5, <2>6 DEF EventFits
<1>12. ASSUME NEW id \in Stored, NEW i \in DOMAIN sa[id] PROVE EventFits(wt, id, sa[id][i])
  <2>1. CASE id # mine
    BY <2>1, <1>2, <1>10, <1>12 DEF Grown
  <2>2. CASE id = mine /\ i \in DOMAIN log
    BY <2>2, <1>2, <1>5, <1>10 DEF Grown
  <2>3. CASE id = mine /\ i \notin DOMAIN log
    <3>1. i \in DOMAIN after /\ sa[id] = after
      BY <2>3, <1>2, <1>12 DEF Grown
    <3>2. PICK k : k = i - Len(log)
      OBVIOUS
    <3>3. k \in 1..n /\ i = Len(log) + k
      BY <2>3, <1>9, <3>1, <3>2
    <3>4. sa[id][i] = <<w, k>>
      BY <1>5, <3>1, <3>3
    <3> QED BY <2>3, <1>11, <3>3, <3>4
  <2> QED BY <2>1, <2>2, <2>3
<1>13. ASSUME NEW v \in DOMAIN wt PROVE AllThere(wt, sa[wt[v].id], v)
  <2>1. CASE v = w
    <3>1. wt[v].id = mine /\ wt[v].size = ws[w].size /\ wt[v] = r /\ sa[wt[v].id] = after
      BY <2>1, <1>1, <1>2, <1>8 DEF Grown
    <3>2. ASSUME r.told = "ok" \/ (r.stage = "closing" /\ ~r.failed), NEW k \in 1..ws[w].size
          PROVE  \E i \in DOMAIN after : after[i] = <<w, k>>
      <4>1. k \in 1..n
        BY <3>2 DEF Filled
      <4> QED BY <4>1, <1>5
    <3> QED BY <2>1, <3>1, <3>2 DEF AllThere
  <2>2. CASE v # w
    <3>1. wt[v] = ws[v] /\ v \in DOMAIN ws
      BY <2>2, <1>8, <1>13
    <3>2. AllThere(ws, st[ws[v].id], v)
      BY <3>1 DEF LogsFit
    <3>3. ws[v] \in Writes
      BY <1>1, <3>1
    <3>4. ws[v].id \in Stored
      BY <3>3 DEF Writes
    <3>5. CASE ws[v].id # mine
      BY <1>2, <3>1, <3>2, <3>4, <3>5 DEF AllThere, Grown
    <3>6. CASE ws[v].id = mine
      <4>1. AllThere(ws, log, v)
        BY <1>2, <3>2, <3>6
      <4>2. AllThere(wt, after, v)
        BY <4>1, <3>1, <1>5 DEF AllThere
      <4> QED BY <4>2, <3>1, <3>6, <1>2 DEF Grown
    <3> QED BY <3>5, <3>6
  <2> QED BY <2>1, <2>2
<1>14. ASSUME NEW id \in Stored PROVE InOrder(wt, st[id])
  <2>1. PICK old : old = st[id]
    OBVIOUS
  <2>2. InOrder(ws, old) /\ \A i \in DOMAIN old : EventFits(ws, id, old[i])
    BY <2>1 DEF LogsFit
  <2> QED BY <2>1, <2>2, <1>7, OrderStays
<1>15. InOrder(wt, after)
  <2> SUFFICES ASSUME NEW i \in DOMAIN after, NEW j \in DOMAIN after, i < j
               PROVE  /\ after[i][1] < after[j][1] \/ (after[i][1] = after[j][1] /\ after[i][2] < after[j][2])
                      /\ after[i][1] # after[j][1] => wt[after[i][1]].told = "ok"
    BY DEF InOrder
  <2>1. i \in Int /\ j \in Int
    BY <1>5
  <2>2. CASE j \in DOMAIN log
    <3>1. i \in DOMAIN log
      BY <2>2, <1>5
    <3>2. InOrder(wt, log)
      BY <1>2, <1>4, <1>14
    <3>3. after[i] = log[i] /\ after[j] = log[j]
      BY <2>2, <3>1, <1>5
    <3> QED BY <2>2, <3>1, <3>2, <3>3 DEF InOrder
  <2>3. CASE j \notin DOMAIN log
    <3>1. PICK k : k = j - Len(log)
      OBVIOUS
    <3>2. k \in 1..n /\ j = Len(log) + k
      BY <2>3, <1>9, <3>1
    <3>3. after[j] = <<w, k>>
      BY <1>5, <3>2
    <3>4. after[j][1] = w /\ after[j][2] = k
      BY <3>3
    <3>5. CASE i \in DOMAIN log
      <4>1. PICK e : e = log[i]
        OBVIOUS
      <4>2. e \in Pairs
        BY <1>6, <3>5, <4>1
      <4>3. e[1] \in Nat
        BY <4>2 DEF Pairs
      <4>4. EventFits(ws, mine, e)
        BY <1>2, <1>4, <3>5, <4>1 DEF LogsFit
      <4>5. e[1] < w /\ ws[e[1]].told = "ok"
        BY <1>1, <1>2, <4>3, <4>4, AllBeforeAreOk
      <4>6. after[i] = e
        BY <1>5, <3>5, <4>1
      <4>7. e[1] \in DOMAIN ws /\ e[1] # w
        BY <4>3, <4>4, <4>5, <1>6 DEF EventFits
      <4>8. wt[e[1]] = ws[e[1]]
        BY <4>7, <1>8
      <4> QED BY <3>4, <4>5, <4>6, <4>8
    <3>6. CASE i \notin DOMAIN log
      <4>1. PICK h : h = i - Len(log)
        OBVIOUS
      <4>2. h \in 1..n /\ i = Len(log) + h
        BY <3>6, <1>9, <4>1
      <4>3. after[i] = <<w, h>>
        BY <1>5, <4>2
      <4>4. after[i][1] = w /\ after[i][2] = h
        BY <4>3
      <4>5. h < k
        BY <2>1, <3>2, <4>2, <1>5
      <4> QED BY <3>4, <4>4, <4>5
    <3> QED BY <3>5, <3>6
  <2> QED BY <2>2, <2>3
<1>16. \A id \in Stored : InOrder(wt, sa[id])
  BY <1>2, <1>14, <1>15 DEF Grown
<1> QED BY <1>12, <1>13, <1>16 DEF LogsFit

LEMMA ReadStays ==
  ASSUME NEW x, NEW log, NEW w, NEW size, NEW n, NEW after, Added(log, w, size, n, after),
         x \in Readers, ReadFits(x, log)
  PROVE  ReadFits(x, after)
<1>1. /\ Len(log) \in Nat /\ n \in Nat /\ Len(after) = Len(log) + n
      /\ DOMAIN log = 1..Len(log) /\ \A i \in DOMAIN log : after[i] = log[i]
  BY EventsAdded
<1>2. x.from \in Nat /\ x.offset \in Nat /\ x.atLeast \in Nat
  BY DEF Readers
<1>3. /\ x.from <= x.offset /\ x.offset <= Len(log) /\ x.atLeast <= Len(log)
      /\ Len(x.events) = x.offset - x.from
      /\ \A i \in 1..Len(x.events) : x.events[i] = log[x.from + i]
      /\ x.stage \in {"closing", "done"} => x.atLeast <= x.offset
  BY DEF ReadFits
<1>4. \A i \in 1..Len(x.events) : x.from + i \in DOMAIN log
  BY <1>1, <1>2, <1>3
<1>5. \A i \in 1..Len(x.events) : x.events[i] = after[x.from + i]
  BY <1>1, <1>3, <1>4
<1>6. x.offset <= Len(after) /\ x.atLeast <= Len(after)
  BY <1>1, <1>2, <1>3
<1> QED BY <1>3, <1>5, <1>6 DEF ReadFits

-----------------------------------------------------------------------------
(* The steps. *)

LEMMA OnlyOneRuns ==
  ASSUME NEW ws, NEW w, NEW r, NEW wt, GoesOn(ws, w, r, wt), \A v \in DOMAIN ws : TurnFits(ws, v),
         NEW v \in DOMAIN ws, v # w, ws[v].id = ws[w].id
  PROVE  ws[v].stage \notin {"opening", "opened", "closing"}
<1> SUFFICES ASSUME ws[v].stage \in {"opening", "opened", "closing"} PROVE FALSE
  OBVIOUS
<1>1. w \in DOMAIN ws /\ ~Settled(ws, w) /\ TurnCame(ws, w) /\ ws \in Seq(Writes)
  BY DEF GoesOn
<1>2. ~Settled(ws, v) /\ ws[v].stage # "waiting"
  BY DEF Settled
<1>3. Before(ws, w) /\ Before(ws, v)
  BY <1>1, <1>2 DEF TurnFits
<1>4. v \in 1..(w - 1) \/ w \in 1..(v - 1)
  BY <1>1
<1> QED BY <1>1, <1>2, <1>3, <1>4 DEF Before

LEMMA WriteStepKeeps ==
  ASSUME PersIInv, NEW w, NEW r, GoesOn(writes, w, r, writes'), UNCHANGED <<contract, reader>>,
         queues' = (IF r.stage = "settled" THEN [queues EXCEPT ![r.id] = IF @ = w THEN 0 ELSE @] ELSE queues),
         uncertain' = (IF r.told = "unknown" THEN uncertain \cup {r.id} ELSE uncertain),
         r.stage \in {"opening", "opened", "closing"} => r.id \notin uncertain,
         stored' \in [Stored -> Seq(Pairs)], LogsFit(writes', stored'), ReaderFits(reader, stored')
  PROVE  PersIInv'
<1>1. PICK ws, wt, qs, qt, un, vn :
        ws = writes /\ wt = writes' /\ qs = queues /\ qt = queues' /\ un = uncertain /\ vn = uncertain'
  OBVIOUS
<1>2. GoesOn(ws, w, r, wt) /\ WritesFit(ws, un) /\ QueuesFit(ws, qs)
  BY <1>1 DEF PersIInv
<1>3. \A v \in DOMAIN ws : TurnFits(ws, v) /\ SureFits(ws, un, v)
  BY <1>2 DEF WritesFit
<1>4. w \in DOMAIN ws /\ r \in Writes /\ r.id = ws[w].id /\ r.stage # "waiting"
      /\ (r.told = "nothing" <=> r.stage # "settled")
  BY <1>2 DEF GoesOn
<1>5. r.id \in Stored /\ r.stage \in WriteStages
  BY <1>4 DEF Writes
<1>6. DOMAIN wt = DOMAIN ws /\ wt \in Seq(Writes) /\ wt[w] = r
  BY <1>2, Advanced
<1>7. qs \in [Stored -> Nat] /\ un \subseteq Stored
  BY <1>1 DEF PersIInv, PersTypes
<1>8. un \subseteq vn /\ vn \subseteq Stored /\ vn \subseteq un \cup {r.id} /\ (r.told = "unknown" => r.id \in vn)
      /\ (r.told # "unknown" => vn = un)
  BY <1>1, <1>5, <1>7
<1>9. SureFits(wt, vn, w)
  BY <1>1, <1>4, <1>6, <1>8 DEF SureFits
<1>10. ASSUME NEW v \in DOMAIN wt PROVE TurnFits(wt, v) /\ SureFits(wt, vn, v)
  <2>1. \A u \in DOMAIN ws : u # w /\ ws[u].id \in vn \ un => ws[u].stage \notin {"opening", "opened", "closing"}
    BY <1>2, <1>3, <1>4, <1>8, OnlyOneRuns
  <2>2. v \in DOMAIN ws
    BY <1>6, <1>10
  <2>3. SureFits(wt, vn, v)
    BY <1>2, <1>3, <1>8, <1>9, <2>1, <2>2, SureStays
  <2> QED BY <1>2, <1>3, <2>2, <2>3, TurnStays
<1>11. qt \in [Stored -> Nat]
  BY <1>1, <1>5, <1>7
<1>12. ASSUME NEW id \in Stored PROVE QueueFits(wt, qt[id], id)
  <2>1. PICK q, p : q = qs[id] /\ p = qt[id]
    OBVIOUS
  <2>2. QueueFits(ws, q, id)
    BY <1>2, <2>1 DEF QueuesFit
  <2>3. id # r.id => q # w
    <3>1. w # 0
      BY <1>2 DEF GoesOn
    <3> QED BY <2>2, <3>1, <1>4 DEF QueueFits
  <2>4. r.stage = "settled" => p = (IF q = w THEN 0 ELSE q)
    BY <1>1, <1>5, <1>7, <2>1, <2>3
  <2>5. r.stage # "settled" => p = q
    BY <1>1, <2>1
  <2> QED BY <1>2, <1>3, <2>1, <2>2, <2>4, <2>5, QueueStays
<1>13. PersTypes'
  BY <1>1, <1>6, <1>8, <1>11 DEF PersIInv, PersTypes, Pairs
<1>14. WritesFit(writes', uncertain')
  BY <1>1, <1>10 DEF WritesFit
<1>15. QueuesFit(writes', queues')
  BY <1>1, <1>12 DEF QueuesFit
<1>16. ReaderFits(reader', stored')
  OBVIOUS
<1> QED BY <1>13, <1>14, <1>15, <1>16 DEF PersIInv

Tellings == {"nothing", "ok", "failed", "unknown"}

\* r is x with another stage and what its caller is told.
Marked(x, s, t, f, r) ==
  /\ s \in {"opening", "opened", "closing", "settled"} /\ t \in Tellings /\ f \in BOOLEAN
  /\ t = "nothing" <=> s # "settled"
  /\ r = [id |-> x.id, kind |-> x.kind, size |-> x.size, previous |-> x.previous, stage |-> s,
          failed |-> f, told |-> t]

MayGo(ws, w) == ws \in Seq(Writes) /\ w \in DOMAIN ws /\ ~Settled(ws, w) /\ TurnCame(ws, w)

\* A write that is not settled, when its turn has come, becomes r.
LEMMA Becomes ==
  ASSUME NEW ws, NEW w, MayGo(ws, w), NEW x, x = ws[w], NEW s, NEW t, NEW f, NEW r, Marked(x, s, t, f, r),
         NEW wt, wt = [ws EXCEPT ![w] = r]
  PROVE  GoesOn(ws, w, r, wt)
<1>1. ws \in Seq(Writes) /\ w \in DOMAIN ws /\ ~Settled(ws, w) /\ TurnCame(ws, w)
  BY DEF MayGo
<1>2. x \in Writes
  BY <1>1
<1>3. /\ x.id \in Stored /\ x.kind \in {"create", "append"} /\ x.size \in Nat /\ x.previous \in Nat
  BY <1>2 DEF Writes
<1>4. /\ r = [id |-> x.id, kind |-> x.kind, size |-> x.size, previous |-> x.previous, stage |-> s,
              failed |-> f, told |-> t]
      /\ s \in {"opening", "opened", "closing", "settled"} /\ t \in Tellings /\ f \in BOOLEAN
      /\ (t = "nothing" <=> s # "settled")
  BY Zenon DEF Marked
<1>5. s \in WriteStages
  BY <1>4 DEF WriteStages
<1>6. r \in Writes
  BY <1>3, <1>4, <1>5 DEF Writes, Tellings
<1>7. r.id = x.id /\ r.previous = x.previous /\ r.size = x.size /\ r.stage = s /\ r.told = t
  BY <1>4
<1> QED BY <1>1, <1>4, <1>6, <1>7 DEF GoesOn

LEMMA MarkedIs ==
  ASSUME NEW x, NEW s, NEW t, NEW f, NEW r, Marked(x, s, t, f, r)
  PROVE  r.id = x.id /\ r.stage = s /\ r.told = t /\ r.failed = f
<1>1. r = [id |-> x.id, kind |-> x.kind, size |-> x.size, previous |-> x.previous, stage |-> s,
           failed |-> f, told |-> t]
  BY Zenon DEF Marked
<1> QED BY <1>1

LEMMA StandsAt ==
  ASSUME PersIInv, NEW w, NEW s, At(w, s), s \in {"opening", "opened", "closing"}
  PROVE  /\ w \in DOMAIN writes /\ ~Settled(writes, w) /\ TurnCame(writes, w) /\ writes[w].stage = s
         /\ writes[w].id \in Stored /\ writes[w].id \notin uncertain /\ writes[w].size \in Nat
         /\ writes[w].failed \in BOOLEAN
<1>1. w \in DOMAIN writes /\ writes[w].stage = s /\ s # "waiting" /\ s # "settled"
  BY DEF At
<1>2. writes \in Seq(Writes) /\ WritesFit(writes, uncertain)
  BY DEF PersIInv, PersTypes
<1>3. writes[w] \in Writes
  BY <1>1, <1>2
<1>4. writes[w].id \in Stored /\ writes[w].size \in Nat /\ writes[w].failed \in BOOLEAN
  BY <1>3 DEF Writes
<1>5. TurnFits(writes, w) /\ SureFits(writes, uncertain, w)
  BY <1>1, <1>2 DEF WritesFit
<1>6. ~Settled(writes, w)
  BY <1>1 DEF Settled
<1>7. TurnCame(writes, w)
  BY <1>1, <1>5, <1>6 DEF TurnFits
<1>8. writes[w].id \notin uncertain
  BY <1>1, <1>5 DEF SureFits
<1> QED BY <1>1, <1>4, <1>6, <1>7, <1>8

\* The stage of a write becomes s, and whether it failed f.
GoesTo(w, s, f) ==
  /\ s \in {"opening", "opened", "closing"} /\ f \in BOOLEAN
  /\ \/ writes' = [writes EXCEPT ![w].stage = s] /\ f = writes[w].failed
     \/ writes' = [writes EXCEPT ![w].stage = s, ![w].failed = f]

LEMMA GoesMakes ==
  ASSUME PersIInv, NEW w, w \in DOMAIN writes, ~Settled(writes, w), TurnCame(writes, w),
         NEW s, NEW f, GoesTo(w, s, f)
  PROVE  \E r : /\ GoesOn(writes, w, r, writes') /\ r.id = writes[w].id
                /\ r.stage = s /\ r.told = "nothing" /\ r.failed = f
<1>1. writes \in Seq(Writes) /\ TurnFits(writes, w)
  BY DEF PersIInv, PersTypes, WritesFit
<1>2. PICK x : x = writes[w]
  OBVIOUS
<1>3. x \in Writes /\ x.told = "nothing"
  BY <1>1, <1>2 DEF TurnFits
<1>4. PICK r : r = [id |-> x.id, kind |-> x.kind, size |-> x.size, previous |-> x.previous, stage |-> s,
                    failed |-> f, told |-> "nothing"]
  OBVIOUS
<1>5. x = [id |-> x.id, kind |-> x.kind, size |-> x.size, previous |-> x.previous, stage |-> x.stage,
           failed |-> x.failed, told |-> x.told]
  BY <1>3 DEF Writes
<1>6. writes' = [writes EXCEPT ![w] = r]
  <2>1. CASE writes' = [writes EXCEPT ![w].stage = s] /\ f = writes[w].failed
    <3>1. [x EXCEPT !.stage = s] = r
      BY <1>2, <1>3, <1>4, <1>5, <2>1
    <3>2. writes' = [writes EXCEPT ![w] = [x EXCEPT !.stage = s]]
      BY <1>2, <2>1
    <3> QED BY <3>1, <3>2
  <2>2. CASE writes' = [writes EXCEPT ![w].stage = s, ![w].failed = f]
    <3>1. PICK y : y = [x EXCEPT !.stage = s]
      OBVIOUS
    <3>2. y = [id |-> x.id, kind |-> x.kind, size |-> x.size, previous |-> x.previous, stage |-> s,
               failed |-> x.failed, told |-> x.told]
      BY <1>5, <3>1
    <3>3. [y EXCEPT !.failed = f] = r
      BY <1>3, <1>4, <3>2
    <3>4. PICK ws : ws = [writes EXCEPT ![w].stage = s]
      OBVIOUS
    <3>5. ws[w] = y /\ ws = [writes EXCEPT ![w] = y]
      BY <1>2, <3>1, <3>4
    <3>6. writes' = [ws EXCEPT ![w].failed = f]
      BY <2>2, <3>4
    <3>7. writes' = [ws EXCEPT ![w] = r]
      BY <3>3, <3>5, <3>6
    <3> QED BY <3>5, <3>7
  <2> QED BY <2>1, <2>2, Zenon DEF GoesTo
<1>7. PICK t : t = "nothing"
  OBVIOUS
<1>8. /\ t \in Tellings /\ (t = "nothing" <=> s # "settled")
      /\ s \in {"opening", "opened", "closing", "settled"} /\ f \in BOOLEAN
  BY <1>7 DEF Tellings, GoesTo
<1>9. Marked(x, s, t, f, r)
  BY <1>4, <1>7, <1>8, Zenon DEF Marked
<1>10. PICK ws, wt : ws = writes /\ wt = writes'
  OBVIOUS
<1>11. MayGo(ws, w)
  BY <1>1, <1>10 DEF MayGo
<1>12. GoesOn(ws, w, r, wt)
  BY <1>2, <1>6, <1>9, <1>10, <1>11, Becomes
<1>13. r.id = x.id /\ r.stage = s /\ r.told = t /\ r.failed = f
  BY <1>9, MarkedIs
<1> QED BY <1>2, <1>7, <1>10, <1>12, <1>13

LEMMA SettleMakes ==
  ASSUME PersIInv, NEW w, w \in DOMAIN writes, ~Settled(writes, w), TurnCame(writes, w),
         NEW t \in {"ok", "failed", "unknown"}, SettleWrite(w, t)
  PROVE  \E r : /\ GoesOn(writes, w, r, writes') /\ r.id = writes[w].id
                /\ r.stage = "settled" /\ r.told = t
                /\ queues' = (IF r.stage = "settled" THEN [queues EXCEPT ![r.id] = IF @ = w THEN 0 ELSE @] ELSE queues)
                /\ uncertain' = (IF r.told = "unknown" THEN uncertain \cup {r.id} ELSE uncertain)
                /\ UNCHANGED reader
<1>1. writes \in Seq(Writes) /\ TurnFits(writes, w)
  BY DEF PersIInv, PersTypes, WritesFit
<1>2. PICK x : x = writes[w]
  OBVIOUS
<1>3. x \in Writes
  BY <1>1, <1>2
<1>4. PICK f : f = x.failed
  OBVIOUS
<1>5. f \in BOOLEAN
  BY <1>3, <1>4 DEF Writes
<1>6. PICK r : r = [id |-> x.id, kind |-> x.kind, size |-> x.size, previous |-> x.previous, stage |-> "settled",
                    failed |-> f, told |-> t]
  OBVIOUS
<1>7. x = [id |-> x.id, kind |-> x.kind, size |-> x.size, previous |-> x.previous, stage |-> x.stage,
           failed |-> f, told |-> x.told]
  BY <1>3, <1>4 DEF Writes
<1>8. writes' = [writes EXCEPT ![w] = r]
  <2>1. PICK y : y = [x EXCEPT !.stage = "settled"]
    OBVIOUS
  <2>2. y = [id |-> x.id, kind |-> x.kind, size |-> x.size, previous |-> x.previous, stage |-> "settled",
             failed |-> f, told |-> x.told]
    BY <1>7, <2>1
  <2>3. [y EXCEPT !.told = t] = r
    BY <1>6, <2>2
  <2>4. PICK ws : ws = [writes EXCEPT ![w].stage = "settled"]
    OBVIOUS
  <2>5. ws[w] = y /\ ws = [writes EXCEPT ![w] = y]
    BY <1>2, <2>1, <2>4
  <2>6. writes' = [ws EXCEPT ![w].told = t]
    BY <2>4 DEF SettleWrite
  <2>7. writes' = [ws EXCEPT ![w] = r]
    BY <2>3, <2>5, <2>6
  <2> QED BY <2>5, <2>7
<1>9. PICK s : s = "settled"
  OBVIOUS
<1>10. /\ GoesOn(writes, w, r, writes') /\ r.id = writes[w].id /\ r.stage = "settled" /\ r.told = t
  <2>1. t \in Tellings /\ (t = "nothing" <=> s # "settled") /\ s \in {"opening", "opened", "closing", "settled"}
    BY <1>9 DEF Tellings
  <2>2. Marked(x, s, t, f, r)
    BY <1>5, <1>6, <1>9, <2>1, Zenon DEF Marked
  <2>3. PICK ws, wt : ws = writes /\ wt = writes'
    OBVIOUS
  <2>4. MayGo(ws, w)
    BY <1>1, <2>3 DEF MayGo
  <2>5. GoesOn(ws, w, r, wt)
    BY <1>2, <1>8, <2>2, <2>3, <2>4, Becomes
  <2>6. r.id = x.id /\ r.stage = s /\ r.told = t
    BY <2>2, MarkedIs
  <2> QED BY <1>2, <1>9, <2>3, <2>5, <2>6
<1>11. /\ UNCHANGED reader
       /\ uncertain' = (IF t = "unknown" THEN uncertain \cup {writes[w].id} ELSE uncertain)
       /\ queues' = [queues EXCEPT ![writes[w].id] = IF @ = w THEN 0 ELSE @]
  BY DEF SettleWrite
<1>12. /\ queues' = (IF r.stage = "settled" THEN [queues EXCEPT ![r.id] = IF @ = w THEN 0 ELSE @] ELSE queues)
       /\ uncertain' = (IF r.told = "unknown" THEN uncertain \cup {r.id} ELSE uncertain)
  BY <1>10, <1>11
<1> QED BY <1>10, <1>11, <1>12

LEMMA PersInitially == PersInit => PersIInv
<1> SUFFICES ASSUME PersInit PROVE PersIInv
  OBVIOUS
<1>1. writes = <<>> /\ writes \in Seq(Writes) /\ DOMAIN writes = {} /\ Len(writes) = 0
  BY DEF PersInit
<1>2. \A id \in Stored : stored[id] = <<>> /\ DOMAIN stored[id] = {} /\ queues[id] = 0
  BY DEF PersInit
<1>3. NoReader \in Readers /\ NoReader.stage = "idle"
  <2>1. <<>> \in Seq(Nat \X Nat)
    OBVIOUS
  <2> QED BY <2>1 DEF NoReader, Readers
<1>4. PersTypes
  <2>1. stored \in [Stored -> Seq(Nat \X Nat)]
    BY DEF PersInit
  <2>2. queues \in [Stored -> Nat]
    BY DEF PersInit
  <2> QED BY <1>1, <1>3, <2>1, <2>2 DEF PersInit, PersTypes
<1>5. WritesFit(writes, uncertain)
  BY <1>1 DEF WritesFit
<1>6. QueuesFit(writes, queues)
  BY <1>1, <1>2 DEF QueuesFit, QueueFits
<1>7. LogsFit(writes, stored)
  BY <1>1, <1>2 DEF LogsFit, InOrder
<1>8. ReaderFits(reader, stored)
  BY <1>3 DEF PersInit, ReaderFits
<1> QED BY <1>4, <1>5, <1>6, <1>7, <1>8 DEF PersIInv

\* A step of a write that leaves the logs alone.
LEMMA QuietStepKeeps ==
  ASSUME PersIInv, NEW w, NEW r, GoesOn(writes, w, r, writes'), UNCHANGED <<contract, reader, stored>>,
         queues' = (IF r.stage = "settled" THEN [queues EXCEPT ![r.id] = IF @ = w THEN 0 ELSE @] ELSE queues),
         uncertain' = (IF r.told = "unknown" THEN uncertain \cup {r.id} ELSE uncertain),
         r.stage \in {"opening", "opened", "closing"} => r.id \notin uncertain,
         writes[w].stage = "closing" => r.stage \in {"closing", "settled"} /\ r.told # "failed",
         r.told = "ok" \/ (r.stage = "closing" /\ ~r.failed) => writes[w].stage = "closing" /\ ~writes[w].failed
  PROVE  PersIInv'
<1>1. PICK ws, wt, st : ws = writes /\ wt = writes' /\ st = stored
  OBVIOUS
<1>2. GoesOn(ws, w, r, wt) /\ LogsFit(ws, st) /\ \A v \in DOMAIN ws : TurnFits(ws, v)
  BY <1>1 DEF PersIInv, WritesFit
<1>3. w \in DOMAIN ws /\ wt[w] = r /\ wt[w].size = ws[w].size
  <2>1. w \in DOMAIN ws
    BY <1>2 DEF GoesOn
  <2> QED BY <1>2, <2>1, Advanced
<1>4. AllThere(wt, st[ws[w].id], w)
  <2>1. AllThere(ws, st[ws[w].id], w)
    BY <1>2, <1>3 DEF LogsFit
  <2> QED BY <2>1, <1>1, <1>3 DEF AllThere
<1>5. LogsFit(wt, st)
  <2>1. ws[w].stage = "closing" => r.stage \in {"closing", "settled"} /\ r.told # "failed"
    BY <1>1
  <2> QED BY <2>1, <1>2, <1>4, LogsStay
<1>6. LogsFit(writes', stored')
  BY <1>1, <1>5
<1>7. ReaderFits(reader, stored') /\ stored' \in [Stored -> Seq(Pairs)]
  BY DEF PersIInv, PersTypes, Pairs
<1> QED BY <1>6, <1>7, WriteStepKeeps

LEMMA CallKeeps ==
  ASSUME PersIInv, NEW id \in Stored, NEW kind \in {"create", "append"}, NEW size \in {0, 2},
         enqueueWrite(id, kind, size)
  PROVE  PersIInv'
<1>1. PICK ws, wt, qs, qt, un, q :
        ws = writes /\ wt = writes' /\ qs = queues /\ qt = queues' /\ un = uncertain /\ q = queues[id]
  OBVIOUS
<1>2. /\ ws \in Seq(Writes) /\ WritesFit(ws, un) /\ QueuesFit(ws, qs) /\ qs \in [Stored -> Nat] /\ un \subseteq Stored
  BY <1>1 DEF PersIInv, PersTypes
<1>3. PICK s : s = IF id \in uncertain THEN "settled" ELSE "waiting"
  OBVIOUS
<1>4. PICK t : t = IF id \in uncertain THEN "unknown" ELSE "nothing"
  OBVIOUS
<1>5. PICK f, r : f = FALSE /\ r = [id |-> id, kind |-> kind, size |-> size, previous |-> q, stage |-> s,
                                   failed |-> f, told |-> t]
  OBVIOUS
<1>6. wt = Append(ws, r) /\ qt = IF id \in uncertain THEN qs ELSE [qs EXCEPT ![id] = Len(ws) + 1]
  <2>1. CASE id \in uncertain
    <3>1. [Write(id, kind, size) EXCEPT !.stage = "settled", !.told = "unknown"] = r
      <4>1. PICK x : x = Write(id, kind, size)
        OBVIOUS
      <4>2. x = [id |-> id, kind |-> kind, size |-> size, previous |-> q, stage |-> "waiting",
                 failed |-> f, told |-> "nothing"]
        BY <4>1, <1>1, <1>5, Zenon DEF Write
      <4>3. PICK y : y = [x EXCEPT !.stage = "settled"]
        OBVIOUS
      <4>4. y = [id |-> id, kind |-> kind, size |-> size, previous |-> q, stage |-> "settled",
                 failed |-> f, told |-> "nothing"]
        BY <4>2, <4>3
      <4>5. s = "settled" /\ t = "unknown"
        BY <2>1, <1>3, <1>4
      <4>6. r = [id |-> id, kind |-> kind, size |-> size, previous |-> q, stage |-> "settled",
                 failed |-> f, told |-> "unknown"]
        BY <4>5, <1>5
      <4>7. [y EXCEPT !.told = "unknown"] = r
        BY <4>4, <4>6
      <4> QED BY <4>1, <4>3, <4>7
    <3>2. /\ writes' = Append(writes, [Write(id, kind, size) EXCEPT !.stage = "settled", !.told = "unknown"])
          /\ UNCHANGED queues
      BY <2>1 DEF enqueueWrite
    <3> QED BY <2>1, <3>1, <3>2, <1>1
  <2>2. CASE id \notin uncertain
    <3>1. Write(id, kind, size) = r
      BY <2>2, <1>1, <1>3, <1>4, <1>5 DEF Write
    <3>2. writes' = Append(writes, Write(id, kind, size)) /\ queues' = [queues EXCEPT ![id] = Len(writes) + 1]
      BY <2>2 DEF enqueueWrite
    <3> QED BY <2>2, <3>1, <3>2, <1>1
  <2> QED BY <2>1, <2>2
<1>7. /\ r.id = id /\ r.previous = q /\ r.stage = s /\ r.told = t
      /\ s \in {"waiting", "settled"} /\ t \in {"nothing", "unknown"} /\ (t = "nothing" <=> s # "settled")
      /\ (t = "unknown" <=> id \in un) /\ (s = "waiting" <=> id \notin un)
  BY <1>1, <1>3, <1>4, <1>5
<1>8. r \in Writes
  <2>1. q \in Nat /\ size \in Nat /\ f \in BOOLEAN
    <3>1. f \in BOOLEAN
      BY <1>5, Zenon
    <3>2. q \in Nat
      BY <1>1, <1>2
    <3> QED BY <3>1, <3>2
  <2>2. s \in WriteStages /\ t \in {"nothing", "ok", "failed", "unknown"}
    BY <1>7 DEF WriteStages
  <2> QED BY <1>5, <2>1, <2>2 DEF Writes
<1>9. Called(ws, q, r, wt)
  <2>1. QueueFits(ws, q, r.id)
    BY <1>1, <1>2, <1>7 DEF QueuesFit
  <2> QED BY <1>2, <1>6, <1>7, <1>8, <2>1 DEF Called
<1>10. \A v \in DOMAIN ws : TurnFits(ws, v) /\ SureFits(ws, un, v)
  BY <1>2 DEF WritesFit
<1>11. ASSUME NEW u \in DOMAIN wt PROVE TurnFits(wt, u) /\ SureFits(wt, un, u)
  <2>1. TurnFits(wt, u)
    BY <1>9, <1>10, TurnsAfterCall
  <2>2. r.told = "unknown" => r.id \in un
    BY <1>7
  <2> QED BY <1>9, <1>10, <2>1, <2>2, SureAfterCall
<1>12. qt \in [Stored -> Nat]
  <2>1. Len(ws) + 1 \in Nat
    BY <1>2
  <2> QED BY <2>1, <1>2, <1>6
<1>13. ASSUME NEW i \in Stored PROVE QueueFits(wt, qt[i], i)
  <2>1. PICK o, p : o = qs[i] /\ p = qt[i]
    OBVIOUS
  <2>2. QueueFits(ws, o, i)
    BY <1>2, <2>1 DEF QueuesFit
  <2>3. IF r.id = i /\ r.stage = "waiting" THEN p = Len(ws) + 1 ELSE p = o
    BY <1>1, <1>2, <1>6, <1>7, <2>1
  <2> QED BY <1>9, <2>1, <2>2, <2>3, QueueAfterCall
<1>14. PICK st : st = stored
  OBVIOUS
<1>15. ASSUME NEW i \in Stored
       PROVE  InOrder(wt, st[i]) /\ \A k \in DOMAIN st[i] : EventFits(wt, i, st[i][k])
  <2>1. PICK log : log = st[i]
    OBVIOUS
  <2>2. InOrder(ws, log) /\ \A k \in DOMAIN log : EventFits(ws, i, log[k])
    BY <1>1, <1>14, <2>1 DEF PersIInv, LogsFit
  <2>3. InOrder(wt, log) /\ \A k \in DOMAIN log : EventFits(wt, i, log[k])
    BY <1>9, <2>2, LogAfterCall
  <2> QED BY <2>1, <2>3
<1>16. ASSUME NEW v \in DOMAIN wt PROVE AllThere(wt, st[wt[v].id], v)
  <2>1. /\ DOMAIN ws = 1..Len(ws) /\ DOMAIN wt = 1..(Len(ws) + 1) /\ Len(ws) \in Nat
        /\ wt[Len(ws) + 1] = r /\ \A u \in DOMAIN ws : wt[u] = ws[u]
    BY <1>9, CalledAdds
  <2>2. CASE v \in DOMAIN ws
    <3>1. AllThere(ws, st[ws[v].id], v)
      BY <2>2, <1>1, <1>14 DEF PersIInv, LogsFit
    <3> QED BY <3>1, <2>1, <2>2 DEF AllThere
  <2>3. CASE v = Len(ws) + 1
    <3>1. wt[v].told # "ok" /\ wt[v].stage # "closing"
      BY <2>1, <2>3, <1>7
    <3> QED BY <3>1 DEF AllThere
  <2> QED BY <2>1, <2>2, <2>3, <1>16
<1>17. LogsFit(wt, st)
  BY <1>15, <1>16 DEF LogsFit
<1>18. wt \in Seq(Writes)
  BY <1>9, CalledAdds
<1>19. UNCHANGED <<contract, stored, uncertain, reader>>
  BY DEF enqueueWrite, service
<1>20. PersTypes'
  BY <1>1, <1>12, <1>18, <1>19 DEF PersIInv, PersTypes
<1>21. WritesFit(writes', uncertain') /\ QueuesFit(writes', queues')
  BY <1>1, <1>11, <1>13, <1>19 DEF WritesFit, QueuesFit
<1>22. LogsFit(writes', stored') /\ ReaderFits(reader', stored')
  BY <1>1, <1>14, <1>17, <1>19 DEF PersIInv
<1> QED BY <1>20, <1>21, <1>22 DEF PersIInv

LEMMA WriteBegins ==
  ASSUME PersIInv, NEW w, BeginWrite(w)
  PROVE  PersIInv'
<1>1. /\ w \in DOMAIN writes /\ writes[w].stage = "waiting" /\ Turn(w) /\ UNCHANGED service
      /\ ~Settled(writes, w)
  BY DEF BeginWrite, At, Settled
<1>2. TurnCame(writes, w)
  BY <1>1 DEF Turn, At, TurnCame, Settled
<1>3. CASE writes[w].id \in uncertain
  <2>1. PICK t : t = "unknown"
    OBVIOUS
  <2>2. SettleWrite(w, t)
    BY <1>3, <2>1 DEF BeginWrite
  <2>3. PICK r : /\ GoesOn(writes, w, r, writes') /\ r.id = writes[w].id
                 /\ r.stage = "settled" /\ r.told = t
                 /\ queues' = (IF r.stage = "settled" THEN [queues EXCEPT ![r.id] = IF @ = w THEN 0 ELSE @] ELSE queues)
                 /\ uncertain' = (IF r.told = "unknown" THEN uncertain \cup {r.id} ELSE uncertain)
                 /\ UNCHANGED reader
    BY <1>1, <1>2, <2>1, <2>2, SettleMakes
  <2>4. UNCHANGED <<contract, reader, stored>>
    BY <1>1, <2>3 DEF service
  <2> QED BY <1>1, <2>1, <2>3, <2>4, QuietStepKeeps
<1>4. CASE writes[w].id \notin uncertain
  <2>1. PICK s, f : s = (IF contract = "legacy" /\ writes[w].kind = "append" THEN "opened" ELSE "opening")
                    /\ f = writes[w].failed
    OBVIOUS
  <2>2. s \in {"opening", "opened"} /\ f \in BOOLEAN
    <3>1. writes \in Seq(Writes)
      BY DEF PersIInv, PersTypes
    <3>2. writes[w] \in Writes
      BY <1>1, <3>1
    <3> QED BY <2>1, <3>2 DEF Writes
  <2>3. writes' = [writes EXCEPT ![w].stage = s] /\ UNCHANGED <<queues, uncertain, reader>>
    BY <1>4, <2>1 DEF BeginWrite, Goes
  <2>4. PICK r : GoesOn(writes, w, r, writes') /\ r.id = writes[w].id
                 /\ r.stage = s /\ r.told = "nothing" /\ r.failed = f
    <3>1. GoesTo(w, s, f)
      BY <2>1, <2>2, <2>3, Zenon DEF GoesTo
    <3> QED BY <1>1, <1>2, <3>1, GoesMakes
  <2>5. /\ queues' = (IF r.stage = "settled" THEN [queues EXCEPT ![r.id] = IF @ = w THEN 0 ELSE @] ELSE queues)
        /\ uncertain' = (IF r.told = "unknown" THEN uncertain \cup {r.id} ELSE uncertain)
        /\ UNCHANGED <<contract, reader, stored>>
    BY <1>1, <2>2, <2>3, <2>4 DEF service
  <2>6. r.stage # "closing" /\ r.told # "ok" /\ r.id \notin uncertain
    BY <1>4, <2>2, <2>4
  <2> QED BY <1>1, <2>4, <2>5, <2>6, QuietStepKeeps
<1> QED BY <1>3, <1>4

LEMMA OpensKeeps ==
  ASSUME PersIInv, NEW w, Opens(w)
  PROVE  PersIInv'
<1>1. /\ At(w, "opening") /\ UNCHANGED <<contract, stored, queues, uncertain, reader>>
      /\ writes' = [writes EXCEPT ![w].stage = "opened"]
  BY DEF Opens, Goes
<1>2. PICK s, f : s = "opened" /\ f = writes[w].failed
  OBVIOUS
<1>3. /\ w \in DOMAIN writes /\ ~Settled(writes, w) /\ TurnCame(writes, w) /\ writes[w].stage = "opening"
      /\ writes[w].id \notin uncertain /\ f \in BOOLEAN
  BY <1>1, <1>2, StandsAt
<1>4. PICK r : GoesOn(writes, w, r, writes') /\ r.id = writes[w].id
               /\ r.stage = s /\ r.told = "nothing" /\ r.failed = f
  <2>1. GoesTo(w, s, f)
    BY <1>1, <1>2, <1>3, Zenon DEF GoesTo
  <2> QED BY <1>3, <2>1, GoesMakes
<1>5. /\ queues' = (IF r.stage = "settled" THEN [queues EXCEPT ![r.id] = IF @ = w THEN 0 ELSE @] ELSE queues)
      /\ uncertain' = (IF r.told = "unknown" THEN uncertain \cup {r.id} ELSE uncertain)
  BY <1>1, <1>2, <1>4
<1> QED BY <1>1, <1>2, <1>3, <1>4, <1>5, QuietStepKeeps

\* OpenRefused, CreateUnsure and Closes: it settles, and the logs stay.
LEMMA SettlesKeeps ==
  ASSUME PersIInv, NEW w, NEW s \in {"opening", "closing"}, At(w, s), NEW t \in {"ok", "failed", "unknown"},
         SettleWrite(w, t), UNCHANGED <<contract, stored>>,
         s = "closing" => t # "failed", t = "ok" => s = "closing" /\ ~writes[w].failed
  PROVE  PersIInv'
<1>1. /\ w \in DOMAIN writes /\ ~Settled(writes, w) /\ TurnCame(writes, w) /\ writes[w].stage = s
  BY StandsAt
<1>2. PICK r : /\ GoesOn(writes, w, r, writes') /\ r.id = writes[w].id
               /\ r.stage = "settled" /\ r.told = t
               /\ queues' = (IF r.stage = "settled" THEN [queues EXCEPT ![r.id] = IF @ = w THEN 0 ELSE @] ELSE queues)
               /\ uncertain' = (IF r.told = "unknown" THEN uncertain \cup {r.id} ELSE uncertain)
               /\ UNCHANGED reader
  BY <1>1, SettleMakes
<1> QED BY <1>1, <1>2, QuietStepKeeps

\* The log of the write's session has n of its events more.
LEMMA AddsTo ==
  ASSUME PersIInv, NEW w, At(w, "opened"), NEW n \in 0..writes[w].size, Adds(w, n)
  PROVE  \E after : /\ Added(stored[writes[w].id], w, writes[w].size, n, after)
                    /\ stored' \in [Stored -> Seq(Pairs)] /\ stored'[writes[w].id] = after
                    /\ \A id \in Stored : id # writes[w].id => stored'[id] = stored[id]
<1>1. w \in DOMAIN writes /\ writes[w].id \in Stored /\ writes[w].size \in Nat
  BY StandsAt
<1>2. stored \in [Stored -> Seq(Pairs)] /\ writes \in Seq(Writes)
  BY DEF PersIInv, PersTypes, Pairs
<1>3. PICK mine, size : mine = writes[w].id /\ size = writes[w].size
  OBVIOUS
<1>4. PICK after : after = stored[mine] \o SubSeq([k \in 1..size |-> <<w, k>>], 1, n)
  OBVIOUS
<1>5. Added(stored[mine], w, size, n, after)
  <2>1. stored[mine] \in Seq(Pairs) /\ w \in Nat
    BY <1>1, <1>2, <1>3
  <2> QED BY <1>1, <1>3, <1>4, <2>1 DEF Added
<1>6. after \in Seq(Pairs)
  <2>1. PICK log : log = stored[mine]
    OBVIOUS
  <2>2. Added(log, w, size, n, after)
    BY <1>5, <2>1
  <2> QED BY <2>2, EventsAdded
<1>7. stored' = [stored EXCEPT ![mine] = after]
  BY <1>3, <1>4 DEF Adds, EventsOf
<1>8. /\ stored' \in [Stored -> Seq(Pairs)] /\ stored'[mine] = after
      /\ \A id \in Stored : id # mine => stored'[id] = stored[id]
  BY <1>1, <1>2, <1>3, <1>6, <1>7
<1> QED BY <1>3, <1>5, <1>8

\* A step of a write that adds to its log.
LEMMA AddingStepKeeps ==
  ASSUME PersIInv, NEW w, At(w, "opened"), NEW n \in 0..writes[w].size, Adds(w, n),
         NEW r, GoesOn(writes, w, r, writes'), UNCHANGED <<contract, reader>>,
         queues' = (IF r.stage = "settled" THEN [queues EXCEPT ![r.id] = IF @ = w THEN 0 ELSE @] ELSE queues),
         uncertain' = (IF r.told = "unknown" THEN uncertain \cup {r.id} ELSE uncertain),
         r.stage \in {"closing", "settled"}, r.told # "failed",
         r.told = "ok" \/ (r.stage = "closing" /\ ~r.failed) => n = writes[w].size
  PROVE  PersIInv'
<1>1. PICK ws, wt, st, sa, un : ws = writes /\ wt = writes' /\ st = stored /\ sa = stored' /\ un = uncertain
  OBVIOUS
<1>2. /\ ws[w].stage = "opened" /\ w \in DOMAIN ws /\ ws[w].id \in Stored /\ ws[w].id \notin un
  BY <1>1, StandsAt
<1>3. PICK after : /\ Added(st[ws[w].id], w, ws[w].size, n, after)
                   /\ sa \in [Stored -> Seq(Pairs)] /\ sa[ws[w].id] = after
                   /\ \A id \in Stored : id # ws[w].id => sa[id] = st[id]
  BY <1>1, AddsTo
<1>4. GoesOn(ws, w, r, wt) /\ WritesFit(ws, un) /\ LogsFit(ws, st) /\ ReaderFits(reader, st)
  BY <1>1 DEF PersIInv
<1>5. Filled(r, n, ws[w].size)
  BY <1>1 DEF Filled
<1>6. Grown(st, ws[w].id, after, sa)
  BY <1>3 DEF Grown
<1>7. LogsFit(wt, sa)
  BY <1>2, <1>3, <1>4, <1>5, <1>6, LogGrows
<1>8. ReaderFits(reader, sa)
  <2> SUFFICES ASSUME reader.stage # "idle" PROVE \E id \in Stored : reader.id = {id} /\ ReadFits(reader, sa[id])
    BY DEF ReaderFits
  <2>1. PICK id \in Stored : reader.id = {id} /\ ReadFits(reader, st[id])
    BY <1>4 DEF ReaderFits
  <2>2. CASE id # ws[w].id
    BY <2>1, <2>2, <1>3
  <2>3. CASE id = ws[w].id
    <3>1. PICK x, log, size : x = reader /\ log = st[id] /\ size = ws[w].size
      OBVIOUS
    <3>2. x \in Readers
      BY <3>1 DEF PersIInv, PersTypes
    <3>3. Added(log, w, size, n, after) /\ ReadFits(x, log)
      BY <1>3, <2>1, <2>3, <3>1
    <3>4. ReadFits(x, after)
      BY <3>2, <3>3, ReadStays
    <3> QED BY <2>1, <2>3, <1>3, <3>1, <3>4
  <2> QED BY <2>2, <2>3
<1>9. r.id = writes[w].id
  BY DEF GoesOn
<1>10. r.id \notin uncertain
  BY <1>1, <1>2, <1>9
<1>11. stored' \in [Stored -> Seq(Pairs)] /\ LogsFit(writes', stored') /\ ReaderFits(reader, stored')
  BY <1>1, <1>3, <1>7, <1>8
<1> QED BY <1>10, <1>11, WriteStepKeeps

LEMMA AppendsKeeps ==
  ASSUME PersIInv, NEW w, Appends(w)
  PROVE  PersIInv'
<1>1. At(w, "opened") /\ Adds(w, writes[w].size) /\ UNCHANGED contract
  BY DEF Appends
<1>2. PICK n, f : n = writes[w].size /\ f = writes[w].failed
  OBVIOUS
<1>3. /\ w \in DOMAIN writes /\ ~Settled(writes, w) /\ TurnCame(writes, w) /\ n \in 0..writes[w].size
      /\ f \in BOOLEAN
  BY <1>1, <1>2, StandsAt
<1>4. CASE contract = "legacy"
  <2>1. PICK t : t = "ok"
    OBVIOUS
  <2>2. SettleWrite(w, t)
    BY <1>4, <2>1 DEF Appends
  <2>3. PICK r : /\ GoesOn(writes, w, r, writes') /\ r.id = writes[w].id
                 /\ r.stage = "settled" /\ r.told = t
                 /\ queues' = (IF r.stage = "settled" THEN [queues EXCEPT ![r.id] = IF @ = w THEN 0 ELSE @] ELSE queues)
                 /\ uncertain' = (IF r.told = "unknown" THEN uncertain \cup {r.id} ELSE uncertain)
                 /\ UNCHANGED reader
    BY <1>3, <2>1, <2>2, SettleMakes
  <2> QED BY <1>1, <1>2, <1>3, <2>1, <2>3, AddingStepKeeps
<1>5. CASE contract # "legacy"
  <2>1. PICK s : s = "closing"
    OBVIOUS
  <2>2. writes' = [writes EXCEPT ![w].stage = s] /\ UNCHANGED <<queues, uncertain, reader>>
    BY <1>5, <2>1 DEF Appends, Goes
  <2>3. GoesTo(w, s, f)
    BY <1>2, <1>3, <2>1, <2>2, Zenon DEF GoesTo
  <2>4. PICK r : GoesOn(writes, w, r, writes') /\ r.id = writes[w].id
                 /\ r.stage = s /\ r.told = "nothing" /\ r.failed = f
    BY <1>3, <2>3, GoesMakes
  <2>5. /\ queues' = (IF r.stage = "settled" THEN [queues EXCEPT ![r.id] = IF @ = w THEN 0 ELSE @] ELSE queues)
        /\ uncertain' = (IF r.told = "unknown" THEN uncertain \cup {r.id} ELSE uncertain)
    BY <2>1, <2>2, <2>4
  <2> QED BY <1>1, <1>2, <1>3, <2>1, <2>2, <2>4, <2>5, AddingStepKeeps
<1> QED BY <1>4, <1>5

LEMMA AppendFailsKeeps ==
  ASSUME PersIInv, NEW w, AppendFails(w)
  PROVE  PersIInv'
<1>1. At(w, "opened") /\ UNCHANGED contract
  BY DEF AppendFails
<1>2. PICK n \in 0..writes[w].size : Adds(w, n)
  BY DEF AppendFails
<1>3. /\ w \in DOMAIN writes /\ ~Settled(writes, w) /\ TurnCame(writes, w)
  BY <1>1, StandsAt
<1>4. CASE contract = "legacy"
  <2>1. PICK t : t = "unknown"
    OBVIOUS
  <2>2. SettleWrite(w, t)
    BY <1>4, <2>1 DEF AppendFails
  <2>3. PICK r : /\ GoesOn(writes, w, r, writes') /\ r.id = writes[w].id
                 /\ r.stage = "settled" /\ r.told = t
                 /\ queues' = (IF r.stage = "settled" THEN [queues EXCEPT ![r.id] = IF @ = w THEN 0 ELSE @] ELSE queues)
                 /\ uncertain' = (IF r.told = "unknown" THEN uncertain \cup {r.id} ELSE uncertain)
                 /\ UNCHANGED reader
    BY <1>3, <2>1, <2>2, SettleMakes
  <2> QED BY <1>1, <1>2, <2>1, <2>3, AddingStepKeeps
<1>5. CASE contract # "legacy"
  <2>1. PICK s, f : s = "closing" /\ f = TRUE
    OBVIOUS
  <2>2. /\ writes' = [writes EXCEPT ![w].stage = s, ![w].failed = f]
        /\ UNCHANGED <<queues, uncertain, reader>>
    BY <1>5, <2>1 DEF AppendFails
  <2>3. GoesTo(w, s, f)
    BY <2>1, <2>2, Zenon DEF GoesTo
  <2>4. PICK r : GoesOn(writes, w, r, writes') /\ r.id = writes[w].id
                 /\ r.stage = s /\ r.told = "nothing" /\ r.failed = f
    BY <1>3, <2>3, GoesMakes
  <2>5. /\ queues' = (IF r.stage = "settled" THEN [queues EXCEPT ![r.id] = IF @ = w THEN 0 ELSE @] ELSE queues)
        /\ uncertain' = (IF r.told = "unknown" THEN uncertain \cup {r.id} ELSE uncertain)
    BY <2>1, <2>2, <2>4
  <2> QED BY <1>1, <1>2, <2>1, <2>2, <2>4, <2>5, AddingStepKeeps
<1> QED BY <1>4, <1>5

LEMMA EndsKeep ==
  ASSUME PersIInv, NEW w, OpenRefused(w) \/ CreateUnsure(w) \/ Closes(w)
  PROVE  PersIInv'
<1>1. PICK opening, closing : opening = "opening" /\ closing = "closing"
  OBVIOUS
<1>2. CASE OpenRefused(w)
  <2>1. PICK t : t = "failed"
    OBVIOUS
  <2>2. At(w, opening) /\ SettleWrite(w, t) /\ UNCHANGED <<contract, stored>>
    BY <1>1, <1>2, <2>1 DEF OpenRefused, service
  <2> QED BY <1>1, <2>1, <2>2, SettlesKeeps
<1>3. CASE CreateUnsure(w)
  <2>1. PICK t : t = "unknown"
    OBVIOUS
  <2>2. At(w, opening) /\ SettleWrite(w, t) /\ UNCHANGED <<contract, stored>>
    BY <1>1, <1>3, <2>1 DEF CreateUnsure
  <2> QED BY <1>1, <2>1, <2>2, SettlesKeeps
<1>4. CASE Closes(w)
  <2>1. PICK closed \in BOOLEAN : SettleWrite(w, IF writes[w].failed \/ ~closed THEN "unknown" ELSE "ok")
    BY <1>4 DEF Closes
  <2>2. PICK t : t = IF writes[w].failed \/ ~closed THEN "unknown" ELSE "ok"
    OBVIOUS
  <2>3. t \in {"ok", "unknown"} /\ (t = "ok" => ~writes[w].failed)
    BY <2>2
  <2>4. At(w, closing) /\ SettleWrite(w, t) /\ UNCHANGED <<contract, stored>>
    BY <1>1, <1>4, <2>1, <2>2 DEF Closes, service
  <2> QED BY <1>1, <2>3, <2>4, SettlesKeeps
<1> QED BY <1>2, <1>3, <1>4

-----------------------------------------------------------------------------
(* Reads. *)

LEMMA ReadAloneKeeps ==
  ASSUME PersIInv, UNCHANGED <<service, writes, queues, uncertain>>,
         reader' \in Readers, ReaderFits(reader', stored)
  PROVE  PersIInv'
<1>1. UNCHANGED <<contract, exists, stored, writes, queues, uncertain>>
  BY DEF service
<1> QED BY <1>1 DEF PersIInv, PersTypes, WritesFit, QueuesFit, LogsFit, ReaderFits

LEMMA NoReaderFits == NoReader \in Readers /\ NoReader.stage = "idle"
<1>1. <<>> \in Seq(Nat \X Nat)
  OBVIOUS
<1> QED BY <1>1 DEF NoReader, Readers

LEMMA ReadBegins ==
  ASSUME PersIInv, NEW id \in Stored, NEW from \in 0..Len(stored[id]), Read(id, from)
  PROVE  PersIInv'
<1>1. stored[id] \in Seq(Pairs)
  BY DEF PersIInv, PersTypes, Pairs
<1>2. PICK log, n : log = stored[id] /\ n = Len(stored[id])
  OBVIOUS
<1>3. n \in Nat /\ from \in Nat /\ from <= n /\ n = Len(log)
  BY <1>1, <1>2
<1>4. PICK x : x = [stage |-> "reading", id |-> {id}, from |-> from, offset |-> from, events |-> <<>>, atLeast |-> n]
  OBVIOUS
<1>5. reader' = x /\ UNCHANGED <<service, writes, queues, uncertain>>
  <2>1. PICK no : no = NoReader
    OBVIOUS
  <2>2. /\ reader' = [no EXCEPT !.stage = "reading", !.id = {id}, !.from = from, !.offset = from, !.atLeast = n]
        /\ UNCHANGED <<service, writes, queues, uncertain>>
    BY <1>2, <2>1, Zenon DEF Read
  <2>3. no = [stage |-> "idle", id |-> {}, from |-> 0, offset |-> 0, events |-> <<>>, atLeast |-> 0]
    BY <2>1, Zenon DEF NoReader
  <2>4. [no EXCEPT !.stage = "reading", !.id = {id}, !.from = from, !.offset = from, !.atLeast = n] = x
    <3>1. PICK nobody, one, nothing : nobody = {} /\ one = {id} /\ nothing = <<>>
      OBVIOUS
    <3>2. no = [stage |-> "idle", id |-> nobody, from |-> 0, offset |-> 0, events |-> nothing, atLeast |-> 0]
      BY <2>3, <3>1
    <3>3. x = [stage |-> "reading", id |-> one, from |-> from, offset |-> from, events |-> nothing, atLeast |-> n]
      BY <1>4, <3>1
    <3>4. [no EXCEPT !.stage = "reading", !.id = one, !.from = from, !.offset = from, !.atLeast = n] = x
      <4>1. PICK a : a = [no EXCEPT !.stage = "reading"]
        OBVIOUS
      <4>2. a = [stage |-> "reading", id |-> nobody, from |-> 0, offset |-> 0, events |-> nothing, atLeast |-> 0]
        BY <3>2, <4>1
      <4>3. PICK b : b = [a EXCEPT !.id = one]
        OBVIOUS
      <4>4. b = [stage |-> "reading", id |-> one, from |-> 0, offset |-> 0, events |-> nothing, atLeast |-> 0]
        BY <4>2, <4>3
      <4>5. PICK c : c = [b EXCEPT !.from = from]
        OBVIOUS
      <4>6. c = [stage |-> "reading", id |-> one, from |-> from, offset |-> 0, events |-> nothing, atLeast |-> 0]
        BY <4>4, <4>5
      <4>7. PICK d : d = [c EXCEPT !.offset = from]
        OBVIOUS
      <4>8. d = [stage |-> "reading", id |-> one, from |-> from, offset |-> from, events |-> nothing, atLeast |-> 0]
        BY <4>6, <4>7
      <4>9. [d EXCEPT !.atLeast = n] = x
        BY <3>3, <4>8
      <4> QED BY <4>1, <4>3, <4>5, <4>7, <4>9, Zenon
    <3> QED BY <3>1, <3>4
  <2> QED BY <2>2, <2>4
<1>6. <<>> \in Seq(Nat \X Nat) /\ Len(<<>>) = 0
  OBVIOUS
<1>7. x \in Readers
  BY <1>3, <1>4, <1>6 DEF Readers
<1>8. ReadFits(x, log)
  <2>1. x.from = from /\ x.offset = from /\ x.atLeast = n /\ x.events = <<>> /\ x.stage = "reading"
    BY <1>4
  <2> QED BY <1>3, <1>6, <2>1 DEF ReadFits
<1>9. x.id = {id}
  BY <1>4
<1>10. ReaderFits(x, stored)
  BY <1>2, <1>8, <1>9 DEF ReaderFits
<1> QED BY <1>5, <1>7, <1>10, ReadAloneKeeps

\* A chunk goes on where the read is, and is empty only at the end.
LEMMA ChunkFits ==
  ASSUME NEW log \in Seq(Pairs), NEW x \in Readers, ReadFits(x, log), NEW limit \in Nat,
         limit = Len(log) \/ x.offset < limit,
         NEW chunk, chunk = SubSeq(log, x.offset + 1, IF limit < Len(log) THEN limit ELSE Len(log)),
         NEW y \in Readers, y.id = x.id, y.from = x.from, y.atLeast = x.atLeast, y.events = x.events \o chunk,
         y.offset = x.offset + Len(chunk),
         y.stage \in {"closing", "done"} => chunk = <<>> \/ limit = Len(log)
  PROVE  ReadFits(y, log)
<1>1. /\ x.from \in Nat /\ x.offset \in Nat /\ x.atLeast \in Nat /\ x.events \in Seq(Pairs)
  BY DEF Readers, Pairs
<1>2. /\ x.from <= x.offset /\ x.offset <= Len(log) /\ x.atLeast <= Len(log)
      /\ Len(x.events) = x.offset - x.from
      /\ \A i \in 1..Len(x.events) : x.events[i] = log[x.from + i]
  BY DEF ReadFits
<1>3. PICK o, to : o = x.offset /\ to = IF limit < Len(log) THEN limit ELSE Len(log)
  OBVIOUS
<1>4. Len(log) \in Nat /\ to \in Nat /\ to <= Len(log) /\ o \in Nat /\ o <= to
  <2>1. PICK n : n = Len(log)
    OBVIOUS
  <2>2. n \in Nat
    BY <2>1, LenProperties
  <2>3. to \in Nat /\ to <= n /\ (to = n \/ to = limit)
    BY <1>3, <2>1, <2>2
  <2>4. o \in Nat /\ o <= n /\ (limit = n \/ o < limit)
    BY <1>1, <1>2, <1>3, <2>1
  <2>5. o <= to
    BY ONLY <2>2, <2>3, <2>4, limit \in Nat
  <2> QED BY <2>1, <2>2, <2>3, <2>4, <2>5
<1>5. /\ chunk \in Seq(Pairs) /\ Len(chunk) = to - o /\ Len(chunk) \in Nat
      /\ \A i \in 1..(to - o) : chunk[i] = log[o + i]
  <2>1. chunk = SubSeq(log, o + 1, to)
    BY <1>3
  <2>2. PICK m : m = o + 1
    OBVIOUS
  <2>3. m \in Int /\ to \in Int /\ \A i \in m..to : log[i] \in Pairs
    BY <1>4, <2>2
  <2>4. /\ SubSeq(log, m, to) \in Seq(Pairs)
        /\ Len(SubSeq(log, m, to)) = IF m <= to THEN to - m + 1 ELSE 0
        /\ \A i \in 1..(to - m + 1) : SubSeq(log, m, to)[i] = log[m + i - 1]
    BY <2>3, SubSeqProperties
  <2>5. chunk = SubSeq(log, m, to)
    BY <2>1, <2>2
  <2>6. to - m + 1 = to - o /\ (IF m <= to THEN to - m + 1 ELSE 0) = to - o /\ to - o \in Nat
    BY <1>4, <2>2
  <2>7. \A i \in 1..(to - o) : chunk[i] = log[o + i]
    <3> SUFFICES ASSUME NEW i \in 1..(to - o) PROVE chunk[i] = log[o + i]
      OBVIOUS
    <3>1. m + i - 1 = o + i
      BY <1>4, <2>2
    <3>2. chunk[i] = log[m + i - 1]
      BY <2>4, <2>5, <2>6
    <3> QED BY <3>1, <3>2
  <2> QED BY <2>4, <2>5, <2>6, <2>7
<1>6. /\ Len(y.events) = Len(x.events) + Len(chunk) /\ Len(x.events) \in Nat
      /\ \A i \in 1..(Len(x.events) + Len(chunk)) :
           y.events[i] = IF i <= Len(x.events) THEN x.events[i] ELSE chunk[i - Len(x.events)]
  <2>1. PICK before : before = x.events
    OBVIOUS
  <2>2. before \in Seq(Pairs)
    BY <1>1, <2>1
  <2>3. /\ Len(before \o chunk) = Len(before) + Len(chunk) /\ Len(before) \in Nat
        /\ \A i \in 1..(Len(before) + Len(chunk)) :
             (before \o chunk)[i] = IF i <= Len(before) THEN before[i] ELSE chunk[i - Len(before)]
    <3>1. chunk \in Seq(Pairs)
      BY <1>5
    <3>2. /\ Len(before \o chunk) = Len(before) + Len(chunk)
          /\ \A i \in 1..(Len(before) + Len(chunk)) :
               (before \o chunk)[i] = IF i <= Len(before) THEN before[i] ELSE chunk[i - Len(before)]
      BY <2>2, <3>1, ConcatProperties
    <3>3. Len(before) \in Nat
      BY <2>2, LenProperties
    <3> QED BY <3>2, <3>3
  <2>4. y.events = before \o chunk
    BY <2>1
  <2> QED BY <2>1, <2>3, <2>4
<1>7. y.offset = to /\ y.from = x.from /\ Len(y.events) = to - x.from
  <2>1. Len(chunk) = to - o /\ Len(x.events) = o - x.from
    BY <1>2, <1>3, <1>5
  <2>2. Len(y.events) = (o - x.from) + (to - o)
    BY <1>6, <2>1
  <2>3. y.offset = o + (to - o)
    BY <1>3, <2>1
  <2>4. PICK from : from = x.from
    OBVIOUS
  <2>5. from \in Int /\ o \in Int /\ to \in Int
    BY <1>1, <1>4, <2>4
  <2>6. (o - from) + (to - o) = to - from /\ o + (to - o) = to
    BY ONLY <2>5
  <2> QED BY <2>2, <2>3, <2>4, <2>6
<1>8. ASSUME NEW i \in 1..Len(y.events) PROVE y.events[i] = log[y.from + i]
  <2>1. i \in 1..(Len(x.events) + Len(chunk))
    BY <1>6, <1>8
  <2>2. CASE i <= Len(x.events)
    <3>1. i \in 1..Len(x.events)
      BY <2>1, <2>2, <1>1
    <3> QED BY <2>1, <2>2, <3>1, <1>2, <1>6
  <2>3. CASE ~(i <= Len(x.events))
    <3>1. PICK k : k = i - Len(x.events)
      OBVIOUS
    <3>2. k \in 1..(to - o) /\ o + k = y.from + i
      <4>1. PICK had : had = Len(x.events)
        OBVIOUS
      <4>2. had \in Nat /\ had = o - x.from /\ Len(chunk) = to - o /\ k = i - had
        BY <4>1, <1>2, <1>3, <1>5, <1>6, <3>1
      <4>3. i \in 1..(had + (to - o)) /\ ~(i <= had)
        BY <4>1, <4>2, <2>1, <2>3
      <4>4. PICK from : from = x.from
        OBVIOUS
      <4>5. from \in Int /\ o \in Int /\ to \in Int /\ had = o - from /\ y.from = from
        BY <1>1, <1>4, <4>2, <4>4
      <4>6. i - had \in 1..(to - o) /\ o + (i - had) = from + i
        <5>1. i \in Int /\ 1 <= i /\ i <= had + (to - o) /\ had < i /\ had \in Int
          BY <4>2, <4>3, <4>5
        <5>2. from \in Int /\ o \in Int /\ to \in Int /\ had = o - from
          BY <4>5
        <5> QED BY ONLY <5>1, <5>2
      <4> QED BY <4>2, <4>5, <4>6
    <3> QED BY <2>1, <2>3, <3>1, <3>2, <1>5, <1>6
  <2> QED BY <2>2, <2>3
<1>9. y.stage \in {"closing", "done"} => to = Len(log)
  <2>1. chunk = <<>> => to = o
    <3>1. Len(<<>>) = 0
      OBVIOUS
    <3> QED BY <3>1, <1>4, <1>5
  <2>2. limit = Len(log) => to = Len(log)
    BY <1>3
  <2>3. to = o => to = Len(log)
    BY <1>3, <1>4
  <2> QED BY <2>1, <2>2, <2>3
<1>10. y.from <= y.offset /\ y.offset <= Len(log) /\ y.atLeast <= Len(log) /\ Len(y.events) = y.offset - y.from
  <2>1. x.from <= to
    BY <1>1, <1>2, <1>3, <1>4
  <2> QED BY <2>1, <1>2, <1>4, <1>7
<1>11. y.stage \in {"closing", "done"} => y.atLeast <= y.offset
  BY <1>2, <1>7, <1>9
<1> QED BY <1>8, <1>10, <1>11 DEF ReadFits

LEMMA ChunkKeeps ==
  ASSUME PersIInv, ReadsChunk
  PROVE  PersIInv'
<1>1. reader.stage = "reading" /\ UNCHANGED <<service, writes, queues, uncertain>>
  BY DEF ReadsChunk
<1>2. PICK x : x = reader
  OBVIOUS
<1>3. x \in Readers /\ ReaderFits(x, stored) /\ stored \in [Stored -> Seq(Pairs)]
  BY <1>2 DEF PersIInv, PersTypes, Pairs
<1>4. PICK id \in Stored : x.id = {id} /\ ReadFits(x, stored[id])
  <2>1. x.stage # "idle"
    BY <1>1, <1>2
  <2> QED BY <1>3, <2>1 DEF ReaderFits
<1>5. PICK log : log = stored[id]
  OBVIOUS
<1>6. log \in Seq(Pairs) /\ ReadFits(x, log) /\ Len(log) \in Nat
  BY <1>3, <1>4, <1>5
<1>7. ReadLog = log
  <2>1. id \in reader.id /\ \A i \in reader.id : i = id
    BY <1>2, <1>4
  <2> QED BY <2>1, <1>5 DEF ReadLog
<1>8. PICK limit : limit = IF contract = "legacy" THEN Len(log) ELSE x.offset + ReadChunkSize
  OBVIOUS
<1>9. limit \in Nat /\ (limit = Len(log) \/ x.offset < limit) /\ (contract = "legacy" => limit = Len(log))
  <2>1. x.offset \in Nat
    BY <1>3 DEF Readers
  <2>2. ReadChunkSize \in Nat /\ ReadChunkSize # 0
    BY PersistenceAssumption
  <2> QED BY <1>6, <1>8, <2>1, <2>2
<1>10. PICK chunk : chunk = SubSeq(log, x.offset + 1, IF limit < Len(log) THEN limit ELSE Len(log))
  OBVIOUS
<1>11. NextChunk = chunk
  BY <1>2, <1>7, <1>8, <1>10, Zenon DEF NextChunk
<1>12. chunk \in Seq(Pairs)
  <2>1. PICK o, to : o = x.offset + 1 /\ to = IF limit < Len(log) THEN limit ELSE Len(log)
    OBVIOUS
  <2>2. o \in Int /\ to \in Int /\ 1 <= o /\ to <= Len(log)
    <3>1. x.offset \in Nat
      BY <1>3 DEF Readers
    <3> QED BY <1>6, <1>9, <2>1, <3>1
  <2>3. \A i \in o..to : log[i] \in Pairs
    BY <1>6, <2>2
  <2>4. SubSeq(log, o, to) \in Seq(Pairs)
    BY <2>2, <2>3, SubSeqProperties
  <2> QED BY <1>10, <2>1, <2>4
<1>13. PICK s, es, o : /\ s = (IF chunk = <<>> \/ contract = "legacy" THEN "closing" ELSE "reading")
                       /\ es = x.events \o chunk /\ o = x.offset + Len(chunk)
  OBVIOUS
<1>14. reader' = [x EXCEPT !.events = es, !.offset = o, !.stage = s]
  <2>1. reader' = [x EXCEPT !.events = @ \o chunk, !.offset = Offset(chunk),
                            !.stage = IF chunk = <<>> \/ contract = "legacy" THEN "closing" ELSE @]
    BY <1>2, <1>11, Zenon DEF ReadsChunk
  <2>2. Offset(chunk) = o /\ x.stage = "reading"
    BY <1>1, <1>2, <1>13 DEF Offset
  <2>3. x = [stage |-> x.stage, id |-> x.id, from |-> x.from, offset |-> x.offset, events |-> x.events,
             atLeast |-> x.atLeast]
    BY <1>3 DEF Readers
  <2> QED BY <1>13, <2>1, <2>2, <2>3
<1>15. PICK y : y = [stage |-> s, id |-> x.id, from |-> x.from, offset |-> o, events |-> es, atLeast |-> x.atLeast]
  OBVIOUS
<1>16. reader' = y
  <2>1. x = [stage |-> x.stage, id |-> x.id, from |-> x.from, offset |-> x.offset, events |-> x.events,
             atLeast |-> x.atLeast]
    BY <1>3 DEF Readers
  <2>2. PICK a : a = [x EXCEPT !.events = es]
    OBVIOUS
  <2>3. a = [stage |-> x.stage, id |-> x.id, from |-> x.from, offset |-> x.offset, events |-> es,
             atLeast |-> x.atLeast]
    BY <2>1, <2>2
  <2>4. PICK b : b = [a EXCEPT !.offset = o]
    OBVIOUS
  <2>5. b = [stage |-> x.stage, id |-> x.id, from |-> x.from, offset |-> o, events |-> es, atLeast |-> x.atLeast]
    BY <2>3, <2>4
  <2>6. [b EXCEPT !.stage = s] = y
    BY <1>15, <2>5
  <2> QED BY <1>14, <2>2, <2>4, <2>6, Zenon
<1>17. /\ y.id = x.id /\ y.from = x.from /\ y.atLeast = x.atLeast /\ y.events = es /\ y.offset = o /\ y.stage = s
  BY <1>15
<1>18. y \in Readers
  <2>1. x.id \in SUBSET Stored /\ x.from \in Nat /\ x.offset \in Nat /\ x.events \in Seq(Nat \X Nat) /\ x.atLeast \in Nat
    BY <1>3 DEF Readers
  <2>2. s \in {"idle", "reading", "closing", "done"}
    BY <1>13
  <2>3. Len(chunk) \in Nat
    BY <1>12, LenProperties
  <2>4. o \in Nat
    BY <1>13, <2>1, <2>3
  <2>5. es \in Seq(Nat \X Nat)
    BY <1>12, <1>13, <2>1, ConcatProperties DEF Pairs
  <2> QED BY <1>15, <2>1, <2>2, <2>4, <2>5 DEF Readers
<1>19. ReadFits(y, log)
  <2>1. y.stage \in {"closing", "done"} => chunk = <<>> \/ limit = Len(log)
    BY <1>9, <1>13, <1>17
  <2>2. y.events = x.events \o chunk /\ y.offset = x.offset + Len(chunk)
    BY <1>13, <1>17
  <2> QED BY <1>3, <1>6, <1>9, <1>10, <1>17, <1>18, <2>1, <2>2, ChunkFits
<1>20. ReaderFits(y, stored)
  BY <1>4, <1>5, <1>17, <1>19 DEF ReaderFits
<1> QED BY <1>1, <1>16, <1>18, <1>20, ReadAloneKeeps

LEMMA ReadEnds ==
  ASSUME PersIInv, ReadCloses \/ ReadFails
  PROVE  PersIInv'
<1>1. CASE ReadFails
  <2>1. reader' = NoReader /\ UNCHANGED <<service, writes, queues, uncertain>>
    BY <1>1 DEF ReadFails
  <2>2. NoReader \in Readers /\ ReaderFits(NoReader, stored)
    BY NoReaderFits DEF ReaderFits
  <2> QED BY <2>1, <2>2, ReadAloneKeeps
<1>2. CASE ReadCloses
  <2>1. PICK x : x = reader
    OBVIOUS
  <2>2. /\ x.stage = "closing" /\ reader' = [x EXCEPT !.stage = "done"]
        /\ UNCHANGED <<service, writes, queues, uncertain>>
    BY <1>2, <2>1 DEF ReadCloses
  <2>3. x \in Readers /\ ReaderFits(x, stored)
    BY <2>1 DEF PersIInv, PersTypes
  <2>4. PICK y : y = [stage |-> "done", id |-> x.id, from |-> x.from, offset |-> x.offset, events |-> x.events,
                      atLeast |-> x.atLeast]
    OBVIOUS
  <2>5. reader' = y /\ y \in Readers
    <3>1. x = [stage |-> x.stage, id |-> x.id, from |-> x.from, offset |-> x.offset, events |-> x.events,
               atLeast |-> x.atLeast]
      BY <2>3 DEF Readers
    <3>2. [x EXCEPT !.stage = "done"] = y
      BY <2>4, <3>1
    <3>3. /\ x.id \in SUBSET Stored /\ x.from \in Nat /\ x.offset \in Nat /\ x.events \in Seq(Nat \X Nat)
          /\ x.atLeast \in Nat
      BY <2>3 DEF Readers
    <3>4. y \in Readers
      BY <2>4, <3>3 DEF Readers
    <3> QED BY <2>2, <3>2, <3>4
  <2>6. /\ y.id = x.id /\ y.from = x.from /\ y.atLeast = x.atLeast /\ y.events = x.events
        /\ y.offset = x.offset /\ y.stage = "done"
    BY <2>4
  <2>7. PICK id \in Stored : x.id = {id} /\ ReadFits(x, stored[id])
    BY <2>2, <2>3 DEF ReaderFits
  <2>8. ReadFits(y, stored[id])
    BY <2>2, <2>6, <2>7 DEF ReadFits
  <2>9. ReaderFits(y, stored)
    BY <2>6, <2>7, <2>8 DEF ReaderFits
  <2> QED BY <2>2, <2>5, <2>9, ReadAloneKeeps
<1> QED BY <1>1, <1>2

LEMMA PersStep ==
  ASSUME PersIInv, [PersNext]_persVars
  PROVE  PersIInv'
<1>1. ASSUME NEW id \in Stored, NEW kind \in {"create", "append"}, NEW size \in {0, 2}, enqueueWrite(id, kind, size)
      PROVE  PersIInv'
  BY <1>1, CallKeeps
<1>2. ASSUME NEW w \in 1..MaxWrites,
             \/ BeginWrite(w) \/ Opens(w) \/ OpenRefused(w) \/ CreateUnsure(w)
             \/ Appends(w) \/ AppendFails(w) \/ Closes(w)
      PROVE  PersIInv'
  BY <1>2, WriteBegins, OpensKeeps, EndsKeep, AppendsKeeps, AppendFailsKeeps
<1>3. ASSUME NEW id \in Stored, NEW from \in 0..Len(stored[id]), Read(id, from) PROVE PersIInv'
  BY <1>3, ReadBegins
<1>4. CASE ReadsChunk \/ ReadCloses \/ ReadFails
  BY <1>4, ChunkKeeps, ReadEnds
<1>5. CASE UNCHANGED persVars
  BY <1>5 DEF persVars, PersIInv, PersTypes, WritesFit, QueuesFit, LogsFit, ReaderFits
<1> QED BY <1>1, <1>2, <1>3, <1>4, <1>5 DEF PersNext

\* Queues, writes, logs and the read fit each other.
THEOREM PersInvariantHolds == PersSpec => []PersIInv
<1>1. PersInit => PersIInv
  BY PersInitially
<1>2. PersIInv /\ [PersNext]_persVars => PersIInv'
  BY PersStep
<1> QED BY <1>1, <1>2, PTL DEF PersSpec

\* The persistence gate tells the caller of a write the truth, lets the writes of a session
\* follow each other and none follow one that is unsure, and a read has all of the log.
THEOREM PersistenceIsSound == PersSpec => []PersistenceSound
<1>1. PersIInv => PersistenceSound
  <2> SUFFICES ASSUME PersIInv PROVE PersistenceSound
    OBVIOUS
  <2>1. LogsFit(writes, stored) /\ writes \in Seq(Writes) /\ stored \in [Stored -> Seq(Pairs)]
    BY DEF PersIInv, PersTypes, Pairs
  <2>2. ToldTrue
    <3> SUFFICES ASSUME NEW w \in DOMAIN writes
                 PROVE  /\ writes[w].told = "ok" => EventsIn(w) = ToSet(EventsOf(w))
                        /\ writes[w].told = "failed" => EventsIn(w) = {}
      BY DEF ToldTrue
    <3>1. writes[w] \in Writes
      BY <2>1
    <3>2. writes[w].id \in Stored
      BY <3>1 DEF Writes
    <3>3. PICK log, size : log = stored[writes[w].id] /\ size = writes[w].size
      OBVIOUS
    <3>4. log \in Seq(Pairs) /\ \A i \in DOMAIN log : EventFits(writes, writes[w].id, log[i])
      BY <2>1, <3>2, <3>3 DEF LogsFit
    <3>5. EventsIn(w) = {e \in ToSet(log) : e[1] = w}
      BY <3>3 DEF EventsIn
    <3>6. ASSUME NEW e \in EventsIn(w) PROVE writes[w].told # "failed" /\ \E k \in 1..size : e = <<w, k>>
      <4>1. PICK i \in DOMAIN log : log[i] = e /\ e[1] = w
        BY <3>5, <3>6 DEF ToSet
      <4>2. EventFits(writes, writes[w].id, e)
        BY <3>4, <4>1
      <4>3. writes[w].told # "failed" /\ e[2] \in 1..size
        BY <3>3, <4>1, <4>2 DEF EventFits
      <4>4. e \in Pairs
        BY <3>4, <4>1
      <4>5. e = <<e[1], e[2]>>
        BY <4>4 DEF Pairs
      <4>6. e = <<w, e[2]>>
        BY <4>1, <4>5
      <4> QED BY <4>3, <4>6
    <3>7. ASSUME writes[w].told = "ok", NEW k \in 1..size PROVE <<w, k>> \in EventsIn(w)
      <4>1. AllThere(writes, log, w)
        BY <2>1, <3>3 DEF LogsFit
      <4>2. PICK i \in DOMAIN log : log[i] = <<w, k>>
        BY <3>3, <3>7, <4>1 DEF AllThere
      <4>3. <<w, k>> \in ToSet(log)
        BY <4>2, Zenon DEF ToSet
      <4>4. <<w, k>>[1] = w
        OBVIOUS
      <4> QED BY <3>5, <4>3, <4>4
    <3>8. ToSet(EventsOf(w)) = {<<w, k>> : k \in 1..size}
      BY <3>3 DEF ToSet, EventsOf
    <3> QED BY <3>6, <3>7, <3>8
  <2>3. OneAfterAnother
    <3>1. \A id \in Stored : InOrder(writes, stored[id])
      BY <2>1 DEF LogsFit
    <3> QED BY <3>1 DEF OneAfterAnother, InOrder
  <2>4. ReadsRun
    <3> SUFFICES ASSUME reader.stage = "done"
                 PROVE  /\ reader.events = SubSeq(ReadLog, reader.from + 1, reader.from + Len(reader.events))
                        /\ reader.from + Len(reader.events) >= reader.atLeast
      BY DEF ReadsRun
    <3>1. PICK x : x = reader
      OBVIOUS
    <3>2. x \in Readers /\ x.stage = "done" /\ ReaderFits(x, stored)
      BY <3>1 DEF PersIInv, PersTypes
    <3>3. PICK id \in Stored : x.id = {id} /\ ReadFits(x, stored[id])
      BY <3>2 DEF ReaderFits
    <3>4. PICK log, es, from, n : log = stored[id] /\ es = x.events /\ from = x.from /\ n = Len(x.events)
      OBVIOUS
    <3>5. ReadLog = log
      <4>1. id \in reader.id /\ \A i \in reader.id : i = id
        BY <3>1, <3>3
      <4> QED BY <4>1, <3>4 DEF ReadLog
    <3>6. /\ log \in Seq(Pairs) /\ Len(log) \in Nat /\ es \in Seq(Pairs) /\ from \in Nat /\ n \in Nat /\ n = Len(es)
          /\ x.offset \in Nat /\ x.atLeast \in Nat
      BY <2>1, <3>2, <3>4 DEF Readers, Pairs
    <3>7. /\ x.offset <= Len(log) /\ n = x.offset - from /\ x.atLeast <= x.offset
          /\ \A i \in 1..n : es[i] = log[from + i]
      BY <3>2, <3>3, <3>4 DEF ReadFits
    <3>8. es = SubSeq(log, from + 1, from + n)
      <4>1. PICK a, b : a = from + 1 /\ b = from + n
        OBVIOUS
      <4>2. a \in Int /\ b \in Int /\ \A i \in a..b : log[i] \in Pairs
        BY <3>6, <3>7, <4>1
      <4>3. PICK part : part = SubSeq(log, a, b)
        OBVIOUS
      <4>4. /\ part \in Seq(Pairs)
            /\ Len(part) = IF a <= b THEN b - a + 1 ELSE 0
            /\ \A i \in 1..(b - a + 1) : part[i] = log[a + i - 1]
        BY <4>2, <4>3, SubSeqProperties
      <4>5. b - a + 1 = n /\ (IF a <= b THEN b - a + 1 ELSE 0) = n
        BY <3>6, <4>1
      <4>6. \A i \in 1..n : a + i - 1 = from + i
        BY <3>6, <4>1
      <4>7. Len(part) = n /\ \A i \in 1..n : part[i] = es[i]
        BY <3>7, <4>4, <4>5, <4>6
      <4>8. es = part
        BY <3>6, <4>4, <4>7, SeqEqual
      <4> QED BY <4>1, <4>3, <4>8
    <3>9. from + n >= x.atLeast
      BY <3>6, <3>7
    <3> QED BY <3>1, <3>4, <3>5, <3>8, <3>9
  <2> QED BY <2>2, <2>3, <2>4 DEF PersistenceSound
<1> QED BY <1>1, PersInvariantHolds, PTL
=============================================================================
