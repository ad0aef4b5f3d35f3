---------------------------- MODULE BootstrapGate ----------------------------
(***************************************************************************)
(* The gate in front of every read of a session's history                  *)
(* (acquireBootstrap of mobile-stream-compat-rc1): a host runs a bounded   *)
(* number of reads at a time, one per session, and the others wait in a    *)
(* queue, from which they leave when they are granted, aborted or the      *)
(* service stops.  A session's state is an object that the map of sessions *)
(* and the readers share; it is named here after the request that made it. *)
(***************************************************************************)
EXTENDS Integers, Sequences, FiniteSets

CONSTANTS Requests, GateSessions,
          NoSession,                 \* a read without a session
          NoState,                   \* no state object
          BackgroundBootstrapLimit

ASSUME GateAssumption ==
  /\ NoSession \notin GateSessions /\ NoState \notin Requests
  /\ BackgroundBootstrapLimit \in Nat \ {0}

VARIABLES phase,            \* of a request
          sessionOf,        \* what it reads
          aborted,          \* its signal
          held,             \* the state object its release will clear
          bootstrapQueue,
          activeBootstrap,
          bootstrapSessions,\* the state object of a session, NoState if none
          active            \* the flag of a state object

gateVars == <<phase, sessionOf, aborted, held, bootstrapQueue, activeBootstrap,
          bootstrapSessions, active>>

GateTypeOK ==
  /\ phase \in [Requests -> {"idle", "waiting", "reading", "rejected", "done"}]
  /\ sessionOf \in [Requests -> GateSessions \cup {NoSession}]
  /\ aborted \in [Requests -> BOOLEAN]
  /\ held \in [Requests -> Requests \cup {NoState}]
  /\ bootstrapQueue \in Seq(Requests)
  /\ activeBootstrap \in Nat
  /\ bootstrapSessions \in [GateSessions -> Requests \cup {NoState}]
  /\ active \in [Requests -> BOOLEAN]

GateInit ==
  /\ phase = [r \in Requests |-> "idle"]
  /\ sessionOf = [r \in Requests |-> NoSession]
  /\ aborted = [r \in Requests |-> FALSE]
  /\ held = [r \in Requests |-> NoState]
  /\ bootstrapQueue = <<>>
  /\ activeBootstrap = 0
  /\ bootstrapSessions = [s \in GateSessions |-> NoState]
  /\ active = [r \in Requests |-> FALSE]

-----------------------------------------------------------------------------
(* The gate as a value: what a release, which grants several requests in    *)
(* one go, works on.                                                        *)

Gate == [phase |-> phase, held |-> held, queue |-> bootstrapQueue,
         count |-> activeBootstrap, sessions |-> bootstrapSessions, active |-> active]

Becomes(gate) ==
  /\ phase' = gate.phase /\ held' = gate.held /\ bootstrapQueue' = gate.queue
  /\ activeBootstrap' = gate.count /\ bootstrapSessions' = gate.sessions
  /\ active' = gate.active

StateOf(gate, s) == IF s = NoSession THEN NoState ELSE gate.sessions[s]

Busy(gate, s) == StateOf(gate, s) # NoState /\ gate.active[StateOf(gate, s)]

\* A session without an object gets the one request r makes.
WithState(gate, r, s) ==
  IF s = NoSession \/ gate.sessions[s] # NoState THEN gate
  ELSE [gate EXCEPT !.sessions[s] = r, !.active[r] = FALSE]

Granted(gate, r, s) ==
  LET o == StateOf(gate, s)
      marked == IF o = NoState THEN gate.active ELSE [gate.active EXCEPT ![o] = TRUE]
  IN  [gate EXCEPT !.phase[r] = "reading", !.held[r] = o, !.count = @ + 1,
                   !.active = marked]

\* The queue after splice(i, 1).
Without(queue, i) == SubSeq(queue, 1, i - 1) \o SubSeq(queue, i + 1, Len(queue))

-----------------------------------------------------------------------------
\* The places of the queue whose session is free.
Eligible(gate) == {i \in 1..Len(gate.queue) : ~Busy(gate, sessionOf[gate.queue[i]])}

\* Variant, not the code: the youngest waiter.
Last(places) == CHOOSE i \in places : \A j \in places : i >= j

First(places) == CHOOSE i \in places : \A j \in places : i <= j

\* One round of drainBootstrapQueue: the first waiter whose session is free
\* leaves, to read or, if its signal is aborted, to be rejected.
DrainOnce(gate) ==
  IF gate.count >= BackgroundBootstrapLimit \/ Eligible(gate) = {} THEN gate
  ELSE LET i == First(Eligible(gate))
           r == gate.queue[i]
           left == [gate EXCEPT !.queue = Without(@, i)]
       IN  IF aborted[r] THEN [left EXCEPT !.phase[r] = "rejected"]
           ELSE Granted(WithState(left, r, sessionOf[r]), r, sessionOf[r])

\* Variant, not the code: nobody is served.
NotDrained(gate) == gate

\* The loop ends after as many rounds as there are waiters.
Drained(gate) ==
  LET Only(set) == CHOOSE x \in set : TRUE
      after[n \in 0..Len(gate.queue)] ==
        IF n = 0 THEN gate ELSE Only({DrainOnce(g) : g \in {after[n - 1]}})
  IN  after[Len(gate.queue)]

\* Variant, not the code: the entry goes although the session is busy again or
\* awaited.
ForgottenBusy(gate, r) ==
  IF held[r] # NoState THEN [gate EXCEPT !.sessions[sessionOf[r]] = NoState] ELSE gate

\* What a release forgets: the state of a session nobody reads or waits for.
Forgotten(gate, r) ==
  LET s == sessionOf[r] IN
  IF /\ held[r] # NoState /\ ~gate.active[held[r]]
     /\ \A i \in 1..Len(gate.queue) : sessionOf[gate.queue[i]] # s
  THEN [gate EXCEPT !.sessions[s] = NoState]
  ELSE gate

-----------------------------------------------------------------------------
AtOnce(gate, s) == gate.count < BackgroundBootstrapLimit /\ ~Busy(gate, s)

\* acquireBootstrap
Acquire(r, s) ==
  /\ phase[r] = "idle"
  /\ sessionOf' = [sessionOf EXCEPT ![r] = s]
  /\ IF aborted[r] THEN Becomes([Gate EXCEPT !.phase[r] = "rejected"])
     ELSE LET gate == WithState(Gate, r, s) IN
          IF AtOnce(gate, s) THEN \E granted \in {Granted(gate, r, s)} : Becomes(granted)
          ELSE Becomes([gate EXCEPT !.phase[r] = "waiting", !.queue = Append(@, r)])
  /\ UNCHANGED aborted

\* The caller gives up: its signal is aborted, and the listeners run next.
Abort(r) ==
  /\ ~aborted[r] /\ phase[r] \in {"idle", "waiting", "reading"}
  /\ aborted' = [aborted EXCEPT ![r] = TRUE]
  /\ UNCHANGED <<phase, sessionOf, held, bootstrapQueue, activeBootstrap,
                 bootstrapSessions, active>>

Places(r) == {i \in 1..Len(bootstrapQueue) : bootstrapQueue[i] = r}

LeftQueue(r) ==
  [Gate EXCEPT !.phase[r] = "rejected",
               !.queue = IF Places(r) = {} THEN @ ELSE Without(@, First(Places(r)))]

OnAbort(r) ==
  /\ aborted[r] /\ phase[r] = "waiting"
  /\ Becomes(LeftQueue(r))
  /\ UNCHANGED <<sessionOf, aborted>>

\* The release of a granted request; calling it again does nothing.
Release(r) ==
  /\ phase[r] = "reading"
  /\ LET freed == IF held[r] = NoState THEN active ELSE [active EXCEPT ![held[r]] = FALSE]
         gate == [Gate EXCEPT !.phase[r] = "done", !.active = freed,
                              !.count = IF @ > 0 THEN @ - 1 ELSE 0]
     IN  \E drained \in {Drained(gate)} : \E kept \in {Forgotten(drained, r)} : Becomes(kept)
  /\ UNCHANGED <<sessionOf, aborted>>

\* The service stops: whoever waits is rejected.
Dispose ==
  /\ bootstrapQueue # <<>>
  /\ Becomes([Gate EXCEPT !.queue = <<>>,
                          !.phase = [r \in Requests |->
                             IF phase[r] = "waiting" THEN "rejected" ELSE phase[r]]])
  /\ UNCHANGED <<sessionOf, aborted>>

GateNext ==
  \/ \E r \in Requests :
       \/ \E s \in GateSessions \cup {NoSession} : Acquire(r, s)
       \/ Abort(r) \/ OnAbort(r) \/ Release(r)
  \/ Dispose

\* A read ends, by itself or by its signal, and its finally releases; the
\* listeners of an aborted signal run.
GateFairness ==
  /\ WF_gateVars(\E r \in Requests : Release(r))
  /\ WF_gateVars(\E r \in Requests : OnAbort(r))

GateSafeSpec == GateInit /\ [][GateNext]_gateVars
GateSpec == GateSafeSpec /\ GateFairness

-----------------------------------------------------------------------------
(* What makes it correct.                                                   *)

Reading == {r \in Requests : phase[r] = "reading"}

\* The counter is the number of reads under way, within the limit.
LimitKept ==
  /\ activeBootstrap = Cardinality(Reading)
  /\ activeBootstrap <= BackgroundBootstrapLimit

\* No two reads of one session run together.
OnePerSession ==
  \A r, q \in Reading : sessionOf[r] = sessionOf[q] /\ sessionOf[r] # NoSession => r = q

\* The gate admits no read too many: neither over all nor of one session, however
\* aborts, releases and the replacement of a session's state object interleave.
ReadsBounded == LimitKept /\ OnePerSession

\* A waiter waits for a reason, so that a request which is served at once never
\* overtakes one that could have been served.
WorkConserving ==
  activeBootstrap < BackgroundBootstrapLimit =>
    \A r \in Requests : phase[r] = "waiting" /\ ~aborted[r] =>
      \E q \in Reading : sessionOf[q] = sessionOf[r] /\ sessionOf[r] # NoSession

\* The gate admits no read too many and holds none up without a reason.
GateSound == GateTypeOK /\ ReadsBounded /\ WorkConserving

\* Requests of one session are served in the order they came.
Before(r, q) ==
  \E i, j \in 1..Len(bootstrapQueue) :
    i < j /\ bootstrapQueue[i] = r /\ bootstrapQueue[j] = q
SessionOrder ==
  [][\A r, q \in Requests :
       Before(r, q) /\ sessionOf[r] = sessionOf[q] /\ phase'[q] = "reading"
         => phase'[r] # "waiting"]_gateVars

\* Whoever waits is served or rejected.
NoStarvation == \A r \in Requests : phase[r] = "waiting" ~> phase[r] # "waiting"
=============================================================================
