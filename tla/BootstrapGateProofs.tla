------------------------- MODULE BootstrapGateProofs -------------------------
(***************************************************************************)
(* The proof that the gate in front of the history reads admits no read    *)
(* too many, holds none up without a reason and serves a session in order, *)
(* for any set of requests and sessions and any limit.  A release grants   *)
(* several requests in one go, so the invariant is a predicate of the gate *)
(* as a value, kept by each round of the drain.                            *)
(***************************************************************************)
EXTENDS BootstrapGate, FiniteSetTheorems, SequenceTheorems, TLAPS

Gates ==
  [phase : [Requests -> {"idle", "waiting", "reading", "rejected", "done"}],
   held : [Requests -> Requests \cup {NoState}],
   queue : Seq(Requests),
   count : Nat,
   sessions : [GateSessions -> Requests \cup {NoState}],
   active : [Requests -> BOOLEAN]]

Readers(gate) == {r \in Requests : gate.phase[r] = "reading"}

Counted(gate) ==
  /\ IsFiniteSet(Readers(gate))
  /\ gate.count = Cardinality(Readers(gate))
  /\ gate.count <= BackgroundBootstrapLimit

\* A reader holds the state object of its session, and it is marked.
Holding(gate, so) ==
  \A r \in Readers(gate) :
    IF so[r] = NoSession THEN gate.held[r] = NoState
    ELSE /\ gate.held[r] # NoState
         /\ gate.held[r] = gate.sessions[so[r]]
         /\ gate.active[gate.held[r]]

Alone(gate, so) ==
  \A r, q \in Readers(gate) : so[r] = so[q] /\ so[r] # NoSession => r = q

\* A marked session is being read.
Awake(gate, so) ==
  \A s \in GateSessions : Busy(gate, s) => \E q \in Readers(gate) : so[q] = s

\* A state object belongs to the session of the request that made it, hence to
\* one session.
Owned(gate, so) ==
  \A s \in GateSessions : gate.sessions[s] # NoState => so[gate.sessions[s]] = s

Core(gate, so) ==
  /\ gate \in Gates
  /\ so \in [Requests -> GateSessions \cup {NoSession}]
  /\ Counted(gate)
  /\ Holding(gate, so)
  /\ Alone(gate, so)
  /\ Awake(gate, so)
  /\ Owned(gate, so)

\* The queue holds the waiters, each once.
Queued(gate) ==
  /\ \A i \in 1..Len(gate.queue) : gate.phase[gate.queue[i]] = "waiting"
  /\ \A i, j \in 1..Len(gate.queue) : gate.queue[i] = gate.queue[j] => i = j
  /\ \A r \in Requests :
       gate.phase[r] = "waiting" => \E i \in 1..Len(gate.queue) : gate.queue[i] = r

\* A request that was not made yet made no state object.
Fresh(gate) ==
  \A r \in Requests, s \in GateSessions : gate.sessions[s] = r => gate.phase[r] # "idle"

Whole(gate, so) == Core(gate, so) /\ Queued(gate) /\ Fresh(gate)

\* Below the limit, whoever waits has a session that is busy.
Conserving(gate, so) ==
  gate.count < BackgroundBootstrapLimit =>
    \A i \in 1..Len(gate.queue) : Busy(gate, so[gate.queue[i]])

\* The inductive invariant.
GateIInv ==
  /\ aborted \in [Requests -> BOOLEAN]
  /\ Whole(Gate, sessionOf)
  /\ Conserving(Gate, sessionOf)

-----------------------------------------------------------------------------
(* Numbers, places and queues.                                              *)

\* A set of numbers that is not empty has a least one.
LEMMA LeastNumber ==
  ASSUME NEW T \in SUBSET Nat, T # {}
  PROVE  \E m \in T : \A k \in T : m <= k
<1> DEFINE R == OpToRel(<, Nat)
<1>1. IsWellFoundedOn(R, Nat)
  BY NatLessThanWellFounded
<1> HIDE DEF R
<1>2. PICK m \in T : \A k \in T : ~(<<k, m>> \in R)
  BY <1>1, WFMin, Zenon
<1>3. \A k \in Nat : k < m => <<k, m>> \in R
  BY DEF R, OpToRel
<1>4. ASSUME NEW k \in T PROVE m <= k
  <2>1. m \in Nat /\ k \in Nat
    OBVIOUS
  <2>2. ~(k < m)
    BY <1>2, <1>3, <2>1
  <2> QED BY <2>1, <2>2
<1> QED BY <1>4

\* Induction over the numbers, by their set.
LEMMA NumbersInductive ==
  ASSUME NEW S, 0 \in S, \A n \in Nat : n \in S => n + 1 \in S
  PROVE  Nat \subseteq S
<1> SUFFICES ASSUME Nat \ S # {} PROVE FALSE
  OBVIOUS
<1>1. PICK m \in Nat \ S : \A k \in Nat \ S : m <= k
  BY LeastNumber
<1>2. m # 0 /\ m - 1 \in Nat /\ m - 1 < m
  BY <1>1
<1>3. m - 1 \in S
  BY <1>1, <1>2
<1>4. (m - 1) + 1 \in S
  BY <1>2, <1>3
<1> QED BY <1>1, <1>4

\* What First returns.
LEMMA FirstIsLeast ==
  ASSUME NEW places \in SUBSET Nat, places # {}
  PROVE  First(places) \in places /\ \A j \in places : First(places) <= j
<1>1. \E i \in places : \A j \in places : i <= j
  BY LeastNumber
<1> QED BY <1>1 DEF First

\* A splice removes one place and keeps the order of the others.
LEMMA SplicedQueue ==
  ASSUME NEW queue \in Seq(Requests), NEW i \in 1..Len(queue)
  PROVE  /\ Without(queue, i) \in Seq(Requests)
         /\ Len(Without(queue, i)) = Len(queue) - 1
         /\ \A j \in 1..Len(queue) - 1 :
              Without(queue, i)[j] = queue[IF j < i THEN j ELSE j + 1]
<1> DEFINE left == SubSeq(queue, 1, i - 1)
           right == SubSeq(queue, i + 1, Len(queue))
<1>0. Len(queue) \in Nat /\ i \in Nat /\ 1 <= i /\ i <= Len(queue)
  OBVIOUS
<1>1. /\ left \in Seq(Requests) /\ Len(left) = i - 1
      /\ \A j \in 1..i - 1 : left[j] = queue[j]
  <2>1. \A j \in 1..i - 1 : queue[j] \in Requests
    BY <1>0, ElementOfSeq
  <2>2. 1 \in Int /\ i - 1 \in Int
    BY <1>0
  <2>3. /\ left \in Seq(Requests)
        /\ Len(left) = IF 1 <= i - 1 THEN (i - 1) - 1 + 1 ELSE 0
        /\ \A j \in 1..(i - 1) - 1 + 1 : left[j] = queue[1 + j - 1]
    BY <2>1, <2>2, SubSeqProperties
  <2> QED BY <1>0, <2>3
<1>2. /\ right \in Seq(Requests) /\ Len(right) = Len(queue) - i
      /\ \A j \in 1..Len(queue) - i : right[j] = queue[i + j]
  <2>1. \A j \in i + 1..Len(queue) : queue[j] \in Requests
    BY <1>0, ElementOfSeq
  <2>2. i + 1 \in Int /\ Len(queue) \in Int
    BY <1>0
  <2>3. /\ right \in Seq(Requests)
        /\ Len(right) = IF i + 1 <= Len(queue) THEN Len(queue) - (i + 1) + 1 ELSE 0
        /\ \A j \in 1..Len(queue) - (i + 1) + 1 : right[j] = queue[(i + 1) + j - 1]
    BY <2>1, <2>2, SubSeqProperties
  <2> QED BY <1>0, <2>3
<1>3. /\ left \o right \in Seq(Requests) /\ Len(left \o right) = Len(left) + Len(right)
      /\ \A j \in 1..Len(left) + Len(right) :
           (left \o right)[j] = IF j <= Len(left) THEN left[j] ELSE right[j - Len(left)]
  <2> HIDE DEF left, right
  <2> QED BY <1>1, <1>2, ConcatProperties
<1>4. Len(left) + Len(right) = Len(queue) - 1
  BY <1>0, <1>1, <1>2
<1>5. ASSUME NEW j \in 1..Len(queue) - 1
      PROVE  (left \o right)[j] = queue[IF j < i THEN j ELSE j + 1]
  <2> HIDE DEF left, right
  <2>1. CASE j < i
    BY <2>1, <1>0, <1>1, <1>3, <1>4
  <2>2. CASE ~(j < i)
    <3>1. (left \o right)[j] = right[j - (i - 1)]
      BY <2>2, <1>0, <1>1, <1>3, <1>4
    <3>2. j - (i - 1) \in 1..Len(queue) - i /\ i + (j - (i - 1)) = j + 1
      BY <2>2, <1>0
    <3> QED BY <2>2, <3>1, <3>2, <1>2
  <2> QED BY <2>1, <2>2
<1> HIDE DEF left, right
<1>6. Without(queue, i) = left \o right
  BY DEF Without, left, right
<1> QED BY <1>3, <1>4, <1>5, <1>6

-----------------------------------------------------------------------------
(* What a grant and a release do to a gate.                                 *)

\* The fields of a gate.
LEMMA GateFields ==
  ASSUME NEW gate \in Gates
  PROVE  /\ gate.phase \in [Requests -> {"idle", "waiting", "reading", "rejected", "done"}]
         /\ gate.held \in [Requests -> Requests \cup {NoState}]
         /\ gate.queue \in Seq(Requests)
         /\ gate.count \in Nat
         /\ gate.sessions \in [GateSessions -> Requests \cup {NoState}]
         /\ gate.active \in [Requests -> BOOLEAN]
  BY DEF Gates

\* The limit and the places of a queue are numbers, and no session is NoSession.
LEMMA GateConstants ==
  /\ BackgroundBootstrapLimit \in Nat \ {0}
  /\ NoSession \notin GateSessions
  /\ NoState \notin Requests
  BY GateAssumption

\* Making a session's object leaves the gate sound, whoever makes it.
LEMMA ObjectMade ==
  ASSUME NEW gate, NEW so, Core(gate, so),
         NEW r \in Requests, NEW s \in GateSessions \cup {NoSession}, so[r] = s,
         r \notin Readers(gate)
  PROVE  /\ Core(WithState(gate, r, s), so)
         /\ WithState(gate, r, s).phase = gate.phase
         /\ WithState(gate, r, s).held = gate.held
         /\ WithState(gate, r, s).queue = gate.queue
         /\ WithState(gate, r, s).count = gate.count
         /\ \A t \in GateSessions : gate.sessions[t] # NoState =>
              WithState(gate, r, s).sessions[t] = gate.sessions[t]
         /\ \A t \in GateSessions : WithState(gate, r, s).sessions[t] \in {gate.sessions[t], r}
         /\ s # NoSession => WithState(gate, r, s).sessions[s] # NoState
         /\ \A t \in GateSessions : Busy(WithState(gate, r, s), t) <=> Busy(gate, t)
<1> DEFINE made == WithState(gate, r, s)
<1>0. gate \in Gates /\ so \in [Requests -> GateSessions \cup {NoSession}]
  BY DEF Core
<1>1. CASE s = NoSession \/ gate.sessions[s] # NoState
  <2>1. made = gate
    BY <1>1 DEF WithState
  <2> QED BY <1>1, <2>1
<1>2. CASE s # NoSession /\ gate.sessions[s] = NoState
  <2>1. s \in GateSessions
    BY <1>2
  <2>2. made = [gate EXCEPT !.sessions[s] = r, !.active[r] = FALSE]
    BY <1>2 DEF WithState
  <2>3. /\ made.phase = gate.phase /\ made.held = gate.held
        /\ made.queue = gate.queue /\ made.count = gate.count
        /\ made.sessions = [gate.sessions EXCEPT ![s] = r]
        /\ made.active = [gate.active EXCEPT ![r] = FALSE]
    BY <1>0, <2>2 DEF Gates
  <2>4. made \in Gates
    <3> DEFINE objects == [gate.sessions EXCEPT ![s] = r]
               marks == [gate.active EXCEPT ![r] = FALSE]
    <3>1. objects \in [GateSessions -> Requests \cup {NoState}]
      BY <1>0, GateFields
    <3>2. marks \in [Requests -> BOOLEAN]
      BY <1>0, GateFields
    <3>3. made = [gate EXCEPT !.sessions = objects, !.active = marks]
      BY <1>0, <2>2 DEF Gates
    <3> HIDE DEF objects, marks, made
    <3> QED BY <1>0, <3>1, <3>2, <3>3 DEF Gates
  <2> HIDE DEF made
  <2>5. Readers(made) = Readers(gate)
    BY <2>3 DEF Readers
  <2>6. \A t \in GateSessions : t # s => made.sessions[t] = gate.sessions[t]
    BY <1>0, <2>3, GateFields
  <2>7. made.sessions[s] = r /\ ~made.active[r]
    BY <1>0, <2>1, <2>3, GateFields
  <2>8. \A o \in Requests : o # r => made.active[o] = gate.active[o]
    BY <1>0, <2>3, GateFields
  <2>9. ASSUME NEW t \in GateSessions, t # s
        PROVE  made.sessions[t] # r
    BY <2>9, <2>6, GateConstants DEF Core, Owned
  <2>10. ASSUME NEW t \in GateSessions PROVE Busy(made, t) <=> Busy(gate, t)
    <3>1. t # NoSession
      BY GateConstants
    <3>2. CASE t = s
      BY <3>1, <3>2, <1>2, <2>7 DEF Busy, StateOf
    <3>3. CASE t # s
      <4>1. made.sessions[t] = gate.sessions[t] /\ made.sessions[t] # r
        BY <3>3, <2>6, <2>9
      <4>2. gate.sessions[t] \in Requests \cup {NoState}
        BY <1>0, GateFields
      <4> QED BY <3>1, <4>1, <4>2, <2>8 DEF Busy, StateOf
    <3> QED BY <3>2, <3>3
  <2>11. Counted(made)
    BY <2>3, <2>5 DEF Core, Counted
  <2>12. Holding(made, so)
    <3>1. SUFFICES ASSUME NEW x \in Readers(made), so[x] # NoSession
                   PROVE  /\ made.held[x] # NoState
                          /\ made.held[x] = made.sessions[so[x]]
                          /\ made.active[made.held[x]]
      BY <2>3, <2>5 DEF Core, Holding
    <3>2. /\ gate.held[x] # NoState /\ gate.held[x] = gate.sessions[so[x]]
          /\ gate.active[gate.held[x]]
      BY <2>5, <3>1 DEF Core, Holding
    <3>3. so[x] \in GateSessions
      BY <1>0, <3>1 DEF Readers
    <3>4. so[x] # s
      BY <1>2, <3>2
    <3>5. made.sessions[so[x]] = gate.sessions[so[x]] /\ made.sessions[so[x]] # r
      BY <3>3, <3>4, <2>6, <2>9
    <3>6. gate.held[x] \in Requests
      BY <1>0, <3>2, <3>3, GateFields
    <3> QED BY <3>2, <3>5, <3>6, <2>3, <2>8
  <2>13. Alone(made, so)
    BY <2>5 DEF Core, Alone
  <2>14. Awake(made, so)
    BY <2>5, <2>10 DEF Core, Awake
  <2>15. Owned(made, so)
    BY <2>6, <2>7 DEF Core, Owned
  <2>16. Core(made, so)
    BY <1>0, <2>4, <2>11, <2>12, <2>13, <2>14, <2>15 DEF Core
  <2>17. made.sessions[s] # NoState
    BY <2>7, GateConstants
  <2>18. \A t \in GateSessions : gate.sessions[t] # NoState => made.sessions[t] = gate.sessions[t]
    BY <1>2, <2>6
  <2>19. \A t \in GateSessions : made.sessions[t] \in {gate.sessions[t], r}
    BY <2>6, <2>7
  <2> QED BY <2>3, <2>10, <2>16, <2>17, <2>18, <2>19 DEF made
<1> QED BY <1>0, <1>1, <1>2

\* A grant below the limit to a session that is not busy leaves the gate sound.
LEMMA GrantKeeps ==
  ASSUME NEW gate, NEW so, Core(gate, so),
         NEW r \in Requests, NEW s \in GateSessions \cup {NoSession}, so[r] = s,
         r \notin Readers(gate), ~Busy(gate, s),
         s # NoSession => gate.sessions[s] # NoState,
         gate.count < BackgroundBootstrapLimit
  PROVE  /\ Core(Granted(gate, r, s), so)
         /\ Granted(gate, r, s).phase = [gate.phase EXCEPT ![r] = "reading"]
         /\ Granted(gate, r, s).queue = gate.queue
         /\ Granted(gate, r, s).sessions = gate.sessions
         /\ Granted(gate, r, s).count = gate.count + 1
         /\ s # NoSession => Busy(Granted(gate, r, s), s)
         /\ \A t \in GateSessions : Busy(gate, t) => Busy(Granted(gate, r, s), t)
<1> DEFINE given == Granted(gate, r, s)
           o == StateOf(gate, s)
<1>0. gate \in Gates /\ so \in [Requests -> GateSessions \cup {NoSession}]
  BY DEF Core
<1>1. o \in Requests \cup {NoState} /\ (o = NoState <=> s = NoSession)
  BY <1>0, GateFields DEF StateOf
<1>2. /\ given.phase = [gate.phase EXCEPT ![r] = "reading"]
      /\ given.held = [gate.held EXCEPT ![r] = o]
      /\ given.queue = gate.queue
      /\ given.count = gate.count + 1
      /\ given.sessions = gate.sessions
      /\ given.active = IF o = NoState THEN gate.active ELSE [gate.active EXCEPT ![o] = TRUE]
  BY <1>0 DEF Granted, Gates
<1>3. given \in Gates
  <2> DEFINE phases == [gate.phase EXCEPT ![r] = "reading"]
             holds == [gate.held EXCEPT ![r] = o]
             marks == IF o = NoState THEN gate.active ELSE [gate.active EXCEPT ![o] = TRUE]
  <2>1. phases \in [Requests -> {"idle", "waiting", "reading", "rejected", "done"}]
    BY <1>0, GateFields
  <2>2. holds \in [Requests -> Requests \cup {NoState}]
    BY <1>0, <1>1, GateFields
  <2>3. marks \in [Requests -> BOOLEAN]
    BY <1>0, <1>1, GateFields
  <2>4. given = [gate EXCEPT !.phase = phases, !.held = holds, !.count = gate.count + 1,
                             !.active = marks]
    BY <1>0 DEF Granted, Gates
  <2>5. gate.count + 1 \in Nat
    BY <1>0, GateFields
  <2> HIDE DEF phases, holds, marks, given
  <2> QED BY <1>0, <2>1, <2>2, <2>3, <2>4, <2>5 DEF Gates
<1>4. \A q \in Requests : gate.active[q] => given.active[q]
  BY <1>0, <1>1, <1>2, GateFields
<1>5. o # NoState => given.active[o]
  BY <1>0, <1>1, <1>2, GateFields
<1>6. \A q \in Requests : q # o => given.active[q] = gate.active[q]
  BY <1>0, <1>1, <1>2, GateFields
<1>7. Readers(given) = Readers(gate) \cup {r}
  BY <1>0, <1>2, GateFields DEF Readers
<1>8. o = StateOf(gate, s)
  OBVIOUS
<1> HIDE DEF given, o
<1>9. Counted(given)
  BY <1>0, <1>2, <1>7, FS_AddElement, GateFields, GateConstants DEF Core, Counted
<1>10. \A x \in Readers(gate) : x # r
  OBVIOUS
<1>11. Holding(given, so)
  <2> SUFFICES ASSUME NEW x \in Readers(given)
               PROVE  IF so[x] = NoSession THEN given.held[x] = NoState
                      ELSE /\ given.held[x] # NoState
                           /\ given.held[x] = given.sessions[so[x]]
                           /\ given.active[given.held[x]]
    BY DEF Holding
  <2>1. CASE x = r
    <3>1. given.held[x] = o
      BY <2>1, <1>0, <1>2, GateFields
    <3>2. s # NoSession => o = gate.sessions[s]
      BY <1>8 DEF StateOf
    <3> QED BY <2>1, <3>1, <3>2, <1>1, <1>2, <1>5
  <2>2. CASE x # r
    <3>1. x \in Readers(gate) /\ x \in Requests
      BY <2>2, <1>7 DEF Readers
    <3>2. given.held[x] = gate.held[x]
      BY <2>2, <3>1, <1>0, <1>2, GateFields
    <3>3. gate.held[x] \in Requests \cup {NoState}
      BY <3>1, <1>0, GateFields
    <3>4. IF so[x] = NoSession THEN gate.held[x] = NoState
          ELSE /\ gate.held[x] # NoState
               /\ gate.held[x] = gate.sessions[so[x]]
               /\ gate.active[gate.held[x]]
      BY <3>1 DEF Core, Holding
    <3> QED BY <3>2, <3>3, <3>4, <1>2, <1>4
  <2> QED BY <2>1, <2>2
<1>12. ASSUME NEW x \in Readers(gate), so[x] = s, s # NoSession PROVE FALSE
  <2>1. gate.held[x] # NoState /\ gate.held[x] = gate.sessions[s] /\ gate.active[gate.held[x]]
    BY <1>12 DEF Core, Holding
  <2> QED BY <2>1, <1>12 DEF Busy, StateOf
<1>13. Alone(given, so)
  BY <1>7, <1>12 DEF Core, Alone
<1>14. ASSUME NEW t \in GateSessions, Busy(gate, t) PROVE Busy(given, t)
  <2>1. t # NoSession
    BY GateConstants
  <2>2. gate.sessions[t] \in Requests
    BY <2>1, <1>0, <1>14, GateFields DEF Busy, StateOf
  <2> QED BY <2>1, <2>2, <1>2, <1>4, <1>14 DEF Busy, StateOf
<1>15. s # NoSession => Busy(given, s)
  BY <1>1, <1>2, <1>5, <1>8 DEF Busy, StateOf
<1>16. Awake(given, so)
  <2> SUFFICES ASSUME NEW t \in GateSessions, Busy(given, t)
               PROVE  \E q \in Readers(given) : so[q] = t
    BY DEF Awake
  <2>1. CASE Busy(gate, t)
    BY <2>1, <1>7 DEF Core, Awake
  <2>2. CASE ~Busy(gate, t)
    <3>1. t # NoSession
      BY GateConstants
    <3>2. gate.sessions[t] \in Requests /\ given.active[gate.sessions[t]]
      BY <3>1, <1>0, <1>2, GateFields DEF Busy, StateOf
    <3>3. ~gate.active[gate.sessions[t]]
      BY <2>2, <3>1, <3>2, GateConstants DEF Busy, StateOf
    <3>4. gate.sessions[t] = o
      BY <3>2, <3>3, <1>6
    <3>5. s # NoSession /\ o = gate.sessions[s]
      BY <3>2, <3>4, <1>1, <1>8, GateConstants DEF StateOf
    <3>6. t = s
      BY <3>2, <3>4, <3>5, GateConstants DEF Core, Owned
    <3> QED BY <3>6, <1>7
  <2> QED BY <2>1, <2>2
<1>17. Owned(given, so)
  BY <1>2 DEF Core, Owned
<1>18. Core(given, so)
  BY <1>0, <1>3, <1>9, <1>11, <1>13, <1>16, <1>17 DEF Core
<1> QED BY <1>2, <1>14, <1>15, <1>18 DEF given

\* The readers and their objects are all the core looks at.
LEMMA CoreAlike ==
  ASSUME NEW gate, NEW so, Core(gate, so), NEW other \in Gates,
         other.held = gate.held, other.count = gate.count,
         other.sessions = gate.sessions, other.active = gate.active,
         Readers(other) = Readers(gate)
  PROVE  Core(other, so) /\ \A s : Busy(other, s) <=> Busy(gate, s)
  BY DEF Core, Counted, Holding, Alone, Awake, Owned, Busy, StateOf

-----------------------------------------------------------------------------
(* Leaving the queue.                                                       *)

\* Request r is in front of request q.
Precedes(gate, r, q) ==
  \E i, j \in 1..Len(gate.queue) : i < j /\ gate.queue[i] = r /\ gate.queue[j] = q

\* Who leaves the queue leaves the others in their order.
LEMMA LeftInOrder ==
  ASSUME NEW gate \in Gates, Queued(gate), NEW i \in 1..Len(gate.queue), NEW other,
         NEW next \in {"reading", "rejected"},
         other.queue = Without(gate.queue, i),
         other.phase[gate.queue[i]] = next,
         \A r \in Requests : r # gate.queue[i] => other.phase[r] = gate.phase[r]
  PROVE  /\ Queued(other)
         /\ Len(other.queue) = Len(gate.queue) - 1
         /\ \A r \in Requests : other.phase[r] = "waiting" =>
              gate.phase[r] = "waiting" /\ r # gate.queue[i]
         /\ \A j \in 1..Len(other.queue) : \E k \in 1..Len(gate.queue) :
              other.queue[j] = gate.queue[k]
         /\ \A r, q \in Requests : Precedes(gate, r, q) /\ r # gate.queue[i] /\ q # gate.queue[i]
              => Precedes(other, r, q)
<1> DEFINE old == gate.queue
           new == other.queue
           left == gate.queue[i]
<1>1. old \in Seq(Requests) /\ Len(old) \in Nat /\ left \in Requests
  BY GateFields, LenProperties, ElementOfSeq
<1>2. /\ new \in Seq(Requests) /\ Len(new) = Len(old) - 1
      /\ \A j \in 1..Len(old) - 1 : new[j] = old[IF j < i THEN j ELSE j + 1]
  <2>1. new = Without(old, i) /\ i \in 1..Len(old)
    OBVIOUS
  <2> HIDE DEF old, new
  <2> QED BY <1>1, <2>1, SplicedQueue
<1>3. \A j \in 1..Len(old) : old[j] \in Requests
  BY <1>1, ElementOfSeq
<1>4. /\ \A r \in Requests : r # left => other.phase[r] = gate.phase[r]
      /\ other.phase[left] = next
  OBVIOUS
<1>5. \A j \in 1..Len(old) : j # i => old[j] # left
  BY DEF Queued
<1> HIDE DEF old, new, left
<1>6. i \in 1..Len(old) /\ i \in Int
  BY DEF old
<1>7. \A j \in 1..Len(new) : (IF j < i THEN j ELSE j + 1) \in 1..Len(old)
  BY <1>1, <1>2, <1>6
<1>8. \A j \in 1..Len(new) : (IF j < i THEN j ELSE j + 1) # i
  BY <1>1, <1>2, <1>6
\* Every other place keeps a place.
<1>9. ASSUME NEW k \in 1..Len(old), k # i
      PROVE  /\ (IF k < i THEN k ELSE k - 1) \in 1..Len(new)
             /\ new[IF k < i THEN k ELSE k - 1] = old[k]
  <2>1. CASE k < i
    BY <2>1, <1>1, <1>2, <1>6
  <2>2. CASE ~(k < i)
    <3>1. k - 1 \in 1..Len(old) - 1 /\ ~(k - 1 < i) /\ (k - 1) + 1 = k
      BY <2>2, <1>1, <1>6, <1>9
    <3> QED BY <2>2, <3>1, <1>2
  <2> QED BY <2>1, <2>2
<1>10. \A j \in 1..Len(new) : other.phase[new[j]] = "waiting"
  <2> TAKE j \in 1..Len(new)
  <2> DEFINE k == IF j < i THEN j ELSE j + 1
  <2>1. k \in 1..Len(old) /\ k # i
    BY <1>7, <1>8
  <2>2. new[j] = old[k]
    BY <1>2
  <2> HIDE DEF k
  <2>3. gate.phase[old[k]] = "waiting"
    BY <2>1 DEF Queued, old
  <2> QED BY <2>1, <2>2, <2>3, <1>3, <1>4, <1>5
<1>11. ASSUME NEW j \in 1..Len(new), NEW k \in 1..Len(new), new[j] = new[k]
       PROVE  j = k
  <2> DEFINE m == IF j < i THEN j ELSE j + 1
             n == IF k < i THEN k ELSE k + 1
  <2>1. m \in 1..Len(old) /\ n \in 1..Len(old)
    BY <1>7
  <2>2. old[m] = old[n]
    BY <1>2, <1>11
  <2>3. m = n
    <3> HIDE DEF m, n
    <3> QED BY <2>1, <2>2 DEF Queued, old
  <2> QED BY <2>3, <1>1, <1>2, <1>6
<1>12. ASSUME NEW r \in Requests, other.phase[r] = "waiting"
       PROVE  gate.phase[r] = "waiting" /\ r # left
  BY <1>4, <1>12
<1>13. ASSUME NEW r \in Requests, other.phase[r] = "waiting"
       PROVE  \E j \in 1..Len(new) : new[j] = r
  <2>1. PICK k \in 1..Len(old) : old[k] = r
    BY <1>12, <1>13 DEF Queued, old
  <2>2. k # i
    BY <2>1, <1>12, <1>13 DEF old, left
  <2> QED BY <2>1, <2>2, <1>9
<1>14. ASSUME NEW r \in Requests, NEW q \in Requests, Precedes(gate, r, q), r # left, q # left
       PROVE  Precedes(other, r, q)
  <2>1. PICK m, n \in 1..Len(old) : m < n /\ old[m] = r /\ old[n] = q
    BY <1>14 DEF Precedes, old
  <2>2. m # i /\ n # i
    BY <2>1, <1>14 DEF old, left
  <2> DEFINE j == IF m < i THEN m ELSE m - 1
             k == IF n < i THEN n ELSE n - 1
  <2>3. j \in 1..Len(new) /\ k \in 1..Len(new) /\ new[j] = r /\ new[k] = q
    BY <2>1, <2>2, <1>9
  <2>4. j < k
    BY <2>1, <2>2, <1>1, <1>6
  <2> HIDE DEF j, k
  <2> QED BY <2>3, <2>4 DEF Precedes, new
<1>15. \A j \in 1..Len(new) : \E k \in 1..Len(old) : new[j] = old[k]
  BY <1>1, <1>2, <1>7
<1>16. Queued(other)
  BY <1>10, <1>11, <1>13 DEF Queued, new
<1> QED BY <1>2, <1>12, <1>14, <1>15, <1>16 DEF old, new, left

-----------------------------------------------------------------------------
(* One round of the drain.                                                  *)

Settled(gate) == gate.count >= BackgroundBootstrapLimit \/ Eligible(gate) = {}

Grown(gate, next) ==
  \A t \in GateSessions : gate.sessions[t] # NoState => next.sessions[t] = gate.sessions[t]

\* Of two requests, r still comes first.
InTurn(gate, r, q) ==
  /\ gate.phase[q] = "reading" => gate.phase[r] # "waiting"
  /\ gate.phase[r] = "waiting" /\ gate.phase[q] = "waiting" => Precedes(gate, r, q)

LEMMA SettledConserves ==
  ASSUME NEW gate \in Gates, Settled(gate)
  PROVE  Conserving(gate, sessionOf)
<1>1. gate.count \in Nat
  BY GateFields
<1> QED BY <1>1, GateConstants DEF Settled, Conserving, Eligible

\* The first waiter with a free session is not behind another one of its session.
LEMMA FirstInTurn ==
  ASSUME NEW gate \in Gates, Queued(gate), Eligible(gate) # {},
         NEW r \in Requests, NEW q \in Requests, sessionOf[r] = sessionOf[q],
         q = gate.queue[First(Eligible(gate))], gate.phase[r] = "waiting"
  PROVE  ~Precedes(gate, r, q)
<1> DEFINE i == First(Eligible(gate))
<1>1. Len(gate.queue) \in Nat
  BY GateFields, LenProperties
<1>2. Eligible(gate) \in SUBSET Nat /\ Eligible(gate) \subseteq 1..Len(gate.queue)
  BY <1>1 DEF Eligible
<1>3. i \in Eligible(gate) /\ \A j \in Eligible(gate) : i <= j
  BY <1>2, FirstIsLeast
<1> HIDE DEF i
<1>4. i \in 1..Len(gate.queue) /\ ~Busy(gate, sessionOf[gate.queue[i]]) /\ gate.queue[i] = q
  BY <1>2, <1>3 DEF Eligible, i
<1> SUFFICES ASSUME NEW j \in 1..Len(gate.queue), NEW k \in 1..Len(gate.queue),
                    j < k, gate.queue[j] = r, gate.queue[k] = q
             PROVE  FALSE
  BY DEF Precedes
<1>5. k = i
  BY <1>4 DEF Queued
<1>6. j \in Eligible(gate)
  BY <1>4 DEF Eligible
<1> QED BY <1>1, <1>3, <1>4, <1>5, <1>6

\* A round keeps the gate sound and the waiters of a session in their order; it
\* takes one waiter away or changes nothing.
LEMMA RoundKeeps ==
  ASSUME NEW gate, Whole(gate, sessionOf), aborted \in [Requests -> BOOLEAN]
  PROVE  /\ Whole(DrainOnce(gate), sessionOf)
         /\ Grown(gate, DrainOnce(gate))
         /\ Settled(gate) => DrainOnce(gate) = gate
         /\ ~Settled(gate) => Len(DrainOnce(gate).queue) = Len(gate.queue) - 1
         /\ \A r, q \in Requests : sessionOf[r] = sessionOf[q] /\ InTurn(gate, r, q) =>
              InTurn(DrainOnce(gate), r, q)
<1>0. /\ gate \in Gates /\ Core(gate, sessionOf) /\ Queued(gate) /\ Fresh(gate)
      /\ sessionOf \in [Requests -> GateSessions \cup {NoSession}]
  BY DEF Whole, Core
<1>1. CASE Settled(gate)
  <2>1. DrainOnce(gate) = gate
    BY <1>1 DEF Settled, DrainOnce
  <2> QED BY <1>1, <2>1 DEF Grown
<1>2. CASE ~Settled(gate)
  <2> DEFINE i == First(Eligible(gate))
             r == gate.queue[i]
             left == [gate EXCEPT !.queue = Without(@, i)]
             next == DrainOnce(gate)
  <2>1. /\ gate.count < BackgroundBootstrapLimit
        /\ ~(gate.count >= BackgroundBootstrapLimit)
        /\ Eligible(gate) # {}
    BY <1>0, <1>2, GateFields, GateConstants DEF Settled
  <2>2. Len(gate.queue) \in Nat
    BY <1>0, GateFields, LenProperties
  <2>3. Eligible(gate) \in SUBSET Nat /\ Eligible(gate) \subseteq 1..Len(gate.queue)
    BY <2>2 DEF Eligible
  <2>4. i \in Eligible(gate)
    BY <2>1, <2>3, FirstIsLeast
  <2>5. i \in 1..Len(gate.queue) /\ r = gate.queue[i] /\ ~Busy(gate, sessionOf[r])
    BY <2>3, <2>4 DEF Eligible
  <2>6. next = IF aborted[r] THEN [left EXCEPT !.phase[r] = "rejected"]
               ELSE Granted(WithState(left, r, sessionOf[r]), r, sessionOf[r])
    BY <2>1 DEF DrainOnce
  <2>7. Without(gate.queue, i) \in Seq(Requests) /\ r \in Requests
    BY <1>0, <2>5, GateFields, SplicedQueue, ElementOfSeq
  <2>8. gate.phase[r] = "waiting"
    BY <1>0, <2>5 DEF Queued
  <2>9. /\ left \in Gates
        /\ left.queue = Without(gate.queue, i)
        /\ left.phase = gate.phase /\ left.held = gate.held
        /\ left.count = gate.count /\ left.sessions = gate.sessions
        /\ left.active = gate.active
    BY <1>0, <2>7 DEF Gates
  <2> HIDE DEF next, left, r, i
  <2>10. Core(left, sessionOf) /\ \A s : Busy(left, s) <=> Busy(gate, s)
    <3>1. Readers(left) = Readers(gate)
      BY <2>9 DEF Readers
    <3> QED BY <1>0, <2>9, <3>1, CoreAlike
  <2>11. r \notin Readers(left) /\ sessionOf[r] \in GateSessions \cup {NoSession}
    BY <1>0, <2>7, <2>8, <2>9 DEF Readers
  \* The two ends of a round have this in common.
  <2>12. \E p \in {"reading", "rejected"} :
           /\ Core(next, sessionOf)
           /\ next.queue = Without(gate.queue, i)
           /\ next.phase = [gate.phase EXCEPT ![r] = p]
           /\ Grown(gate, next)
           /\ \A t \in GateSessions : next.sessions[t] \in {gate.sessions[t], r}
    <3>1. CASE aborted[r]
      <4>1. next = [left EXCEPT !.phase[r] = "rejected"]
        BY <2>6, <3>1
      <4>2. /\ next.phase = [gate.phase EXCEPT ![r] = "rejected"]
            /\ next.held = left.held /\ next.queue = left.queue
            /\ next.count = left.count /\ next.sessions = left.sessions
            /\ next.active = left.active
        BY <4>1, <2>9 DEF Gates
      <4>3. next \in Gates
        <5> DEFINE phases == [gate.phase EXCEPT ![r] = "rejected"]
        <5>1. phases \in [Requests -> {"idle", "waiting", "reading", "rejected", "done"}]
          BY <1>0, GateFields
        <5>2. next = [left EXCEPT !.phase = phases]
          BY <4>1, <2>9
        <5> HIDE DEF phases
        <5> QED BY <5>1, <5>2, <2>9 DEF Gates
      <4>4. Readers(next) = Readers(left)
        BY <1>0, <2>7, <2>8, <2>9, <4>2, GateFields DEF Readers
      <4>5. Core(next, sessionOf)
        BY <2>10, <4>2, <4>3, <4>4, CoreAlike
      <4> QED BY <2>9, <4>2, <4>5 DEF Grown
    <3>2. CASE ~aborted[r]
      <4> DEFINE made == WithState(left, r, sessionOf[r])
      <4>1. /\ Core(made, sessionOf)
            /\ made.phase = left.phase /\ made.queue = left.queue
            /\ made.count = left.count
            /\ \A t \in GateSessions : left.sessions[t] # NoState =>
                 made.sessions[t] = left.sessions[t]
            /\ \A t \in GateSessions : made.sessions[t] \in {left.sessions[t], r}
            /\ sessionOf[r] # NoSession => made.sessions[sessionOf[r]] # NoState
            /\ \A t \in GateSessions : Busy(made, t) <=> Busy(left, t)
        <5>1. Core(left, sessionOf) /\ sessionOf[r] \in GateSessions \cup {NoSession} /\ r \notin Readers(left)
          BY <2>7, <2>10, <2>11
        <5> QED BY <2>7, <2>11, <5>1, ObjectMade
      <4> HIDE DEF made
      <4>2. r \notin Readers(made)
        <5>1. made.phase = left.phase
          BY <4>1
        <5> QED BY ONLY <2>11, <5>1 DEF Readers
      <4>3. ~Busy(made, sessionOf[r])
        BY <2>5, <2>10, <2>11, <4>1 DEF Busy, StateOf, r
      <4>4. made.count < BackgroundBootstrapLimit
        BY <2>1, <2>9, <4>1
      <4>5. next = Granted(made, r, sessionOf[r])
        BY <2>6, <3>2 DEF made
      <4>6. /\ Core(next, sessionOf)
            /\ next.phase = [made.phase EXCEPT ![r] = "reading"]
            /\ next.queue = made.queue
            /\ next.sessions = made.sessions
        BY <2>7, <2>11, <4>1, <4>2, <4>3, <4>4, <4>5, GrantKeeps
      <4> QED BY <2>9, <4>1, <4>6 DEF Grown
    <3> QED BY <3>1, <3>2
  <2>13. PICK p \in {"reading", "rejected"} :
           /\ Core(next, sessionOf)
           /\ next.queue = Without(gate.queue, i)
           /\ next.phase = [gate.phase EXCEPT ![r] = p]
           /\ Grown(gate, next)
           /\ \A t \in GateSessions : next.sessions[t] \in {gate.sessions[t], r}
    BY <2>12
  <2>14. /\ Queued(next)
         /\ Len(next.queue) = Len(gate.queue) - 1
         /\ \A x \in Requests : next.phase[x] = "waiting" =>
              gate.phase[x] = "waiting" /\ x # r
         /\ \A x, y \in Requests : Precedes(gate, x, y) /\ x # r /\ y # r =>
              Precedes(next, x, y)
    <3>1. /\ next.phase[gate.queue[i]] = p
          /\ \A x \in Requests : x # gate.queue[i] => next.phase[x] = gate.phase[x]
      BY <1>0, <2>5, <2>7, <2>13, GateFields
    <3>2. next.queue = Without(gate.queue, i) /\ i \in 1..Len(gate.queue)
      BY <2>5, <2>13
    <3>3. /\ Queued(next)
          /\ Len(next.queue) = Len(gate.queue) - 1
          /\ \A x \in Requests : next.phase[x] = "waiting" =>
               gate.phase[x] = "waiting" /\ x # gate.queue[i]
          /\ \A x, y \in Requests : Precedes(gate, x, y) /\ x # gate.queue[i]
               /\ y # gate.queue[i] => Precedes(next, x, y)
      <4>1. gate \in Gates /\ Queued(gate) /\ p \in {"reading", "rejected"}
        BY <1>0, <2>13
      <4> QED BY <4>1, <3>1, <3>2, LeftInOrder
    <3> QED BY <2>5, <3>3
  <2>15. /\ \A x \in Requests : x # r => next.phase[x] = gate.phase[x]
         /\ next.phase[r] = p
    BY <1>0, <2>7, <2>13, GateFields
  <2>16. Fresh(next)
    <3> SUFFICES ASSUME NEW x \in Requests, NEW s \in GateSessions, next.sessions[s] = x
                 PROVE  next.phase[x] # "idle"
      BY DEF Fresh
    <3>1. x = r \/ gate.sessions[s] = x
      BY <2>13
    <3> QED BY <3>1, <1>0, <2>15 DEF Fresh
  <2>17. ASSUME NEW x \in Requests, NEW q \in Requests, sessionOf[x] = sessionOf[q],
                InTurn(gate, x, q)
         PROVE  InTurn(next, x, q)
    <3>1. ASSUME next.phase[x] = "waiting" PROVE next.phase[q] # "reading"
      <4>1. gate.phase[x] = "waiting" /\ x # r
        BY <2>14, <3>1
      <4>2. CASE q = r
        <5>1. Precedes(gate, x, q)
          BY <4>1, <4>2, <2>8, <2>17 DEF InTurn
        <5> QED BY <5>1, <4>1, <4>2, <1>0, <2>1, <2>17, FirstInTurn DEF r, i
      <4>3. CASE q # r
        BY <4>1, <4>3, <2>15, <2>17 DEF InTurn
      <4> QED BY <4>2, <4>3
    <3>2. ASSUME next.phase[x] = "waiting", next.phase[q] = "waiting"
          PROVE  Precedes(next, x, q)
      BY <2>14, <2>17, <3>2 DEF InTurn
    <3> QED BY <3>1, <3>2 DEF InTurn
  <2> QED BY <1>2, <2>13, <2>14, <2>16, <2>17 DEF Whole, next
<1> QED BY <1>1, <1>2

-----------------------------------------------------------------------------
(* The rounds of a drain.                                                   *)

\* The gates after the first n rounds.
Rounds(f, gate, n) ==
  f = [m \in 0..n |-> IF m = 0 THEN gate
                      ELSE CHOOSE next \in {DrainOnce(g) : g \in {f[m - 1]}} : TRUE]

LEMMA RoundsSteps ==
  ASSUME NEW f, NEW gate, NEW n \in Nat, Rounds(f, gate, n)
  PROVE  f[0] = gate /\ \A m \in 0..n : m # 0 => f[m] = DrainOnce(f[m - 1])
<1>1. \A m \in 0..n :
        f[m] = IF m = 0 THEN gate
               ELSE CHOOSE next \in {DrainOnce(g) : g \in {f[m - 1]}} : TRUE
  BY DEF Rounds
<1>2. ASSUME NEW g0
      PROVE  (CHOOSE next \in {DrainOnce(g) : g \in {g0}} : TRUE) = DrainOnce(g0)
  OBVIOUS
<1>3. 0 \in 0..n
  OBVIOUS
<1> QED BY <1>1, <1>2, <1>3

LEMMA RoundsExist ==
  ASSUME NEW gate, NEW n \in Nat
  PROVE  \E f : Rounds(f, gate, n)
<1> DEFINE Good == {k \in Nat : \E f : Rounds(f, gate, k)}
<1>1. ASSUME NEW g0
      PROVE  (CHOOSE next \in {DrainOnce(g) : g \in {g0}} : TRUE) = DrainOnce(g0)
  OBVIOUS
<1>2. 0 \in Good
  <2> DEFINE f == [m \in 0..0 |-> gate]
  <2>1. f = [m \in 0..0 |-> IF m = 0 THEN gate
                            ELSE CHOOSE next \in {DrainOnce(g) : g \in {f[m - 1]}} : TRUE]
    OBVIOUS
  <2> HIDE DEF f
  <2>2. Rounds(f, gate, 0)
    BY <2>1 DEF Rounds
  <2> QED BY <2>2
<1>3. ASSUME NEW k \in Nat, k \in Good PROVE k + 1 \in Good
  <2>1. PICK f : Rounds(f, gate, k)
    BY <1>3
  <2>2. f[0] = gate /\ \A m \in 0..k : m # 0 => f[m] = DrainOnce(f[m - 1])
    BY <2>1, RoundsSteps
  <2> DEFINE h == [m \in 0..k + 1 |-> IF m <= k THEN f[m] ELSE DrainOnce(f[k])]
             e == [m \in 0..k + 1 |-> IF m = 0 THEN gate
                      ELSE CHOOSE next \in {DrainOnce(g) : g \in {h[m - 1]}} : TRUE]
  <2>3. ASSUME NEW m \in 0..k + 1 PROVE h[m] = e[m]
    <3>1. CASE m = 0
      BY <2>2, <3>1
    <3>2. CASE m # 0
      <4>1. m - 1 \in 0..k /\ m - 1 \in 0..k + 1 /\ m - 1 <= k
        BY <3>2
      <4>2. h[m - 1] = f[m - 1]
        BY <4>1
      <4>3. e[m] = DrainOnce(f[m - 1])
        BY <3>2, <4>2, <1>1
      <4>4. h[m] = DrainOnce(f[m - 1])
        <5>1. CASE m <= k
          BY <5>1, <3>2, <2>2
        <5>2. CASE ~(m <= k)
          <6>1. m - 1 = k
            BY <5>2, <4>1
          <6> QED BY <5>2, <6>1
        <5> QED BY <5>1, <5>2
      <4> QED BY <4>3, <4>4
    <3> QED BY <3>1, <3>2
  <2>4. h = e
    BY <2>3
  <2> HIDE DEF h
  <2>5. Rounds(h, gate, k + 1)
    BY <2>4 DEF Rounds
  <2> QED BY <2>5
<1> HIDE DEF Good
<1>4. Nat \subseteq Good
  BY <1>2, <1>3, NumbersInductive
<1> QED BY <1>4 DEF Good

\* The drain is as many rounds as there are waiters.
LEMMA DrainedIsRounds ==
  ASSUME NEW gate \in Gates
  PROVE  \E f : /\ f[0] = gate
                /\ \A m \in 0..Len(gate.queue) : m # 0 => f[m] = DrainOnce(f[m - 1])
                /\ Drained(gate) = f[Len(gate.queue)]
<1> DEFINE n == Len(gate.queue)
           f == CHOOSE f : f = [m \in 0..n |-> IF m = 0 THEN gate
                      ELSE CHOOSE next \in {DrainOnce(g) : g \in {f[m - 1]}} : TRUE]
<1>1. n \in Nat
  BY GateFields, LenProperties
<1>2. f = CHOOSE h : Rounds(h, gate, n)
  BY DEF Rounds
<1>3. Drained(gate) = f[n]
  BY DEF Drained
<1> HIDE DEF n, f
<1>4. Rounds(f, gate, n)
  BY <1>1, <1>2, RoundsExist
<1>5. f[0] = gate /\ \A m \in 0..n : m # 0 => f[m] = DrainOnce(f[m - 1])
  BY <1>1, <1>4, RoundsSteps
<1> QED BY <1>3, <1>5 DEF n

\* A drain keeps the gate sound and the order of a session, and ends when nobody
\* can be served any more.
LEMMA DrainKeeps ==
  ASSUME NEW gate, Whole(gate, sessionOf), aborted \in [Requests -> BOOLEAN]
  PROVE  /\ Whole(Drained(gate), sessionOf)
         /\ Grown(gate, Drained(gate))
         /\ Settled(Drained(gate))
         /\ \A r, q \in Requests : sessionOf[r] = sessionOf[q] /\ InTurn(gate, r, q) =>
              InTurn(Drained(gate), r, q)
<1> DEFINE n == Len(gate.queue)
           Kept(next) ==
             /\ Whole(next, sessionOf)
             /\ Grown(gate, next)
             /\ \A r, q \in Requests : sessionOf[r] = sessionOf[q] /\ InTurn(gate, r, q) =>
                  InTurn(next, r, q)
<1>0. gate \in Gates
  BY DEF Whole, Core
<1>1. n \in Nat
  BY <1>0, GateFields, LenProperties
<1>2. PICK f : /\ f[0] = gate
               /\ \A m \in 0..n : m # 0 => f[m] = DrainOnce(f[m - 1])
               /\ Drained(gate) = f[n]
  BY <1>0, DrainedIsRounds
<1> DEFINE Good == {m \in Nat : m <= n =>
                      Kept(f[m]) /\ (Settled(f[m]) \/ Len(f[m].queue) <= n - m)}
<1>3. 0 \in Good
  BY <1>1, <1>2 DEF Grown
<1>4. ASSUME NEW m \in Nat, m \in Good PROVE m + 1 \in Good
  <2> SUFFICES ASSUME m + 1 <= n
               PROVE  Kept(f[m + 1]) /\ (Settled(f[m + 1]) \/ Len(f[m + 1].queue) <= n - (m + 1))
    OBVIOUS
  <2>1. Kept(f[m]) /\ (Settled(f[m]) \/ Len(f[m].queue) <= n - m)
    BY <1>1, <1>4
  <2>2. m + 1 \in 0..n /\ m + 1 # 0 /\ (m + 1) - 1 = m
    BY <1>1
  <2>3. f[m + 1] = DrainOnce(f[m])
    BY <1>2, <2>2
  <2>4. /\ Whole(f[m + 1], sessionOf)
        /\ Grown(f[m], f[m + 1])
        /\ Settled(f[m]) => f[m + 1] = f[m]
        /\ ~Settled(f[m]) => Len(f[m + 1].queue) = Len(f[m].queue) - 1
        /\ \A r, q \in Requests : sessionOf[r] = sessionOf[q] /\ InTurn(f[m], r, q) =>
             InTurn(f[m + 1], r, q)
    BY <2>1, <2>3, RoundKeeps
  <2>5. Kept(f[m + 1])
    BY <2>1, <2>4 DEF Grown
  <2>6. Len(f[m].queue) \in Nat
    <3>1. f[m] \in Gates
      BY <2>1 DEF Whole, Core
    <3> QED BY <3>1, GateFields, LenProperties
  <2>7. CASE Settled(f[m])
    BY <2>4, <2>5, <2>7
  <2>8. CASE ~Settled(f[m])
    <3>1. Len(f[m].queue) <= n - m /\ Len(f[m + 1].queue) = Len(f[m].queue) - 1
      BY <2>1, <2>4, <2>8
    <3>2. Len(f[m + 1].queue) <= n - (m + 1)
      <4> HIDE DEF n, Kept
      <4> QED BY <1>1, <2>6, <3>1
    <3> QED BY <2>5, <3>2
  <2> QED BY <2>7, <2>8
<1> HIDE DEF Good
<1>5. Nat \subseteq Good
  BY <1>3, <1>4, NumbersInductive
<1>6. Kept(f[n]) /\ (Settled(f[n]) \/ Len(f[n].queue) <= n - n)
  BY <1>1, <1>5 DEF Good
<1>7. ASSUME Len(f[n].queue) <= n - n PROVE Settled(f[n])
  <2>1. f[n] \in Gates
    BY <1>6 DEF Whole, Core
  <2>2. Len(f[n].queue) \in Nat
    BY <2>1, GateFields, LenProperties
  <2>3. Len(f[n].queue) = 0
    BY <1>1, <1>7, <2>2
  <2> QED BY <2>3 DEF Settled, Eligible
<1> QED BY <1>2, <1>6, <1>7

-----------------------------------------------------------------------------
(* The actions.                                                             *)

\* The gate after a step.
LEMMA BecomesGate ==
  ASSUME NEW gate \in Gates, Becomes(gate)
  PROVE  Gate' = gate
  BY DEF Becomes, Gate, Gates

LEMMA GateOfState ==
  /\ Gate.phase = phase /\ Gate.held = held /\ Gate.queue = bootstrapQueue
  /\ Gate.count = activeBootstrap /\ Gate.sessions = bootstrapSessions
  /\ Gate.active = active
  BY DEF Gate

\* A request that no state object bears may choose its session.
LEMMA SessionChosen ==
  ASSUME NEW gate, NEW so, Whole(gate, so), NEW r \in Requests, gate.phase[r] = "idle",
         NEW s \in GateSessions \cup {NoSession}
  PROVE  Core(gate, [so EXCEPT ![r] = s])
<1> DEFINE new == [so EXCEPT ![r] = s]
<1>0. /\ gate \in Gates /\ so \in [Requests -> GateSessions \cup {NoSession}]
      /\ Core(gate, so) /\ Fresh(gate)
  BY DEF Whole, Core
<1>1. /\ new \in [Requests -> GateSessions \cup {NoSession}]
      /\ \A q \in Requests : q # r => new[q] = so[q]
  BY <1>0
<1> HIDE DEF new
<1>2. \A q \in Readers(gate) : new[q] = so[q]
  BY <1>1 DEF Readers
<1>3. Holding(gate, new)
  BY <1>0, <1>2 DEF Core, Holding
<1>4. Alone(gate, new)
  BY <1>0, <1>2 DEF Core, Alone
<1>5. Awake(gate, new)
  BY <1>0, <1>2 DEF Core, Awake
<1>6. Owned(gate, new)
  <2> SUFFICES ASSUME NEW t \in GateSessions, gate.sessions[t] # NoState
               PROVE  new[gate.sessions[t]] = t
    BY DEF Owned
  <2>1. gate.sessions[t] \in Requests /\ so[gate.sessions[t]] = t
    BY <1>0, GateFields DEF Core, Owned
  <2>2. gate.sessions[t] # r
    BY <1>0 DEF Fresh
  <2> QED BY <1>1, <2>1, <2>2
<1>7. Core(gate, new)
  BY <1>0, <1>1, <1>3, <1>4, <1>5, <1>6 DEF Core
<1> QED BY <1>7 DEF new

\* A request that comes in stands at the end of the queue, or not in it.
LEMMA ComesIn ==
  ASSUME NEW gate \in Gates, Queued(gate), Fresh(gate), NEW other,
         NEW r \in Requests, gate.phase[r] = "idle",
         NEW p \in {"waiting", "reading", "rejected"}, other.phase[r] = p,
         \A q \in Requests : q # r => other.phase[q] = gate.phase[q],
         \A t \in GateSessions : other.sessions[t] \in {gate.sessions[t], r},
         other.queue = IF p = "waiting" THEN Append(gate.queue, r) ELSE gate.queue
  PROVE  Queued(other) /\ Fresh(other)
<1>1. gate.queue \in Seq(Requests) /\ Len(gate.queue) \in Nat
  BY GateFields, LenProperties
<1>2. \A i \in 1..Len(gate.queue) : gate.queue[i] \in Requests /\ gate.queue[i] # r
  BY <1>1, ElementOfSeq DEF Queued
<1>3. Fresh(other)
  BY DEF Fresh
<1>4. CASE p # "waiting"
  <2>1. other.queue = gate.queue
    BY <1>4
  <2> QED BY <1>2, <1>3, <1>4, <2>1 DEF Queued
<1>5. CASE p = "waiting"
  <2>1. /\ Len(other.queue) = Len(gate.queue) + 1
        /\ other.queue[Len(gate.queue) + 1] = r
        /\ \A i \in 1..Len(gate.queue) : other.queue[i] = gate.queue[i]
    BY <1>1, <1>5
  <2>2. \A i \in 1..Len(other.queue) :
          i \in 1..Len(gate.queue) \/ i = Len(gate.queue) + 1
    BY <1>1, <2>1
  <2>3. \A i \in 1..Len(gate.queue) : i \in 1..Len(other.queue)
    BY <1>1, <2>1
  <2>4. Len(gate.queue) + 1 \in 1..Len(other.queue)
    BY <1>1, <2>1
  <2>5. \A i \in 1..Len(other.queue) : other.phase[other.queue[i]] = "waiting"
    BY <1>2, <1>5, <2>1, <2>2 DEF Queued
  <2>6. ASSUME NEW i \in 1..Len(other.queue), NEW j \in 1..Len(other.queue),
               other.queue[i] = other.queue[j]
        PROVE  i = j
    <3>1. CASE i \in 1..Len(gate.queue) /\ j \in 1..Len(gate.queue)
      BY <2>1, <2>6, <3>1 DEF Queued
    <3>2. CASE i = Len(gate.queue) + 1 /\ j \in 1..Len(gate.queue)
      BY <1>2, <2>1, <2>6, <3>2
    <3>3. CASE j = Len(gate.queue) + 1 /\ i \in 1..Len(gate.queue)
      BY <1>2, <2>1, <2>6, <3>3
    <3>4. CASE i = Len(gate.queue) + 1 /\ j = Len(gate.queue) + 1
      BY <3>4
    <3> QED BY <2>2, <3>1, <3>2, <3>3, <3>4
  <2>7. ASSUME NEW q \in Requests, other.phase[q] = "waiting"
        PROVE  \E i \in 1..Len(other.queue) : other.queue[i] = q
    <3>1. CASE q = r
      BY <2>1, <2>4, <3>1
    <3>2. CASE q # r
      <4>1. PICK i \in 1..Len(gate.queue) : gate.queue[i] = q
        BY <2>7, <3>2 DEF Queued
      <4> QED BY <4>1, <2>1, <2>3
    <3> QED BY <3>1, <3>2
  <2>8. Queued(other)
    BY <2>5, <2>6, <2>7 DEF Queued
  <2> QED BY <1>3, <2>8
<1> QED BY <1>4, <1>5

\* A request whose signal is aborted already.
LEMMA TurnedAway ==
  ASSUME GateIInv, NEW r \in Requests, NEW s \in GateSessions \cup {NoSession},
         Acquire(r, s), aborted[r]
  PROVE  GateIInv'
<1> DEFINE new == [sessionOf EXCEPT ![r] = s]
           other == [Gate EXCEPT !.phase[r] = "rejected"]
<1>1. /\ Gate \in Gates /\ Core(Gate, sessionOf) /\ Queued(Gate) /\ Fresh(Gate)
      /\ Whole(Gate, sessionOf) /\ Conserving(Gate, sessionOf)
      /\ sessionOf \in [Requests -> GateSessions \cup {NoSession}]
  BY DEF GateIInv, Whole, Core
<1>2. sessionOf' = new /\ Becomes(other) /\ aborted' = aborted /\ Gate.phase[r] = "idle"
  BY GateOfState DEF Acquire
<1>3. Core(Gate, new)
  BY <1>1, <1>2, SessionChosen
<1>4. /\ other.held = Gate.held /\ other.queue = Gate.queue /\ other.count = Gate.count
      /\ other.sessions = Gate.sessions /\ other.active = Gate.active
      /\ other.phase = [Gate.phase EXCEPT ![r] = "rejected"]
  BY <1>1 DEF Gates
<1>5. other \in Gates
  <2> DEFINE phases == [Gate.phase EXCEPT ![r] = "rejected"]
  <2>1. phases \in [Requests -> {"idle", "waiting", "reading", "rejected", "done"}]
    BY <1>1, GateFields
  <2>2. other = [Gate EXCEPT !.phase = phases]
    BY <1>1 DEF Gates
  <2> HIDE DEF phases, other
  <2> QED BY <1>1, <2>1, <2>2 DEF Gates
<1> HIDE DEF other
<1>6. /\ other.phase[r] = "rejected"
      /\ \A q \in Requests : q # r => other.phase[q] = Gate.phase[q]
  BY <1>1, <1>4, GateFields
<1>7. Readers(other) = Readers(Gate)
  BY <1>2, <1>6 DEF Readers
<1> HIDE DEF new
<1>8. Core(other, new) /\ \A t : Busy(other, t) <=> Busy(Gate, t)
  BY <1>3, <1>4, <1>5, <1>7, CoreAlike
<1>9. Queued(other) /\ Fresh(other)
  BY <1>1, <1>2, <1>4, <1>6, ComesIn
<1>10. Conserving(other, new)
  <2>1. \A i \in 1..Len(Gate.queue) : new[Gate.queue[i]] = sessionOf[Gate.queue[i]]
    <3>1. \A i \in 1..Len(Gate.queue) : Gate.queue[i] \in Requests /\ Gate.queue[i] # r
      BY <1>1, <1>2, GateFields, ElementOfSeq DEF Queued
    <3> QED BY <1>1, <3>1 DEF new
  <2> QED BY <1>1, <1>4, <1>8, <2>1 DEF Conserving
<1>11. Gate' = other
  BY <1>2, <1>5, BecomesGate
<1> QED BY <1>1, <1>2, <1>8, <1>9, <1>10, <1>11 DEF GateIInv, Whole

\* A request with a live signal, which is granted at once or waits.
LEMMA LetIn ==
  ASSUME GateIInv, NEW r \in Requests, NEW s \in GateSessions \cup {NoSession},
         Acquire(r, s), ~aborted[r]
  PROVE  GateIInv'
<1> DEFINE new == [sessionOf EXCEPT ![r] = s]
           made == WithState(Gate, r, s)
<1>1. /\ Gate \in Gates /\ Core(Gate, sessionOf) /\ Queued(Gate) /\ Fresh(Gate)
      /\ Whole(Gate, sessionOf) /\ Conserving(Gate, sessionOf)
      /\ sessionOf \in [Requests -> GateSessions \cup {NoSession}]
  BY DEF GateIInv, Whole, Core
<1>2. sessionOf' = new /\ aborted' = aborted /\ Gate.phase[r] = "idle"
  BY GateOfState DEF Acquire
<1>3. IF AtOnce(made, s) THEN Becomes(Granted(made, r, s))
      ELSE Becomes([made EXCEPT !.phase[r] = "waiting", !.queue = Append(@, r)])
  BY DEF Acquire
<1>4. Core(Gate, new)
  BY <1>1, <1>2, SessionChosen
<1>5. new[r] = s /\ \A q \in Requests : q # r => new[q] = sessionOf[q]
  BY <1>1
<1>6. r \notin Readers(Gate)
  BY <1>2 DEF Readers
<1> HIDE DEF new, made
<1>7. /\ Core(made, new)
      /\ made.phase = Gate.phase /\ made.held = Gate.held
      /\ made.queue = Gate.queue /\ made.count = Gate.count
      /\ \A t \in GateSessions : made.sessions[t] \in {Gate.sessions[t], r}
      /\ s # NoSession => made.sessions[s] # NoState
      /\ \A t \in GateSessions : Busy(made, t) <=> Busy(Gate, t)
  BY <1>4, <1>5, <1>6, ObjectMade DEF made
<1>8. made \in Gates /\ r \notin Readers(made)
  BY <1>6, <1>7 DEF Core, Readers
<1>9. /\ Gate.queue \in Seq(Requests) /\ Len(Gate.queue) \in Nat
      /\ \A i \in 1..Len(Gate.queue) : Gate.queue[i] \in Requests /\ Gate.queue[i] # r
  BY <1>1, <1>2, GateFields, LenProperties, ElementOfSeq DEF Queued
<1>10. \A i \in 1..Len(Gate.queue) : new[Gate.queue[i]] = sessionOf[Gate.queue[i]]
  BY <1>5, <1>9
<1>11. ASSUME NEW i \in 1..Len(Gate.queue), Gate.count < BackgroundBootstrapLimit
       PROVE  Busy(made, new[Gate.queue[i]]) /\ new[Gate.queue[i]] \in GateSessions
  <2>1. Busy(Gate, new[Gate.queue[i]])
    BY <1>1, <1>10, <1>11 DEF Conserving
  <2>2. new[Gate.queue[i]] \in GateSessions \cup {NoSession}
    BY <1>1, <1>9, <1>10
  <2>3. new[Gate.queue[i]] # NoSession
    BY <2>1 DEF Busy, StateOf
  <2> QED BY <1>7, <2>1, <2>2, <2>3
<1>12. CASE AtOnce(made, s)
  <2> DEFINE given == Granted(made, r, s)
  <2>1. ~Busy(made, s) /\ made.count < BackgroundBootstrapLimit
    BY <1>12 DEF AtOnce
  <2>2. /\ Core(given, new)
        /\ given.phase = [made.phase EXCEPT ![r] = "reading"]
        /\ given.queue = made.queue
        /\ given.sessions = made.sessions
        /\ given.count = made.count + 1
        /\ \A t \in GateSessions : Busy(made, t) => Busy(given, t)
    BY <1>5, <1>7, <1>8, <2>1, GrantKeeps
  <2>3. Becomes(given)
    BY <1>3, <1>12
  <2> HIDE DEF given
  <2>4. /\ given.phase[r] = "reading"
        /\ \A q \in Requests : q # r => given.phase[q] = Gate.phase[q]
    BY <1>1, <1>7, <2>2, GateFields
  <2>5. Queued(given) /\ Fresh(given)
    BY <1>1, <1>2, <1>7, <2>2, <2>4, ComesIn
  <2>6. Conserving(given, new)
    <3>1. Gate.count \in Nat /\ given.count = Gate.count + 1
      BY <1>1, <1>7, <2>2, GateFields
    <3>2. given.count < BackgroundBootstrapLimit => Gate.count < BackgroundBootstrapLimit
      BY <3>1, GateConstants
    <3> QED BY <1>7, <1>11, <2>2, <3>2 DEF Conserving
  <2>7. Gate' = given
    BY <2>2, <2>3, BecomesGate DEF Core
  <2> QED BY <1>1, <1>2, <2>2, <2>5, <2>6, <2>7 DEF GateIInv, Whole
<1>13. CASE ~AtOnce(made, s)
  <2> DEFINE other == [made EXCEPT !.phase[r] = "waiting", !.queue = Append(@, r)]
             queue == Append(Gate.queue, r)
  <2>1. Becomes(other)
    BY <1>3, <1>13
  <2>2. /\ other.held = made.held /\ other.count = made.count
        /\ other.sessions = made.sessions /\ other.active = made.active
        /\ other.phase = [Gate.phase EXCEPT ![r] = "waiting"]
        /\ other.queue = queue
    BY <1>7, <1>8 DEF Gates
  <2>3. queue \in Seq(Requests)
    BY <1>9
  <2>4. other \in Gates
    <3> DEFINE phases == [Gate.phase EXCEPT ![r] = "waiting"]
    <3>1. phases \in [Requests -> {"idle", "waiting", "reading", "rejected", "done"}]
      BY <1>1, GateFields
    <3>2. other = [made EXCEPT !.phase = phases, !.queue = queue]
      BY <1>7, <1>8 DEF Gates
    <3> HIDE DEF phases, other, queue
    <3> QED BY <1>8, <2>3, <3>1, <3>2 DEF Gates
  <2> HIDE DEF other
  <2>5. /\ other.phase[r] = "waiting"
        /\ \A q \in Requests : q # r => other.phase[q] = Gate.phase[q]
    BY <1>1, <2>2, GateFields
  <2>6. Readers(other) = Readers(made)
    BY <1>2, <1>7, <2>5 DEF Readers
  <2>7. Core(other, new) /\ \A t : Busy(other, t) <=> Busy(made, t)
    BY <1>7, <2>2, <2>4, <2>6, CoreAlike
  <2>8. Queued(other) /\ Fresh(other)
    BY <1>1, <1>2, <1>7, <2>2, <2>5, ComesIn
  <2>9. Conserving(other, new)
    <3> SUFFICES ASSUME other.count < BackgroundBootstrapLimit,
                        NEW i \in 1..Len(other.queue)
                 PROVE  Busy(other, new[other.queue[i]])
      BY DEF Conserving
    <3>1. Gate.count < BackgroundBootstrapLimit
      BY <1>7, <2>2
    <3>2. CASE i \in 1..Len(Gate.queue)
      <4>1. other.queue[i] = Gate.queue[i]
        BY <3>2, <1>9, <2>2
      <4> QED BY <3>1, <3>2, <4>1, <1>11, <2>7
    <3>3. CASE i = Len(Gate.queue) + 1
      <4>1. other.queue[i] = r
        BY <3>3, <1>9, <2>2
      <4>2. Busy(made, s)
        BY <3>1, <1>7, <1>13 DEF AtOnce
      <4> QED BY <4>1, <4>2, <1>5, <2>7
    <3>4. Len(other.queue) = Len(Gate.queue) + 1
      BY <1>9, <2>2
    <3> QED BY <3>2, <3>3, <3>4, <1>9
  <2>10. Gate' = other
    BY <2>1, <2>4, BecomesGate
  <2> QED BY <1>1, <1>2, <2>7, <2>8, <2>9, <2>10 DEF GateIInv, Whole
<1> QED BY <1>12, <1>13

\* A waiter whose signal is aborted leaves the queue.
LEMMA OnAbortKeeps ==
  ASSUME GateIInv, NEW r \in Requests, OnAbort(r)
  PROVE  GateIInv'
<1> DEFINE other == LeftQueue(r)
           i == First(Places(r))
<1>1. /\ Gate \in Gates /\ Core(Gate, sessionOf) /\ Queued(Gate) /\ Fresh(Gate)
      /\ Conserving(Gate, sessionOf)
      /\ sessionOf \in [Requests -> GateSessions \cup {NoSession}]
  BY DEF GateIInv, Whole, Core
<1>2. /\ Becomes(other) /\ sessionOf' = sessionOf /\ aborted' = aborted
      /\ Gate.phase[r] = "waiting"
  BY GateOfState DEF OnAbort
<1>3. Gate.queue \in Seq(Requests) /\ Len(Gate.queue) \in Nat
  BY <1>1, GateFields, LenProperties
<1>4. Places(r) \in SUBSET Nat /\ Places(r) # {}
  <2>1. \E j \in 1..Len(Gate.queue) : Gate.queue[j] = r
    BY <1>1, <1>2 DEF Queued
  <2> QED BY <1>3, <2>1, GateOfState DEF Places
<1>5. i \in Places(r)
  BY <1>4, FirstIsLeast
<1>6. i \in 1..Len(Gate.queue) /\ Gate.queue[i] = r
  BY <1>5, GateOfState DEF Places
<1> DEFINE phases == [Gate.phase EXCEPT ![r] = "rejected"]
           queue == Without(Gate.queue, i)
<1>7. other = [Gate EXCEPT !.phase = phases, !.queue = queue]
  BY <1>1, <1>4 DEF LeftQueue, Gates
<1>8. phases \in [Requests -> {"idle", "waiting", "reading", "rejected", "done"}]
  BY <1>1, GateFields
<1>9. /\ phases[r] = "rejected"
      /\ \A q \in Requests : q # r => phases[q] = Gate.phase[q]
  BY <1>1, GateFields
<1> HIDE DEF i, other, phases
<1>10. queue \in Seq(Requests)
  BY <1>3, <1>6, SplicedQueue
<1> HIDE DEF queue
<1>11. /\ other \in Gates
       /\ other.phase = phases /\ other.queue = queue /\ other.held = Gate.held
       /\ other.count = Gate.count /\ other.sessions = Gate.sessions
       /\ other.active = Gate.active
  BY <1>1, <1>7, <1>8, <1>10 DEF Gates
<1>12. Readers(other) = Readers(Gate)
  BY <1>2, <1>9, <1>11 DEF Readers
<1>13. Core(other, sessionOf) /\ \A t : Busy(other, t) <=> Busy(Gate, t)
  BY <1>1, <1>11, <1>12, CoreAlike
<1>14. /\ Queued(other)
       /\ \A j \in 1..Len(other.queue) : \E k \in 1..Len(Gate.queue) :
            other.queue[j] = Gate.queue[k]
  <2>1. other.phase[Gate.queue[i]] = "rejected" /\ other.queue = Without(Gate.queue, i)
    BY <1>6, <1>9, <1>11 DEF queue
  <2>2. \A q \in Requests : q # Gate.queue[i] => other.phase[q] = Gate.phase[q]
    BY <1>6, <1>9, <1>11
  <2> QED BY <1>1, <1>6, <2>1, <2>2, LeftInOrder
<1>15. Fresh(other)
  BY <1>1, <1>9, <1>11 DEF Fresh
<1>16. Conserving(other, sessionOf)
  BY <1>1, <1>11, <1>13, <1>14 DEF Conserving
<1>17. Gate' = other
  BY <1>2, <1>11, BecomesGate
<1> QED BY <1>2, <1>13, <1>14, <1>15, <1>16, <1>17 DEF GateIInv, Whole

\* The gate that a release hands to the drain.
Freed(r) ==
  [Gate EXCEPT !.phase[r] = "done",
               !.active = IF held[r] = NoState THEN active ELSE [active EXCEPT ![held[r]] = FALSE],
               !.count = IF @ > 0 THEN @ - 1 ELSE 0]

LEMMA FreedSound ==
  ASSUME GateIInv, NEW r \in Requests, phase[r] = "reading"
  PROVE  /\ Whole(Freed(r), sessionOf)
         /\ Freed(r).sessions = Gate.sessions
         /\ Freed(r).queue = Gate.queue
         /\ Freed(r).phase[r] = "done"
         /\ \A q \in Requests : q # r => Freed(r).phase[q] = Gate.phase[q]
<1> DEFINE freed == Freed(r)
           phases == [Gate.phase EXCEPT ![r] = "done"]
           marks == IF Gate.held[r] = NoState THEN Gate.active
                    ELSE [Gate.active EXCEPT ![Gate.held[r]] = FALSE]
           count == IF Gate.count > 0 THEN Gate.count - 1 ELSE 0
           so == sessionOf
<1>1. /\ Gate \in Gates /\ Core(Gate, so) /\ Queued(Gate) /\ Fresh(Gate)
      /\ so \in [Requests -> GateSessions \cup {NoSession}]
  BY DEF GateIInv, Whole, Core
<1>2. r \in Readers(Gate) /\ Gate.phase[r] = "reading" /\ Gate.held[r] \in Requests \cup {NoState}
  BY <1>1, GateOfState, GateFields DEF Readers
<1>3. /\ phases \in [Requests -> {"idle", "waiting", "reading", "rejected", "done"}]
      /\ phases[r] = "done"
      /\ \A q \in Requests : q # r => phases[q] = Gate.phase[q]
  BY <1>1, GateFields
<1>4. /\ marks \in [Requests -> BOOLEAN]
      /\ Gate.held[r] # NoState => ~marks[Gate.held[r]]
      /\ \A o \in Requests : o # Gate.held[r] => marks[o] = Gate.active[o]
  BY <1>1, <1>2, GateFields
<1>5. IsFiniteSet(Readers(Gate)) /\ Gate.count = Cardinality(Readers(Gate))
      /\ Gate.count <= BackgroundBootstrapLimit
  BY <1>1 DEF Core, Counted
<1>6. count \in Nat /\ count = Cardinality(Readers(Gate) \ {r})
      /\ IsFiniteSet(Readers(Gate) \ {r}) /\ count <= BackgroundBootstrapLimit
  <2>1. /\ IsFiniteSet(Readers(Gate) \ {r})
        /\ Cardinality(Readers(Gate) \ {r}) = Cardinality(Readers(Gate)) - 1
    BY <1>2, <1>5, FS_RemoveElement
  <2>2. Cardinality(Readers(Gate)) \in Nat /\ Cardinality(Readers(Gate) \ {r}) \in Nat
    BY <1>5, <2>1, FS_CardinalityType
  <2> QED BY <1>5, <2>1, <2>2, GateConstants
<1>7. freed = [Gate EXCEPT !.phase = phases, !.active = marks, !.count = count]
  BY <1>1, GateOfState DEF Freed, Gates
<1> HIDE DEF freed, phases, marks, count, so
<1>8. /\ freed \in Gates
      /\ freed.phase = phases /\ freed.active = marks /\ freed.count = count
      /\ freed.held = Gate.held /\ freed.queue = Gate.queue
      /\ freed.sessions = Gate.sessions
  BY <1>1, <1>3, <1>4, <1>6, <1>7 DEF Gates
<1>9. Readers(freed) = Readers(Gate) \ {r}
  BY <1>3, <1>8 DEF Readers
<1>10. Counted(freed)
  BY <1>6, <1>8, <1>9 DEF Counted
\* A state object is one session's, and the session has no other reader.
<1>11. ASSUME NEW t \in GateSessions, Gate.held[r] # NoState,
              Gate.sessions[t] = Gate.held[r]
       PROVE  so[r] = t
  <2>1. so[r] # NoSession /\ Gate.held[r] = Gate.sessions[so[r]]
    BY <1>1, <1>2, <1>11 DEF Core, Holding
  <2>2. so[r] \in GateSessions
    BY <1>1, <2>1
  <2> QED BY <1>1, <1>11, <2>1, <2>2 DEF Core, Owned
<1>12. Holding(freed, so)
  <2> SUFFICES ASSUME NEW x \in Readers(freed)
               PROVE  IF so[x] = NoSession THEN freed.held[x] = NoState
                      ELSE /\ freed.held[x] # NoState
                           /\ freed.held[x] = freed.sessions[so[x]]
                           /\ freed.active[freed.held[x]]
    BY DEF Holding
  <2>1. x \in Readers(Gate) /\ x # r /\ x \in Requests
    BY <1>9 DEF Readers
  <2>2. IF so[x] = NoSession THEN Gate.held[x] = NoState
        ELSE /\ Gate.held[x] # NoState
             /\ Gate.held[x] = Gate.sessions[so[x]]
             /\ Gate.active[Gate.held[x]]
    BY <1>1, <2>1 DEF Core, Holding
  <2>3. CASE so[x] = NoSession
    BY <2>2, <2>3, <1>8
  <2>4. CASE so[x] # NoSession
    <3>1. so[x] \in GateSessions /\ Gate.held[x] \in Requests \cup {NoState}
      BY <1>1, <2>1, <2>4, GateFields
    <3>2. Gate.held[x] # Gate.held[r]
      BY <1>1, <1>2, <1>11, <2>1, <2>2, <2>4, <3>1 DEF Core, Alone
    <3> QED BY <2>2, <2>4, <3>1, <3>2, <1>4, <1>8
  <2> QED BY <2>3, <2>4
<1>13. Alone(freed, so)
  BY <1>1, <1>9 DEF Core, Alone
<1>14. Awake(freed, so)
  <2> SUFFICES ASSUME NEW t \in GateSessions, Busy(freed, t)
               PROVE  \E q \in Readers(freed) : so[q] = t
    BY DEF Awake
  <2>1. t # NoSession
    BY GateConstants
  <2>2. Gate.sessions[t] \in Requests /\ marks[Gate.sessions[t]]
    BY <2>1, <1>1, <1>8, GateFields DEF Busy, StateOf
  <2>3. Gate.sessions[t] # Gate.held[r]
    BY <2>2, <1>4, GateConstants
  <2>4. Busy(Gate, t)
    BY <2>1, <2>2, <2>3, <1>4, GateConstants DEF Busy, StateOf
  <2>5. PICK q \in Readers(Gate) : so[q] = t
    BY <1>1, <2>4 DEF Core, Awake
  <2>6. q # r
    BY <1>1, <1>2, <2>1, <2>3, <2>5 DEF Core, Holding
  <2> QED BY <1>9, <2>5, <2>6
<1>15. Owned(freed, so)
  BY <1>1, <1>8 DEF Core, Owned
<1>16. Core(freed, so)
  BY <1>1, <1>8, <1>10, <1>12, <1>13, <1>14, <1>15 DEF Core
<1>17. \A i \in 1..Len(Gate.queue) : Gate.queue[i] \in Requests /\ Gate.queue[i] # r
  BY <1>1, <1>2, GateFields, ElementOfSeq DEF Queued
<1>18. Queued(freed)
  BY <1>1, <1>2, <1>3, <1>8, <1>17 DEF Queued
<1>19. Fresh(freed)
  BY <1>1, <1>3, <1>8 DEF Fresh
<1> QED BY <1>3, <1>8, <1>16, <1>18, <1>19 DEF Whole, freed, so

\* Forgetting the state of a session that nobody reads or waits for.
LEMMA ForgottenKeeps ==
  ASSUME NEW gate, Whole(gate, sessionOf), Conserving(gate, sessionOf), NEW r \in Requests,
         held[r] # NoState => sessionOf[r] \in GateSessions /\ gate.sessions[sessionOf[r]] = held[r]
  PROVE  /\ Whole(Forgotten(gate, r), sessionOf)
         /\ Conserving(Forgotten(gate, r), sessionOf)
         /\ Forgotten(gate, r).phase = gate.phase
<1> DEFINE s == sessionOf[r]
           objects == [gate.sessions EXCEPT ![s] = NoState]
           kept == Forgotten(gate, r)
<1>1. /\ gate \in Gates /\ Core(gate, sessionOf) /\ Queued(gate) /\ Fresh(gate)
      /\ sessionOf \in [Requests -> GateSessions \cup {NoSession}]
  BY DEF Whole, Core
<1>2. CASE held[r] # NoState /\ ~gate.active[held[r]]
           /\ \A i \in 1..Len(gate.queue) : sessionOf[gate.queue[i]] # s
  <2>1. s \in GateSessions /\ gate.sessions[s] = held[r] /\ ~gate.active[gate.sessions[s]]
    BY <1>2
  <2>2. kept = [gate EXCEPT !.sessions = objects]
    BY <1>1, <1>2 DEF Forgotten, Gates
  <2>3. /\ objects \in [GateSessions -> Requests \cup {NoState}]
        /\ objects[s] = NoState
        /\ \A t \in GateSessions : t # s => objects[t] = gate.sessions[t]
    BY <1>1, <2>1, GateFields
  <2> HIDE DEF objects, kept
  <2>4. /\ kept \in Gates
        /\ kept.phase = gate.phase /\ kept.held = gate.held /\ kept.queue = gate.queue
        /\ kept.count = gate.count /\ kept.active = gate.active
        /\ kept.sessions = objects
    BY <1>1, <2>2, <2>3 DEF Gates
  <2> HIDE DEF s
  <2>5. Readers(kept) = Readers(gate)
    BY <2>4 DEF Readers
  <2>6. \A x \in Readers(gate) : sessionOf[x] # NoSession =>
          /\ gate.held[x] # NoState
          /\ gate.held[x] = gate.sessions[sessionOf[x]]
          /\ gate.active[gate.held[x]]
    BY <1>1 DEF Core, Holding
  <2>7. \A x \in Readers(gate) : sessionOf[x] # NoSession =>
          sessionOf[x] \in GateSessions /\ sessionOf[x] # s
    BY <1>1, <2>1, <2>6 DEF Readers
  <2>8. Holding(kept, sessionOf)
    BY <1>1, <2>3, <2>4, <2>5, <2>7 DEF Core, Holding
  <2>9. \A t \in GateSessions : t # s => (Busy(kept, t) <=> Busy(gate, t))
    BY <2>3, <2>4, GateConstants DEF Busy, StateOf
  <2>10. ~Busy(kept, s)
    BY <2>1, <2>3, <2>4 DEF Busy, StateOf
  <2>11. Awake(kept, sessionOf)
    BY <1>1, <2>5, <2>9, <2>10 DEF Core, Awake
  <2>12. Owned(kept, sessionOf)
    BY <1>1, <2>3, <2>4 DEF Core, Owned
  <2>13. Counted(kept) /\ Alone(kept, sessionOf)
    BY <1>1, <2>4, <2>5 DEF Core, Counted, Alone
  <2>14. Core(kept, sessionOf)
    BY <1>1, <2>4, <2>8, <2>11, <2>12, <2>13 DEF Core
  <2>15. Queued(kept)
    BY <1>1, <2>4 DEF Queued
  <2>16. Fresh(kept)
    BY <1>1, <2>3, <2>4, GateConstants DEF Fresh
  <2>17. Conserving(kept, sessionOf)
    <3> SUFFICES ASSUME kept.count < BackgroundBootstrapLimit, NEW i \in 1..Len(kept.queue)
                 PROVE  Busy(kept, sessionOf[kept.queue[i]])
      BY DEF Conserving
    <3>1. Busy(gate, sessionOf[gate.queue[i]])
      BY <2>4 DEF Conserving
    <3>2. gate.queue[i] \in Requests
      BY <1>1, <2>4, GateFields, ElementOfSeq
    <3>3. sessionOf[gate.queue[i]] \in GateSessions
      BY <1>1, <3>1, <3>2 DEF Busy, StateOf
    <3>4. sessionOf[gate.queue[i]] # s
      BY <1>2, <2>4 DEF s
    <3> QED BY <2>4, <2>9, <3>1, <3>3, <3>4
  <2> QED BY <2>4, <2>14, <2>15, <2>16, <2>17 DEF Whole, kept
<1>3. CASE ~(/\ held[r] # NoState /\ ~gate.active[held[r]]
             /\ \A i \in 1..Len(gate.queue) : sessionOf[gate.queue[i]] # s)
  <2>1. kept = gate
    BY <1>3 DEF Forgotten
  <2> QED BY <2>1
<1> QED BY <1>2, <1>3

\* A release frees its place and its session, serves whoever can be served, and
\* forgets a session that nobody reads or waits for.
LEMMA ReleaseKeeps ==
  ASSUME GateIInv, NEW r \in Requests, Release(r)
  PROVE  /\ GateIInv'
         /\ \A x, y \in Requests : sessionOf[x] = sessionOf[y] /\ InTurn(Freed(r), x, y) =>
              InTurn(Drained(Freed(r)), x, y)
         /\ Gate'.phase = Drained(Freed(r)).phase
         /\ phase[r] = "reading"
<1>1. /\ phase[r] = "reading" /\ sessionOf' = sessionOf /\ aborted' = aborted
      /\ Becomes(Forgotten(Drained(Freed(r)), r))
  BY DEF Release, Freed
<1>2. Whole(Freed(r), sessionOf) /\ Freed(r).sessions = Gate.sessions
  BY <1>1, FreedSound
<1>3. /\ Whole(Drained(Freed(r)), sessionOf)
      /\ Grown(Freed(r), Drained(Freed(r)))
      /\ Settled(Drained(Freed(r)))
      /\ \A x, y \in Requests : sessionOf[x] = sessionOf[y] /\ InTurn(Freed(r), x, y) =>
           InTurn(Drained(Freed(r)), x, y)
  BY <1>2, DrainKeeps DEF GateIInv
<1>4. Conserving(Drained(Freed(r)), sessionOf)
  BY <1>3, SettledConserves DEF Whole, Core
<1>5. ASSUME held[r] # NoState
      PROVE  /\ sessionOf[r] \in GateSessions
             /\ Drained(Freed(r)).sessions[sessionOf[r]] = held[r]
  <2>1. r \in Readers(Gate) /\ Gate.held[r] = held[r]
    BY <1>1, GateOfState DEF Readers
  <2>2. sessionOf[r] # NoSession /\ held[r] = Gate.sessions[sessionOf[r]]
    BY <1>5, <2>1 DEF GateIInv, Whole, Core, Holding
  <2>3. sessionOf[r] \in GateSessions
    BY <2>2 DEF GateIInv, Whole, Core
  <2> QED BY <1>2, <1>3, <1>5, <2>2, <2>3 DEF Grown
<1>6. /\ Whole(Forgotten(Drained(Freed(r)), r), sessionOf)
      /\ Conserving(Forgotten(Drained(Freed(r)), r), sessionOf)
      /\ Forgotten(Drained(Freed(r)), r).phase = Drained(Freed(r)).phase
  BY <1>3, <1>4, <1>5, ForgottenKeeps
<1>7. Gate' = Forgotten(Drained(Freed(r)), r)
  BY <1>1, <1>6, BecomesGate DEF Whole, Core
<1> QED BY <1>1, <1>3, <1>6, <1>7 DEF GateIInv

\* The service stops: nobody waits any more, and the reads go on.
LEMMA DisposeKeeps ==
  ASSUME GateIInv, Dispose
  PROVE  GateIInv'
<1> DEFINE phases == [r \in Requests |->
                        IF Gate.phase[r] = "waiting" THEN "rejected" ELSE Gate.phase[r]]
           other == [Gate EXCEPT !.queue = <<>>, !.phase = phases]
<1>1. /\ Gate \in Gates /\ Core(Gate, sessionOf) /\ Queued(Gate) /\ Fresh(Gate)
  BY DEF GateIInv, Whole, Core
<1>2. Becomes(other) /\ sessionOf' = sessionOf /\ aborted' = aborted
  BY GateOfState DEF Dispose
<1>3. phases \in [Requests -> {"idle", "waiting", "reading", "rejected", "done"}]
  BY <1>1, GateFields
<1>4. \A r \in Requests : phases[r] = IF Gate.phase[r] = "waiting" THEN "rejected" ELSE Gate.phase[r]
  OBVIOUS
<1>5. <<>> \in Seq(Requests)
  BY EmptySeq
<1> HIDE DEF phases
<1>6. /\ other \in Gates
      /\ other.phase = phases /\ other.queue = <<>> /\ other.held = Gate.held
      /\ other.count = Gate.count /\ other.sessions = Gate.sessions
      /\ other.active = Gate.active
  BY <1>1, <1>3, <1>5 DEF Gates
<1> HIDE DEF other
<1>7. Readers(other) = Readers(Gate)
  BY <1>4, <1>6 DEF Readers
<1>8. Core(other, sessionOf)
  BY <1>1, <1>6, <1>7, CoreAlike
<1>9. Queued(other) /\ Conserving(other, sessionOf)
  BY <1>4, <1>6, EmptySeq DEF Queued, Conserving
<1>10. Fresh(other)
  BY <1>1, <1>4, <1>6 DEF Fresh
<1>11. Gate' = other
  BY <1>2, <1>6, BecomesGate
<1> QED BY <1>2, <1>8, <1>9, <1>10, <1>11 DEF GateIInv, Whole

-----------------------------------------------------------------------------
(* The invariant and what follows from it.                                  *)

LEMMA GateInitSound ==
  ASSUME GateInit
  PROVE  GateIInv
<1>1. /\ Gate.phase = [r \in Requests |-> "idle"] /\ Gate.held = [r \in Requests |-> NoState]
      /\ Gate.queue = <<>> /\ Gate.count = 0
      /\ Gate.sessions = [s \in GateSessions |-> NoState]
      /\ Gate.active = [r \in Requests |-> FALSE]
  BY GateOfState DEF GateInit
<1>2. Gate \in Gates
  <2>1. <<>> \in Seq(Requests)
    BY EmptySeq
  <2> QED BY <2>1 DEF GateInit, Gate, Gates
<1>3. sessionOf \in [Requests -> GateSessions \cup {NoSession}] /\ aborted \in [Requests -> BOOLEAN]
  BY DEF GateInit
<1>4. Readers(Gate) = {}
  BY <1>1 DEF Readers
<1>5. Counted(Gate)
  BY <1>1, <1>4, FS_EmptySet, GateConstants DEF Counted
<1>6. \A s \in GateSessions : ~Busy(Gate, s) /\ Gate.sessions[s] = NoState
  BY <1>1 DEF Busy, StateOf
<1>7. Holding(Gate, sessionOf) /\ Alone(Gate, sessionOf) /\ Awake(Gate, sessionOf)
      /\ Owned(Gate, sessionOf)
  BY <1>4, <1>6 DEF Holding, Alone, Awake, Owned
<1>8. Queued(Gate) /\ Fresh(Gate) /\ Conserving(Gate, sessionOf)
  BY <1>1, <1>6, EmptySeq, GateConstants DEF Queued, Fresh, Conserving
<1> QED BY <1>2, <1>3, <1>5, <1>7, <1>8 DEF GateIInv, Whole, Core

LEMMA GateInductive ==
  ASSUME GateIInv, [GateNext]_gateVars
  PROVE  GateIInv'
<1>1. ASSUME NEW r \in Requests, NEW s \in GateSessions \cup {NoSession}, Acquire(r, s)
      PROVE  GateIInv'
  BY <1>1, TurnedAway, LetIn
<1>2. ASSUME NEW r \in Requests, Abort(r) PROVE GateIInv'
  <2>1. Gate' = Gate /\ sessionOf' = sessionOf
    BY <1>2 DEF Abort, Gate
  <2>2. aborted' \in [Requests -> BOOLEAN]
    BY <1>2 DEF Abort, GateIInv
  <2> QED BY <2>1, <2>2 DEF GateIInv
<1>3. ASSUME NEW r \in Requests, OnAbort(r) PROVE GateIInv'
  BY <1>3, OnAbortKeeps
<1>4. ASSUME NEW r \in Requests, Release(r) PROVE GateIInv'
  BY <1>4, ReleaseKeeps
<1>5. CASE Dispose
  BY <1>5, DisposeKeeps
<1>6. CASE UNCHANGED gateVars
  <2>1. Gate' = Gate /\ sessionOf' = sessionOf /\ aborted' = aborted
    BY <1>6 DEF gateVars, Gate
  <2> QED BY <2>1 DEF GateIInv
<1> QED BY <1>1, <1>2, <1>3, <1>4, <1>5, <1>6 DEF GateNext

\* What the invariant says of the variables.
LEMMA GateInvariantSound ==
  ASSUME GateIInv
  PROVE  GateSound
<1>1. /\ Gate \in Gates /\ Core(Gate, sessionOf) /\ Queued(Gate)
      /\ Conserving(Gate, sessionOf) /\ aborted \in [Requests -> BOOLEAN]
      /\ sessionOf \in [Requests -> GateSessions \cup {NoSession}]
  BY DEF GateIInv, Whole, Core
<1>2. Reading = Readers(Gate)
  BY GateOfState DEF Reading, Readers
<1>3. GateTypeOK
  BY <1>1, GateFields, GateOfState DEF GateTypeOK
<1>4. LimitKept
  BY <1>1, <1>2, GateOfState DEF LimitKept, Core, Counted
<1>5. OnePerSession
  BY <1>1, <1>2 DEF OnePerSession, Core, Alone
<1>6. WorkConserving
  <2> SUFFICES ASSUME activeBootstrap < BackgroundBootstrapLimit,
                      NEW r \in Requests, phase[r] = "waiting", ~aborted[r]
               PROVE  \E q \in Reading : sessionOf[q] = sessionOf[r] /\ sessionOf[r] # NoSession
    BY DEF WorkConserving
  <2>1. PICK i \in 1..Len(Gate.queue) : Gate.queue[i] = r
    BY <1>1, GateOfState DEF Queued
  <2>2. Busy(Gate, sessionOf[r])
    BY <1>1, <2>1, GateOfState DEF Conserving
  <2>3. sessionOf[r] # NoSession
    BY <2>2 DEF Busy, StateOf
  <2> QED BY <1>1, <1>2, <2>2, <2>3 DEF Core, Awake
<1> QED BY <1>3, <1>4, <1>5, <1>6 DEF GateSound, ReadsBounded

\* The gate as a value stays whole and conserves work.
THEOREM GateInvariantHolds == GateSpec => []GateIInv
<1>1. GateInit => GateIInv
  BY GateInitSound
<1>2. GateIInv /\ [GateNext]_gateVars => GateIInv'
  BY GateInductive
<1> QED BY <1>1, <1>2, PTL DEF GateSpec, GateSafeSpec

\* acquireBootstrap, its release and the drain: never more reads than the limit,
\* never two of one session, and nobody waits without a reason.
THEOREM GateIsSound == GateSpec => []GateSound
<1>1. GateIInv => GateSound
  BY GateInvariantSound
<1> QED BY <1>1, GateInvariantHolds, PTL

\* Only a release serves a waiter.
LEMMA OthersServeNobody ==
  ASSUME GateIInv, NEW q \in Requests, phase[q] = "waiting",
         \/ \E r \in Requests, s \in GateSessions \cup {NoSession} : Acquire(r, s)
         \/ \E r \in Requests : Abort(r) \/ OnAbort(r)
         \/ Dispose
         \/ UNCHANGED gateVars
  PROVE  phase'[q] # "reading"
<1>0. Gate \in Gates /\ phase = Gate.phase
  BY GateOfState DEF GateIInv, Whole, Core
<1>1. phase \in [Requests -> {"idle", "waiting", "reading", "rejected", "done"}]
  BY <1>0, GateFields
<1>2. ASSUME NEW r \in Requests, NEW s \in GateSessions \cup {NoSession}, Acquire(r, s)
      PROVE  phase'[q] # "reading"
  <2>1. q # r
    BY <1>2 DEF Acquire
  <2>2. CASE aborted[r]
    <3>1. phase' = [Gate EXCEPT !.phase[r] = "rejected"].phase
      BY <1>2, <2>2 DEF Acquire, Becomes
    <3>2. phase' = [phase EXCEPT ![r] = "rejected"]
      BY <1>0, <3>1 DEF Gates
    <3> QED BY <1>1, <2>1, <3>2
  <2>3. CASE ~aborted[r]
    <3> DEFINE made == WithState(Gate, r, s)
    <3>1. made \in Gates /\ made.phase = phase
      <4> DEFINE new == [sessionOf EXCEPT ![r] = s]
      <4>1. r \notin Readers(Gate)
        BY <1>0, <1>2 DEF Acquire, Readers
      <4>2. Core(Gate, new)
        BY <1>0, <1>2, SessionChosen DEF GateIInv, Acquire
      <4>3. new[r] = s
        BY DEF GateIInv, Whole, Core
      <4> HIDE DEF new, made
      <4>4. Core(made, new) /\ made.phase = Gate.phase
        BY <4>1, <4>2, <4>3, ObjectMade DEF made
      <4> QED BY <1>0, <4>4 DEF Core
    <3>2. \/ phase' = Granted(made, r, s).phase
          \/ phase' = [made EXCEPT !.phase[r] = "waiting", !.queue = Append(@, r)].phase
      BY <1>2, <2>3 DEF Acquire, Becomes
    <3> HIDE DEF made
    <3>3. \/ phase' = [phase EXCEPT ![r] = "reading"]
          \/ phase' = [phase EXCEPT ![r] = "waiting"]
      BY <3>1, <3>2 DEF Granted, Gates
    <3> QED BY <1>1, <2>1, <3>3
  <2> QED BY <2>2, <2>3
<1>3. ASSUME NEW r \in Requests, OnAbort(r) PROVE phase'[q] # "reading"
  <2>1. phase' = LeftQueue(r).phase
    BY <1>3 DEF OnAbort, Becomes
  <2>2. phase' = [phase EXCEPT ![r] = "rejected"]
    BY <1>0, <2>1 DEF LeftQueue, Gates
  <2> QED BY <1>1, <2>2
<1>4. CASE Dispose
  <2>1. phase' = [r \in Requests |-> IF phase[r] = "waiting" THEN "rejected" ELSE phase[r]]
    BY <1>0, <1>4 DEF Dispose, Becomes, Gates
  <2> QED BY <2>1
<1>5. ASSUME NEW r \in Requests, Abort(r) PROVE phase'[q] # "reading"
  BY <1>5 DEF Abort
<1>6. CASE UNCHANGED gateVars
  BY <1>6 DEF gateVars
<1> QED BY <1>2, <1>3, <1>4, <1>5, <1>6

\* drainBootstrapQueue: of two waiters of one session, the one in front is not
\* still waiting when the other one reads.
THEOREM GateServesInOrder == GateSpec => SessionOrder
<1> DEFINE InOrder ==
      \A r, q \in Requests :
        Before(r, q) /\ sessionOf[r] = sessionOf[q] /\ phase'[q] = "reading"
          => phase'[r] # "waiting"
<1>1. ASSUME GateIInv, [GateNext]_gateVars
      PROVE  InOrder
  <2> SUFFICES ASSUME NEW r \in Requests, NEW q \in Requests, Before(r, q),
                      sessionOf[r] = sessionOf[q], phase'[q] = "reading"
               PROVE  phase'[r] # "waiting"
    OBVIOUS
  <2>1. Precedes(Gate, r, q)
    BY GateOfState DEF Before, Precedes
  <2>2. phase[r] = "waiting" /\ phase[q] = "waiting"
    BY <1>1, <2>1, GateOfState DEF GateIInv, Whole, Queued, Precedes
  <2>3. PICK x \in Requests : Release(x)
    BY <1>1, <2>2, OthersServeNobody DEF GateNext
  <2>4. /\ \A y, z \in Requests : sessionOf[y] = sessionOf[z] /\ InTurn(Freed(x), y, z) =>
             InTurn(Drained(Freed(x)), y, z)
        /\ Gate'.phase = Drained(Freed(x)).phase
        /\ phase[x] = "reading"
    BY <1>1, <2>3, ReleaseKeeps
  <2>5. /\ Freed(x).queue = Gate.queue
        /\ \A z \in Requests : z # x => Freed(x).phase[z] = Gate.phase[z]
    BY <1>1, <2>4, FreedSound
  <2>6. Freed(x).phase[q] = "waiting"
    BY <2>2, <2>4, <2>5, GateOfState
  <2>7. InTurn(Freed(x), r, q)
    BY <2>1, <2>5, <2>6 DEF InTurn, Precedes
  <2>8. InTurn(Drained(Freed(x)), r, q)
    BY <2>4, <2>7
  <2>9. phase' = Drained(Freed(x)).phase
    BY <2>4 DEF Gate
  <2> QED BY <2>8, <2>9 DEF InTurn
<1>2. GateIInv /\ [GateNext]_gateVars => [InOrder]_gateVars
  BY <1>1
<1> QED BY <1>2, GateInvariantHolds, PTL DEF GateSpec, GateSafeSpec, SessionOrder
=============================================================================
