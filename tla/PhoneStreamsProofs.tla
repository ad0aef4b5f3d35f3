------------------------- MODULE PhoneStreamsProofs -------------------------
(***************************************************************************)
(* Proofs about what a phone is told as it happens: the asks on their way  *)
(* from the official runtime through the bridge and the hub to the phones, *)
(* and the events of sessions on theirs through the event hub.             *)
(***************************************************************************)
EXTENDS Interactions, MobileEvents, FiniteSetTheorems, SequenceTheorems, TLAPS

-----------------------------------------------------------------------------
(***************************************************************************)
(* Asks: the bridge, the hub and the phones agree, and an ask is answered  *)
(* at most once, for any number of asks, phones and connections.           *)
(***************************************************************************)
Requested(a) == [type |-> "requested", ask |-> a]
Resolved(a) == [type |-> "resolved", ask |-> a]

Messages == [type : {"waterfall", "cancel"}, ask : Asks]
            \cup {[type |-> "ready", ask |-> NoAsk]}
Answers == [connect : Nat, at : {"sent", "taken", "refused"}]
AskStreams == [on : BOOLEAN, done : BOOLEAN, queue : Seq(Frame \cup {AskOverflow}),
               seenOrder : Seq(Frame), opened : 0..MaxSubscribes]

\* Only a stream that failed has an overflow in its queue.
GoodStreams ==
  {s \in AskStreams : /\ Len(s.seenOrder) <= MaxSubscriberSeen
                      /\ Len(s.queue) <= MaxAskQueue
                      /\ s.done \/ s.queue \in Seq(Frame)}

BridgeTyped ==
  /\ asks \in [Asks -> {"new", "open", "closed"}]
  /\ link \in {"down", "attached", "open"}
  /\ connects \in 0..MaxConnects
  /\ inbox \in Seq(Messages)
  /\ ready \in BOOLEAN
  /\ pending \in Seq(Asks) /\ interactionFrames \in Seq(Asks) /\ pendingControls \in Seq(Asks)
  /\ inFlight \in SUBSET Asks
  /\ sent \in [Asks -> Seq(Answers)]
  /\ attached \in BOOLEAN
  /\ subscriber \in [AskPhones -> GoodStreams]
  /\ shown \in [AskPhones -> SUBSET Asks]
  /\ fresh \in [AskPhones -> BOOLEAN]

KeysOnce(keys) == \A i, j \in 1..Len(keys) : keys[i] = keys[j] => i = j

\* A frame of this kind about a is on its way.
Waits(box, kind, a) == \E i \in 1..Len(box) : box[i].type = kind /\ box[i].ask = a

\* An ask comes once on a connection, and its end after it is over.
BoxSound(as, box) ==
  /\ \A a \in Asks : Waits(box, "cancel", a) => as[a] = "closed"
  /\ \A a \in Asks : Waits(box, "waterfall", a) => as[a] # "new"
  /\ \A i, j \in 1..Len(box) : box[i].type = "waterfall" /\ box[j] = box[i] => i = j

\* What is pending has come on this connection.
PendingSound(as, box, keys) ==
  /\ KeysOnce(keys)
  /\ \A a \in Asks : Contains(keys, a) => as[a] # "new" /\ ~Waits(box, "waterfall", a)

\* Its answer is the one in flight.
AnswerSound(as, answers, flying) ==
  \A a \in Asks :
    /\ Len(answers[a]) <= 1
    /\ answers[a] # <<>> <=> a \in flying
    /\ answers[a] # <<>> /\ Head(answers[a]).at = "taken" => as[a] = "closed"

\* The hub has nothing and serves nobody before it listens.
HubSound(on, frames, controls, keys, streams) ==
  IF on THEN frames = keys /\ KeysOnce(controls)
             /\ \A a \in Asks : Contains(controls, a) => Contains(keys, a)
  ELSE frames = <<>> /\ controls = <<>> /\ \A p \in AskPhones : ~streams[p].on

\* It is over and nothing will bring it back.
Over(as, box, a) == as[a] = "closed" /\ ~Waits(box, "waterfall", a)

\* The phone will show a once it has read the queue.
Tells(queue, sees, a) ==
  \/ \E i \in 1..Len(queue) : /\ queue[i] = Requested(a)
                              /\ \A j \in (i + 1)..Len(queue) : queue[j].ask # a
  \/ a \in sees /\ \A i \in 1..Len(queue) : queue[i].ask # a

\* The phone will show what is pending, and what it was told before is not dropped by
\* mistake: only what is over is not told again.
PhoneSound(s, sees, keys, as, box) ==
  \A a \in Asks :
    /\ Tells(s.queue, sees, a) <=> Contains(keys, a)
    /\ Contains(s.seenOrder, Requested(a)) /\ ~Contains(keys, a) => Over(as, box, a)
    /\ Contains(s.seenOrder, Resolved(a)) => Over(as, box, a) /\ ~Contains(keys, a)

BridgeIInv ==
  /\ BridgeTyped
  /\ BoxSound(asks, inbox)
  /\ PendingSound(asks, inbox, pending)
  /\ link # "open" => inbox = <<>> /\ pending = <<>>
  /\ AnswerSound(asks, sent, inFlight)
  /\ HubSound(attached, interactionFrames, pendingControls, pending, subscriber)
  /\ \A p \in AskPhones : Listening(p) /\ fresh[p] =>
       PhoneSound(subscriber[p], shown[p], pending, asks, inbox)

-----------------------------------------------------------------------------
(* Induction over numbers, and the folds of the library.                   *)

LEMMA LeastNumber ==
  ASSUME NEW T \in SUBSET Nat, T # {}
  PROVE  \E m \in T : \A k \in T : m <= k
<1> DEFINE R == OpToRel(<, Nat)
<1>1. IsWellFoundedOn(R, Nat)
  BY NatLessThanWellFounded
<1> HIDE DEF R
<1>2. PICK m \in T : \A k \in T : ~(<<k, m>> \in R)
  BY <1>1, WFMin, Zenon
<1>3. \A k \in Nat : k < m => <<k, m>> \in R
  BY DEF R, OpToRel
<1>4. ASSUME NEW k \in T PROVE m <= k
  <2>1. m \in Nat /\ k \in Nat
    OBVIOUS
  <2>2. ~(k < m)
    BY <1>2, <1>3, <2>1
  <2> QED BY <2>1, <2>2
<1> QED BY <1>4

\* Induction over the numbers, by their set.
LEMMA NumbersInductive ==
  ASSUME NEW S, 0 \in S, \A n \in Nat : n \in S => n + 1 \in S
  PROVE  Nat \subseteq S
<1> SUFFICES ASSUME Nat \ S # {} PROVE FALSE
  OBVIOUS
<1>1. PICK m \in Nat \ S : \A k \in Nat \ S : m <= k
  BY LeastNumber
<1>2. m # 0 /\ m - 1 \in Nat /\ m - 1 < m
  BY <1>1
<1>3. m - 1 \in S
  BY <1>1, <1>2
<1>4. (m - 1) + 1 \in S
  BY <1>2, <1>3
<1> QED BY <1>1, <1>4

\* What a fold has made of the elements of T, taken from the last one backwards.
Folded(g, base, step, n) ==
  g = [T \in SUBSET (1..n) |->
         IF T = {} THEN base ELSE step[<<g[T \ {Max(T)}], Max(T)>>]]

HasFold(V, base, step, n) == \E g \in [SUBSET (1..n) -> V] : Folded(g, base, step, n)

LEMMA LastOf ==
  ASSUME NEW k \in Nat, NEW T \in SUBSET (1..(k + 1)), k + 1 \in T
  PROVE  Max(T) = k + 1
<1> DEFINE m == Max(T)
<1>1. \A y \in T : k + 1 >= y
  OBVIOUS
<1>2. m \in T /\ \A y \in T : m >= y
  BY <1>1 DEF Max
<1> HIDE DEF m
<1>3. m \in 1..(k + 1) /\ m >= k + 1
  BY <1>2
<1>4. m = k + 1
  BY <1>3
<1> QED BY <1>4 DEF m

LEMMA LastIn ==
  ASSUME NEW n \in Nat, NEW T \in SUBSET (1..n), T # {}
  PROVE  Max(T) \in T /\ \A k \in T : k <= Max(T)
<1>1. PICK m \in T : \A k \in T : k <= m
  <2> DEFINE U == {n - k : k \in T}
  <2>1. U \in SUBSET Nat /\ U # {}
    <3>1. ASSUME NEW k \in T PROVE n - k \in Nat
      <4>1. k \in 1..n
        OBVIOUS
      <4> QED BY <4>1
    <3> QED BY <3>1
  <2>2. PICK u \in U : \A v \in U : u <= v
    BY <2>1, LeastNumber
  <2>3. PICK m \in T : u = n - m
    BY <2>2
  <2>4. ASSUME NEW k \in T PROVE k <= m
    <3>1. n - k \in U
      OBVIOUS
    <3>2. n - m <= n - k
      BY <2>2, <2>3, <3>1
    <3> QED BY <3>2
  <2> QED BY <2>4
<1>2. \A k \in T : m >= k
  BY <1>1
<1>3. Max(T) \in T /\ \A k \in T : Max(T) >= k
  BY <1>2 DEF Max
<1> QED BY <1>3

LEMMA FoldExists ==
  ASSUME NEW V, NEW base \in V, NEW n \in Nat, NEW step \in [V \X (1..n) -> V]
  PROVE  HasFold(V, base, step, n)
<1> DEFINE Good == {k \in Nat : k <= n => HasFold(V, base, step, k)}
<1>1. 0 \in Good
  <2> DEFINE g == [T \in SUBSET (1..0) |-> base]
             e == [T \in SUBSET (1..0) |->
                     IF T = {} THEN base ELSE step[<<g[T \ {Max(T)}], Max(T)>>]]
  <2>1. \A T \in SUBSET (1..0) : T = {}
    OBVIOUS
  <2>2. g = e /\ g \in [SUBSET (1..0) -> V]
    BY <2>1
  <2> HIDE DEF g
  <2>3. Folded(g, base, step, 0)
    BY <2>2 DEF Folded
  <2> QED BY <2>2, <2>3 DEF HasFold
<1>2. ASSUME NEW k \in Nat, k \in Good PROVE k + 1 \in Good
  <2> SUFFICES ASSUME k + 1 <= n PROVE HasFold(V, base, step, k + 1)
    OBVIOUS
  <2>0. HasFold(V, base, step, k)
    BY <1>2
  <2> HIDE DEF Good
  <2>1. PICK g \in [SUBSET (1..k) -> V] : Folded(g, base, step, k)
    BY <2>0 DEF HasFold
  <2> DEFINE f == [T \in SUBSET (1..(k + 1)) |->
                     IF k + 1 \in T THEN step[<<g[T \ {k + 1}], k + 1>>] ELSE g[T]]
             e == [T \in SUBSET (1..(k + 1)) |->
                     IF T = {} THEN base ELSE step[<<f[T \ {Max(T)}], Max(T)>>]]
  <2>2. \A T \in SUBSET (1..(k + 1)) : T \ {k + 1} \in SUBSET (1..k)
    OBVIOUS
  <2>3. k + 1 \in 1..n
    OBVIOUS
  <2>4. f \in [SUBSET (1..(k + 1)) -> V]
    <3> SUFFICES ASSUME NEW T \in SUBSET (1..(k + 1))
                 PROVE  (IF k + 1 \in T THEN step[<<g[T \ {k + 1}], k + 1>>] ELSE g[T]) \in V
      OBVIOUS
    <3>1. CASE k + 1 \in T
      <4>1. g[T \ {k + 1}] \in V
        BY <2>2
      <4>2. <<g[T \ {k + 1}], k + 1>> \in V \X (1..n)
        BY <2>3, <4>1
      <4> QED BY <3>1, <4>2
    <3>2. CASE k + 1 \notin T
      <4>1. T \in SUBSET (1..k)
        BY <2>2, <3>2
      <4> QED BY <3>2, <4>1
    <3> QED BY <3>1, <3>2
  <2>5. ASSUME NEW T \in SUBSET (1..(k + 1)) PROVE f[T] = e[T]
    <3>1. CASE k + 1 \in T
      <4>1. Max(T) = k + 1 /\ T # {}
        BY <3>1, LastOf
      <4>2. k + 1 \notin T \ {k + 1} /\ T \ {k + 1} \in SUBSET (1..(k + 1))
        OBVIOUS
      <4>3. f[T \ {k + 1}] = g[T \ {k + 1}]
        BY <4>2
      <4>4. f[T] = step[<<g[T \ {k + 1}], k + 1>>]
        BY <3>1
      <4>5. e[T] = step[<<f[T \ {Max(T)}], Max(T)>>]
        BY <4>1
      <4> QED BY <4>1, <4>3, <4>4, <4>5
    <3>2. CASE k + 1 \notin T
      <4>1. T \in SUBSET (1..k)
        BY <2>2, <3>2
      <4>2. f[T] = g[T]
        BY <3>2
      <4>3. g[T] = IF T = {} THEN base ELSE step[<<g[T \ {Max(T)}], Max(T)>>]
        BY <2>1, <4>1 DEF Folded
      <4>4. T \ {Max(T)} \in SUBSET (1..(k + 1)) /\ k + 1 \notin T \ {Max(T)}
        BY <3>2
      <4>5. f[T \ {Max(T)}] = g[T \ {Max(T)}]
        BY <4>4
      <4>6. e[T] = IF T = {} THEN base ELSE step[<<f[T \ {Max(T)}], Max(T)>>]
        OBVIOUS
      <4> QED BY <4>2, <4>3, <4>5, <4>6
    <3> QED BY <3>1, <3>2
  <2>6. f = e
    BY <2>5
  <2> HIDE DEF f
  <2>7. Folded(f, base, step, k + 1)
    BY <2>6 DEF Folded
  <2> QED BY <2>4, <2>7 DEF HasFold
<1> HIDE DEF Good
<1>3. Nat \subseteq Good
  BY <1>1, <1>2, NumbersInductive
<1> QED BY <1>3 DEF Good

LEMMA RemoveAtFacts ==
  ASSUME NEW S, NEW seq \in Seq(S), NEW k \in 1..Len(seq)
  PROVE  /\ RemoveAt(seq, k) \in Seq(S)
         /\ Len(RemoveAt(seq, k)) = Len(seq) - 1
         /\ \A i \in 1..(Len(seq) - 1) :
              RemoveAt(seq, k)[i] = IF i < k THEN seq[i] ELSE seq[i + 1]
<1> DEFINE l == SubSeq(seq, 1, k - 1)
           r == SubSeq(seq, k + 1, Len(seq))
<1>1. Len(seq) \in Nat /\ k \in Nat /\ 1 <= k /\ k <= Len(seq)
  OBVIOUS
<1>2. /\ l \in Seq(S) /\ Len(l) = k - 1
      /\ \A i \in 1..(k - 1) : l[i] = seq[i]
  BY <1>1
<1>3. /\ r \in Seq(S) /\ Len(r) = Len(seq) - k
      /\ \A i \in 1..(Len(seq) - k) : r[i] = seq[k + i]
  BY <1>1
<1>4. RemoveAt(seq, k) = l \o r
  BY DEF RemoveAt
<1> HIDE DEF l, r
<1>5. /\ l \o r \in Seq(S) /\ Len(l \o r) = Len(seq) - 1
      /\ \A i \in 1..(Len(seq) - 1) : (l \o r)[i] = IF i <= k - 1 THEN l[i] ELSE r[i - (k - 1)]
  <2>1. /\ l \o r \in Seq(S) /\ Len(l \o r) = Len(l) + Len(r)
        /\ \A i \in 1..(Len(l) + Len(r)) : (l \o r)[i] = IF i <= Len(l) THEN l[i] ELSE r[i - Len(l)]
    BY <1>2, <1>3, ConcatProperties
  <2>2. Len(l) + Len(r) = Len(seq) - 1
    BY <1>1, <1>2, <1>3
  <2> QED BY <1>2, <2>1, <2>2
<1>6. ASSUME NEW i \in 1..(Len(seq) - 1)
      PROVE  (l \o r)[i] = IF i < k THEN seq[i] ELSE seq[i + 1]
  <2>1. CASE i < k
    BY <1>1, <1>2, <1>5, <2>1
  <2>2. CASE i >= k
    <3>1. i - (k - 1) \in 1..(Len(seq) - k) /\ k + (i - (k - 1)) = i + 1
      BY <1>1, <2>2
    <3>2. r[i - (k - 1)] = seq[i + 1]
      BY <1>3, <3>1
    <3>3. (l \o r)[i] = r[i - (k - 1)]
      BY <1>1, <1>5, <2>2
    <3>4. ~(i < k)
      BY <1>1, <2>2
    <3>5. (IF i < k THEN seq[i] ELSE seq[i + 1]) = seq[i + 1]
      BY <3>4
    <3> QED BY <3>2, <3>3, <3>5
  <2>3. i < k \/ i >= k
    BY <1>1
  <2> QED BY <2>1, <2>2, <2>3, Zenon
<1> QED BY <1>4, <1>5, <1>6

-----------------------------------------------------------------------------
(* Streams and what they are told.                                         *)

LEMMA StreamFields ==
  ASSUME NEW s \in GoodStreams
  PROVE  /\ s.on \in BOOLEAN /\ s.done \in BOOLEAN /\ s.opened \in 0..MaxSubscribes
         /\ s.queue \in Seq(Frame \cup {AskOverflow}) /\ s.seenOrder \in Seq(Frame)
         /\ Len(s.seenOrder) <= MaxSubscriberSeen /\ Len(s.queue) <= MaxAskQueue
         /\ s.done \/ s.queue \in Seq(Frame)
         /\ s = [on |-> s.on, done |-> s.done, queue |-> s.queue, seenOrder |-> s.seenOrder,
                 opened |-> s.opened]
  BY DEF GoodStreams, AskStreams

LEMMA FrameFields ==
  ASSUME NEW frame \in Frame
  PROVE  /\ frame.type \in {"requested", "resolved"} /\ frame.ask \in Asks
         /\ frame = Requested(frame.ask) \/ frame = Resolved(frame.ask)
         /\ frame.type = "requested" <=> frame = Requested(frame.ask)
         /\ frame # AskOverflow
  BY DEF Frame, Requested, Resolved, AskOverflow

LEMMA RequestedIs ==
  ASSUME NEW a \in Asks
  PROVE  /\ Requested(a) \in Frame /\ Requested(a).ask = a /\ Requested(a).type = "requested"
         /\ Resolved(a) \in Frame /\ Resolved(a).ask = a /\ Resolved(a).type = "resolved"
  BY DEF Frame, Requested, Resolved

\* Only the frame is new among what is remembered.
LEMMA RememberedFacts ==
  ASSUME NEW order \in Seq(Frame), Len(order) <= MaxSubscriberSeen, NEW frame \in Frame
  PROVE  /\ AskRemembered(order, frame) \in Seq(Frame)
         /\ Len(AskRemembered(order, frame)) <= MaxSubscriberSeen
         /\ \A f : Contains(AskRemembered(order, frame), f) => f = frame \/ Contains(order, f)
<1>1. MaxSubscriberSeen \in Nat /\ MaxSubscriberSeen # 0
  BY InteractionsAssumption
<1>2. PICK n : n = Len(order)
  OBVIOUS
<1>3. n \in Nat /\ n <= MaxSubscriberSeen
  BY <1>2, LenProperties
<1>4. PICK long : long = Append(order, frame)
  OBVIOUS
<1>5. /\ long \in Seq(Frame) /\ Len(long) = n + 1 /\ long[n + 1] = frame
      /\ \A i \in 1..n : long[i] = order[i]
  BY <1>2, <1>4, AppendProperties
<1>6. \A f : Contains(long, f) => f = frame \/ Contains(order, f)
  <2> SUFFICES ASSUME NEW f, NEW i \in 1..(n + 1), long[i] = f
               PROVE  f = frame \/ \E j \in 1..n : order[j] = f
    BY <1>2, <1>5 DEF Contains
  <2>1. CASE i = n + 1
    BY <1>5, <2>1
  <2>2. CASE i # n + 1
    <3>1. i \in 1..n
      BY <1>3, <2>2
    <3> QED BY <1>5, <3>1
  <2> QED BY <2>1, <2>2
<1>7. CASE n < MaxSubscriberSeen
  <2>1. AskRemembered(order, frame) = long
    BY <1>2, <1>4, <1>7 DEF AskRemembered
  <2> QED BY <1>1, <1>3, <1>5, <1>6, <1>7, <2>1
<1>8. CASE ~(n < MaxSubscriberSeen)
  <2>1. AskRemembered(order, frame) = Tail(long)
    BY <1>2, <1>4, <1>8 DEF AskRemembered
  <2>2. long # <<>>
    BY <1>3, <1>5
  <2>3. PICK rest : rest = Tail(long)
    OBVIOUS
  <2>4. /\ rest \in Seq(Frame) /\ Len(rest) = n /\ \A i \in 1..n : rest[i] = long[i + 1]
    <3>1. /\ rest \in Seq(Frame) /\ Len(rest) = Len(long) - 1
          /\ \A i \in 1..Len(rest) : rest[i] = long[i + 1]
      BY <1>5, <2>2, <2>3, HeadTailProperties
    <3>2. (n + 1) - 1 = n
      BY <1>3
    <3> QED BY <1>5, <3>1, <3>2
  <2>5. \A f : Contains(rest, f) => Contains(long, f)
    <3> SUFFICES ASSUME NEW f, NEW i \in 1..n, rest[i] = f PROVE \E j \in 1..(n + 1) : long[j] = f
      BY <1>5, <2>4 DEF Contains
    <3>1. i + 1 \in 1..(n + 1)
      BY <1>3
    <3> QED BY <2>4, <3>1
  <2> QED BY <1>3, <1>6, <2>1, <2>3, <2>4, <2>5
<1> QED BY <1>7, <1>8

\* What a frame does to a stream.
Appended(s, t, frame) ==
  /\ ~s.done /\ ~t.done
  /\ t.queue = Append(s.queue, frame)
  /\ t.seenOrder \in Seq(Frame)
  /\ \A f : Contains(t.seenOrder, f) => f = frame \/ Contains(s.seenOrder, f)

LEMMA EnqueuedFacts ==
  ASSUME NEW s \in GoodStreams, NEW frame \in Frame, NEW t, t = AskEnqueued(s, frame)
  PROVE  /\ t \in GoodStreams /\ t.on = s.on /\ t.opened = s.opened
         /\ t.done \/ (Contains(s.seenOrder, frame) /\ t = s) \/ Appended(s, t, frame)
<1>1. CASE s.done \/ Contains(s.seenOrder, frame)
  <2>1. t = s
    BY <1>1 DEF AskEnqueued
  <2> QED BY <1>1, <2>1
<1>2. CASE ~(s.done \/ Contains(s.seenOrder, frame)) /\ Len(s.queue) >= MaxAskQueue
  <2>1. t = AskFailed(s)
    BY <1>2 DEF AskEnqueued
  <2>2. t = [on |-> s.on, done |-> TRUE, queue |-> <<AskOverflow>>, seenOrder |-> <<>>, opened |-> s.opened]
    BY <2>1, StreamFields DEF AskFailed
  <2>3. /\ t.on = s.on /\ t.done = TRUE /\ t.queue = <<AskOverflow>> /\ t.seenOrder = <<>>
        /\ t.opened = s.opened
    BY <2>2
  <2>4. /\ <<AskOverflow>> \in Seq(Frame \cup {AskOverflow}) /\ Len(<<AskOverflow>>) = 1
        /\ <<>> \in Seq(Frame) /\ Len(<<>>) = 0
    OBVIOUS
  <2>5. 1 <= MaxAskQueue /\ 0 <= MaxSubscriberSeen
    BY InteractionsAssumption
  <2>6. t \in AskStreams
    BY <2>2, <2>4, StreamFields DEF AskStreams
  <2>7. t \in GoodStreams
    BY <2>3, <2>4, <2>5, <2>6 DEF GoodStreams
  <2> QED BY <2>3, <2>7
<1>3. CASE ~(s.done \/ Contains(s.seenOrder, frame)) /\ ~(Len(s.queue) >= MaxAskQueue)
  <2>0. PICK order : order = AskRemembered(s.seenOrder, frame)
    OBVIOUS
  <2>1. PICK queue : order = AskRemembered(s.seenOrder, frame) /\ queue = Append(s.queue, frame)
    BY <2>0
  <2>2. t = [on |-> s.on, done |-> s.done, queue |-> queue, seenOrder |-> order, opened |-> s.opened]
    <3>1. t = [s EXCEPT !.seenOrder = AskRemembered(s.seenOrder, frame), !.queue = Append(s.queue, frame)]
      BY <1>3 DEF AskEnqueued
    <3>2. t = [s EXCEPT !.seenOrder = order, !.queue = queue]
      BY <2>1, <3>1
    <3>3. s = [on |-> s.on, done |-> s.done, queue |-> s.queue, seenOrder |-> s.seenOrder,
               opened |-> s.opened]
      BY StreamFields
    <3> QED BY <3>2, <3>3
  <2>3. /\ t.on = s.on /\ t.done = s.done /\ t.queue = queue /\ t.seenOrder = order
        /\ t.opened = s.opened
    BY <2>2
  <2>4. /\ order \in Seq(Frame) /\ Len(order) <= MaxSubscriberSeen
        /\ \A f : Contains(order, f) => f = frame \/ Contains(s.seenOrder, f)
    BY <2>1, StreamFields, RememberedFacts
  <2>5. s.queue \in Seq(Frame) /\ ~s.done
    BY <1>3, StreamFields
  <2>6. queue \in Seq(Frame) /\ Len(queue) = Len(s.queue) + 1 /\ Len(s.queue) \in Nat
    BY <2>1, <2>5, AppendProperties, LenProperties
  <2>7. queue \in Seq(Frame \cup {AskOverflow})
    BY <2>6, SeqMonotonic
  <2>8. Len(queue) <= MaxAskQueue
    BY <1>3, <2>6, InteractionsAssumption
  <2>9. t \in AskStreams
    BY <2>2, <2>4, <2>7, StreamFields DEF AskStreams
  <2>10. t \in GoodStreams
    BY <2>3, <2>4, <2>6, <2>8, <2>9 DEF GoodStreams
  <2>11. Appended(s, t, frame)
    BY <2>1, <2>3, <2>4, <2>5 DEF Appended
  <2> QED BY <2>3, <2>10, <2>11
<1> QED BY <1>1, <1>2, <1>3

\* A stream is told one frame after the other.
EnqueuedInTurn(f, s, frames) ==
  f[0] = s /\ \A m \in 1..Len(frames) : f[m] = AskEnqueued(f[m - 1], frames[m])

LEMMA EnqueuedAll ==
  ASSUME NEW s \in GoodStreams, NEW frames \in Seq(Frame)
  PROVE  \E f : EnqueuedInTurn(f, s, frames) /\ FoldLeft(AskEnqueued, s, frames) = f[Len(frames)]
<1> DEFINE n == Len(frames)
           step == [x \in GoodStreams \X (1..n) |-> AskEnqueued(x[1], frames[x[2]])]
           iter == CHOOSE g : g = [T \in SUBSET (DOMAIN frames) |->
                      IF T = {} THEN s ELSE AskEnqueued(g[T \ {Max(T)}], frames[Max(T)])]
<1>1. FoldLeft(AskEnqueued, s, frames) = iter[DOMAIN frames]
  BY DEF FoldLeft, MapThenFoldSet
<1>2. n \in Nat /\ DOMAIN frames = 1..n
  BY LenProperties
<1>3. step \in [GoodStreams \X (1..n) -> GoodStreams]
  <2> SUFFICES ASSUME NEW x \in GoodStreams \X (1..n)
               PROVE  AskEnqueued(x[1], frames[x[2]]) \in GoodStreams
    OBVIOUS
  <2>1. x[1] \in GoodStreams /\ frames[x[2]] \in Frame
    BY ElementOfSeq
  <2> QED BY <2>1, EnqueuedFacts
<1>4. \A z \in GoodStreams, m \in 1..n : step[<<z, m>>] = AskEnqueued(z, frames[m])
  OBVIOUS
<1> HIDE DEF step
<1>5. PICK g \in [SUBSET (1..n) -> GoodStreams] : Folded(g, s, step, n)
  BY <1>2, <1>3, FoldExists DEF HasFold
<1>6. \A T \in SUBSET (1..n) : T # {} => Max(T) \in 1..n
  BY <1>2, LastIn
<1>7. g = [T \in SUBSET (1..n) |->
             IF T = {} THEN s ELSE AskEnqueued(g[T \ {Max(T)}], frames[Max(T)])]
  <2> DEFINE e == [T \in SUBSET (1..n) |->
                     IF T = {} THEN s ELSE AskEnqueued(g[T \ {Max(T)}], frames[Max(T)])]
  <2>1. ASSUME NEW T \in SUBSET (1..n) PROVE g[T] = e[T]
    <3>1. CASE T = {}
      BY <1>5, <3>1 DEF Folded
    <3>2. CASE T # {}
      <4>1. g[T] = step[<<g[T \ {Max(T)}], Max(T)>>]
        BY <1>5, <3>2 DEF Folded
      <4>2. T \ {Max(T)} \in SUBSET (1..n)
        OBVIOUS
      <4>3. g[T \ {Max(T)}] \in GoodStreams /\ Max(T) \in 1..n
        BY <1>6, <3>2, <4>2
      <4>4. step[<<g[T \ {Max(T)}], Max(T)>>] = AskEnqueued(g[T \ {Max(T)}], frames[Max(T)])
        BY <1>4, <4>3
      <4> QED BY <3>2, <4>1, <4>4
    <3> QED BY <3>1, <3>2
  <2>2. g = e
    BY <2>1
  <2> QED BY <2>2
<1>8. iter = [T \in SUBSET (1..n) |->
                IF T = {} THEN s ELSE AskEnqueued(iter[T \ {Max(T)}], frames[Max(T)])]
  BY <1>2, <1>7
<1> HIDE DEF iter
<1> DEFINE f == [m \in 0..n |-> iter[1..m]]
<1>9. f[0] = s
  <2>1. 1..0 = {}
    OBVIOUS
  <2> QED BY <1>2, <1>8, <2>1
<1>10. ASSUME NEW m \in 1..n PROVE f[m] = AskEnqueued(f[m - 1], frames[m])
  <2>1. PICK k \in Nat : k + 1 = m
    <3>1. m - 1 \in Nat /\ (m - 1) + 1 = m
      BY <1>2
    <3> QED BY <3>1
  <2>2. 1..m \in SUBSET (1..(k + 1)) /\ k + 1 \in 1..m
    BY <2>1
  <2>3. Max(1..m) = m
    BY <2>1, <2>2, LastOf
  <2>4. (1..m) \ {m} = 1..(m - 1) /\ 1..m # {} /\ 1..m \in SUBSET (1..n) /\ m - 1 \in 0..n /\ m \in 0..n
    BY <1>2
  <2>5. iter[1..m] = AskEnqueued(iter[1..(m - 1)], frames[m])
    BY <1>8, <2>3, <2>4
  <2> QED BY <2>4, <2>5
<1>11. f[n] = iter[1..n]
  BY <1>2
<1> HIDE DEF f
<1>12. EnqueuedInTurn(f, s, frames)
  BY <1>9, <1>10 DEF EnqueuedInTurn
<1> QED BY <1>1, <1>2, <1>11, <1>12

-----------------------------------------------------------------------------
(* The maps of the bridge and the hub.                                     *)

OnceKeys == {keys \in Seq(Asks) : KeysOnce(keys)}

LEMMA WithKeyFacts ==
  ASSUME NEW keys \in OnceKeys, NEW a \in Asks
  PROVE  /\ WithKey(keys, a) \in OnceKeys
         /\ \A b : Contains(WithKey(keys, a), b) <=> b = a \/ Contains(keys, b)
<1>1. keys \in Seq(Asks) /\ KeysOnce(keys)
  BY DEF OnceKeys
<1>2. CASE Contains(keys, a)
  BY <1>2 DEF WithKey
<1>3. CASE ~Contains(keys, a)
  <2>1. PICK n : n = Len(keys)
    OBVIOUS
  <2>2. PICK long : long = Append(keys, a)
    OBVIOUS
  <2>3. WithKey(keys, a) = long
    BY <1>3, <2>2 DEF WithKey
  <2>4. /\ n \in Nat /\ long \in Seq(Asks) /\ Len(long) = n + 1 /\ long[n + 1] = a
        /\ \A i \in 1..n : long[i] = keys[i]
    BY <1>1, <2>1, <2>2, AppendProperties, LenProperties
  <2>5. \A i \in 1..(n + 1) : i = n + 1 \/ i \in 1..n
    BY <2>4
  <2>6. \A i \in 1..n : keys[i] # a /\ i \in 1..(n + 1)
    BY <1>3, <2>1, <2>4 DEF Contains
  <2>7. \A i, j \in 1..n : keys[i] = keys[j] => i = j
    BY <1>1, <2>1 DEF KeysOnce
  <2>8. \A i, j \in 1..(n + 1) : long[i] = long[j] => i = j
    BY <2>4, <2>5, <2>6, <2>7
  <2>9. KeysOnce(long)
    BY <2>4, <2>8 DEF KeysOnce
  <2>10. n + 1 \in 1..(n + 1)
    BY <2>4
  <2>11. \A b : (\E i \in 1..(n + 1) : long[i] = b) <=> b = a \/ \E i \in 1..n : keys[i] = b
    BY <2>4, <2>5, <2>6, <2>10
  <2>12. \A b : Contains(long, b) <=> b = a \/ Contains(keys, b)
    BY <2>1, <2>4, <2>11 DEF Contains
  <2> QED BY <2>3, <2>4, <2>9, <2>12 DEF OnceKeys
<1> QED BY <1>2, <1>3

LEMMA WithoutKeyFacts ==
  ASSUME NEW keys \in OnceKeys, NEW a \in Asks
  PROVE  /\ WithoutKey(keys, a) \in OnceKeys
         /\ \A b : Contains(WithoutKey(keys, a), b) <=> b # a /\ Contains(keys, b)
<1>1. keys \in Seq(Asks) /\ KeysOnce(keys)
  BY DEF OnceKeys
<1>2. CASE ~Contains(keys, a)
  <2>1. WithoutKey(keys, a) = keys
    BY <1>2 DEF WithoutKey, RemoveFirst, Contains
  <2> QED BY <1>2, <2>1
<1>3. CASE Contains(keys, a)
  <2>1. PICK n : n = Len(keys)
    OBVIOUS
  <2>2. PICK k \in 1..n : keys[k] = a
    BY <1>3, <2>1 DEF Contains
  <2>3. \A i, j \in 1..n : keys[i] = keys[j] => i = j
    BY <1>1, <2>1 DEF KeysOnce
  <2>4. {i \in 1..Len(keys) : keys[i] = a} = {k}
    BY <2>1, <2>2, <2>3
  <2>5. n \in Nat /\ k \in Nat /\ k <= n
    BY <1>1, <2>1, LenProperties
  <2>6. Min({k}) = k
    BY <2>5 DEF Min
  <2>7. SelectInSeq(keys, LAMBDA v : v = a) = k
    BY <2>4, <2>6 DEF SelectInSeq
  <2>8. \E i \in 1..Len(keys) : keys[i] = a
    BY <2>1, <2>2
  <2>9. WithoutKey(keys, a) = RemoveAt(keys, k)
    BY <2>7, <2>8 DEF WithoutKey, RemoveFirst
  <2>10. PICK short : short = RemoveAt(keys, k)
    OBVIOUS
  <2>11. /\ short \in Seq(Asks) /\ Len(short) = n - 1
         /\ \A i \in 1..(n - 1) : short[i] = IF i < k THEN keys[i] ELSE keys[i + 1]
    BY <1>1, <2>1, <2>10, RemoveAtFacts
  <2> DEFINE old(i) == IF i < k THEN i ELSE i + 1
  <2>12. \A i \in 1..(n - 1) : /\ old(i) \in 1..n /\ old(i) # k /\ short[i] = keys[old(i)]
    BY <2>5, <2>11
  <2>13. \A i, j \in 1..(n - 1) : old(i) = old(j) => i = j
    BY <2>5
  <2>14. \A j \in 1..n : j # k => \E i \in 1..(n - 1) : old(i) = j
    <3> SUFFICES ASSUME NEW j \in 1..n, j # k PROVE \E i \in 1..(n - 1) : old(i) = j
      OBVIOUS
    <3>1. CASE j < k
      <4>1. j \in 1..(n - 1) /\ old(j) = j
        BY <2>5, <3>1
      <4> QED BY <4>1
    <3>2. CASE ~(j < k)
      <4>1. j - 1 \in 1..(n - 1) /\ old(j - 1) = j
        BY <2>5, <3>2
      <4> QED BY <4>1
    <3> QED BY <3>1, <3>2
  <2> HIDE DEF old
  <2>15. \A i, j \in 1..(n - 1) : short[i] = short[j] => i = j
    BY <2>3, <2>12, <2>13
  <2>16. KeysOnce(short)
    BY <2>11, <2>15 DEF KeysOnce
  <2>17. \A b : (\E i \in 1..(n - 1) : short[i] = b) <=> b # a /\ \E i \in 1..n : keys[i] = b
    BY <2>2, <2>3, <2>12, <2>14
  <2>18. \A b : Contains(short, b) <=> b # a /\ Contains(keys, b)
    BY <2>1, <2>11, <2>17 DEF Contains
  <2> QED BY <2>9, <2>10, <2>11, <2>16, <2>18 DEF OnceKeys
<1> QED BY <1>2, <1>3

LEMMA IngestedFacts ==
  ASSUME NEW keys \in OnceKeys, NEW frame \in Frame
  PROVE  AskIngested(keys, frame) \in OnceKeys
  BY FrameFields, WithKeyFacts, WithoutKeyFacts DEF AskIngested

\* A map takes in one frame after the other.
IngestedInTurn(f, keys, frames) ==
  f[0] = keys /\ \A m \in 1..Len(frames) : f[m] = AskIngested(f[m - 1], frames[m])

LEMMA IngestedAll ==
  ASSUME NEW keys \in OnceKeys, NEW frames \in Seq(Frame)
  PROVE  \E f : IngestedInTurn(f, keys, frames) /\ FoldLeft(AskIngested, keys, frames) = f[Len(frames)]
<1> DEFINE n == Len(frames)
           step == [x \in OnceKeys \X (1..n) |-> AskIngested(x[1], frames[x[2]])]
           iter == CHOOSE g : g = [T \in SUBSET (DOMAIN frames) |->
                      IF T = {} THEN keys ELSE AskIngested(g[T \ {Max(T)}], frames[Max(T)])]
<1>1. FoldLeft(AskIngested, keys, frames) = iter[DOMAIN frames]
  BY DEF FoldLeft, MapThenFoldSet
<1>2. n \in Nat /\ DOMAIN frames = 1..n
  BY LenProperties
<1>3. step \in [OnceKeys \X (1..n) -> OnceKeys]
  <2> SUFFICES ASSUME NEW x \in OnceKeys \X (1..n)
               PROVE  AskIngested(x[1], frames[x[2]]) \in OnceKeys
    OBVIOUS
  <2>1. x[1] \in OnceKeys /\ frames[x[2]] \in Frame
    BY ElementOfSeq
  <2> QED BY <2>1, IngestedFacts
<1>4. \A z \in OnceKeys, m \in 1..n : step[<<z, m>>] = AskIngested(z, frames[m])
  OBVIOUS
<1> HIDE DEF step
<1>5. PICK g \in [SUBSET (1..n) -> OnceKeys] : Folded(g, keys, step, n)
  BY <1>2, <1>3, FoldExists DEF HasFold
<1>6. \A T \in SUBSET (1..n) : T # {} => Max(T) \in 1..n
  BY <1>2, LastIn
<1>7. g = [T \in SUBSET (1..n) |->
             IF T = {} THEN keys ELSE AskIngested(g[T \ {Max(T)}], frames[Max(T)])]
  <2> DEFINE e == [T \in SUBSET (1..n) |->
                     IF T = {} THEN keys ELSE AskIngested(g[T \ {Max(T)}], frames[Max(T)])]
  <2>1. ASSUME NEW T \in SUBSET (1..n) PROVE g[T] = e[T]
    <3>1. CASE T = {}
      BY <1>5, <3>1 DEF Folded
    <3>2. CASE T # {}
      <4>1. g[T] = step[<<g[T \ {Max(T)}], Max(T)>>]
        BY <1>5, <3>2 DEF Folded
      <4>2. T \ {Max(T)} \in SUBSET (1..n)
        OBVIOUS
      <4>3. g[T \ {Max(T)}] \in OnceKeys /\ Max(T) \in 1..n
        BY <1>6, <3>2, <4>2
      <4>4. step[<<g[T \ {Max(T)}], Max(T)>>] = AskIngested(g[T \ {Max(T)}], frames[Max(T)])
        BY <1>4, <4>3
      <4> QED BY <3>2, <4>1, <4>4
    <3> QED BY <3>1, <3>2
  <2>2. g = e
    BY <2>1
  <2> QED BY <2>2
<1>8. iter = [T \in SUBSET (1..n) |->
                IF T = {} THEN keys ELSE AskIngested(iter[T \ {Max(T)}], frames[Max(T)])]
  BY <1>2, <1>7
<1> HIDE DEF iter
<1> DEFINE f == [m \in 0..n |-> iter[1..m]]
<1>9. f[0] = keys
  <2>1. 1..0 = {}
    OBVIOUS
  <2> QED BY <1>2, <1>8, <2>1
<1>10. ASSUME NEW m \in 1..n PROVE f[m] = AskIngested(f[m - 1], frames[m])
  <2>1. PICK k \in Nat : k + 1 = m
    <3>1. m - 1 \in Nat /\ (m - 1) + 1 = m
      BY <1>2
    <3> QED BY <3>1
  <2>2. 1..m \in SUBSET (1..(k + 1)) /\ k + 1 \in 1..m
    BY <2>1
  <2>3. Max(1..m) = m
    BY <2>1, <2>2, LastOf
  <2>4. (1..m) \ {m} = 1..(m - 1) /\ 1..m # {} /\ 1..m \in SUBSET (1..n) /\ m - 1 \in 0..n /\ m \in 0..n
    BY <1>2
  <2>5. iter[1..m] = AskIngested(iter[1..(m - 1)], frames[m])
    BY <1>8, <2>3, <2>4
  <2> QED BY <2>4, <2>5
<1>11. f[n] = iter[1..n]
  BY <1>2
<1> HIDE DEF f
<1>12. IngestedInTurn(f, keys, frames)
  BY <1>9, <1>10 DEF IngestedInTurn
<1> QED BY <1>1, <1>2, <1>11, <1>12

-----------------------------------------------------------------------------
(* Whole snapshots, withdrawals and replays.                               *)

LEMMA SequencesOfFrames ==
  ASSUME NEW keys \in Seq(Asks)
  PROVE  /\ Requests(keys) \in Seq(Frame) /\ Withdrawals(keys) \in Seq(Frame)
         /\ Len(Requests(keys)) = Len(keys) /\ Len(Withdrawals(keys)) = Len(keys)
         /\ \A i \in 1..Len(keys) :
              Requests(keys)[i] = Requested(keys[i]) /\ Withdrawals(keys)[i] = Resolved(keys[i])
<1>1. PICK n : n = Len(keys)
  OBVIOUS
<1>2. n \in Nat /\ \A i \in 1..n : keys[i] \in Asks
  BY <1>1, LenProperties, ElementOfSeq
<1>3. /\ Requests(keys) = [i \in 1..n |-> Requested(keys[i])]
      /\ Withdrawals(keys) = [i \in 1..n |-> Resolved(keys[i])]
  BY <1>1 DEF Requests, Withdrawals, Requested, Resolved
<1>4. \A i \in 1..n : Requested(keys[i]) \in Frame /\ Resolved(keys[i]) \in Frame
  BY <1>2, RequestedIs
<1>5. /\ [i \in 1..n |-> Requested(keys[i])] \in Seq(Frame)
      /\ [i \in 1..n |-> Resolved(keys[i])] \in Seq(Frame)
  BY <1>2, <1>4, IsASeq
<1>6. /\ Len([i \in 1..n |-> Requested(keys[i])]) = n
      /\ Len([i \in 1..n |-> Resolved(keys[i])]) = n
  BY <1>2
<1> QED BY <1>1, <1>3, <1>5, <1>6

LEMMA EmptyKeys ==
  /\ <<>> \in OnceKeys
  /\ \A b : ~Contains(<<>>, b)
  /\ \A keys \in Seq(Asks) : (\A b : ~Contains(keys, b)) => keys = <<>>
<1>1. <<>> \in OnceKeys /\ \A b : ~Contains(<<>>, b)
  BY EmptySeq DEF OnceKeys, KeysOnce, Contains
<1>2. ASSUME NEW keys \in Seq(Asks), \A b : ~Contains(keys, b)
      PROVE  keys = <<>>
  <2> SUFFICES ASSUME keys # <<>> PROVE FALSE
    OBVIOUS
  <2>1. Len(keys) \in Nat /\ Len(keys) # 0
    BY EmptySeq
  <2>2. 1 \in 1..Len(keys)
    BY <2>1
  <2>3. Contains(keys, keys[1])
    BY <2>2 DEF Contains
  <2> QED BY <1>2, <2>3
<1> QED BY <1>1, <1>2

\* Who takes in the snapshot of a map has the same map.
LEMMA SnapshotIngested ==
  ASSUME NEW keys \in OnceKeys
  PROVE  FoldLeft(AskIngested, <<>>, Requests(keys)) = keys
<1>1. keys \in Seq(Asks) /\ KeysOnce(keys)
  BY DEF OnceKeys
<1>2. PICK n : n = Len(keys)
  OBVIOUS
<1>3. n \in Nat
  BY <1>1, <1>2, LenProperties
<1>4. PICK frames : frames = Requests(keys)
  OBVIOUS
<1>5. frames \in Seq(Frame) /\ Len(frames) = n /\ \A i \in 1..n : frames[i] = Requested(keys[i])
  BY <1>1, <1>2, <1>4, SequencesOfFrames
<1>6. PICK f : /\ IngestedInTurn(f, <<>>, frames)
               /\ FoldLeft(AskIngested, <<>>, frames) = f[Len(frames)]
  BY <1>5, EmptyKeys, IngestedAll
<1>7. f[0] = <<>> /\ \A m \in 1..n : f[m] = AskIngested(f[m - 1], frames[m])
  BY <1>5, <1>6 DEF IngestedInTurn
<1> DEFINE Prefix(k, seq) == /\ seq \in Seq(Asks) /\ Len(seq) = k
                             /\ \A i \in 1..k : seq[i] = keys[i]
           Good == {k \in Nat : k <= n => Prefix(k, f[k])}
<1>8. 0 \in Good
  <2>1. PICK none : none = f[0]
    OBVIOUS
  <2>2. none = <<>>
    BY <1>7, <2>1
  <2>3. none \in Seq(Asks) /\ Len(none) = 0 /\ 1..0 = {}
    BY <2>2, EmptySeq
  <2>4. Prefix(0, none)
    BY <2>3
  <2> QED BY <2>1, <2>4
<1>9. ASSUME NEW k \in Nat, k \in Good PROVE k + 1 \in Good
  <2> SUFFICES ASSUME k + 1 <= n PROVE Prefix(k + 1, f[k + 1])
    OBVIOUS
  <2>1. PICK seq : seq = f[k]
    OBVIOUS
  <2>2. Prefix(k, seq)
    BY <1>3, <1>9, <2>1
  <2>3. k + 1 \in 1..n /\ (k + 1) - 1 = k
    BY <1>3
  <2>4. PICK a \in Asks : a = keys[k + 1]
    BY <1>1, <1>2, <2>3, ElementOfSeq
  <2>5. frames[k + 1] = Requested(a)
    BY <1>5, <2>3, <2>4
  <2>6. f[k + 1] = WithKey(seq, a)
    BY <1>7, <2>1, <2>3, <2>5, RequestedIs DEF AskIngested
  <2>7. ~Contains(seq, a)
    <3>1. ASSUME NEW i \in 1..k, seq[i] = a PROVE FALSE
      <4>1. keys[i] = keys[k + 1] /\ i \in 1..n /\ i # k + 1
        BY <1>3, <2>2, <2>4, <3>1
      <4> QED BY <1>1, <1>2, <2>3, <4>1 DEF KeysOnce
    <3> QED BY <2>2, <3>1 DEF Contains
  <2>8. f[k + 1] = Append(seq, a)
    BY <2>6, <2>7 DEF WithKey
  <2>9. PICK long : long = Append(seq, a)
    OBVIOUS
  <2>10. /\ long \in Seq(Asks) /\ Len(long) = k + 1 /\ long[k + 1] = a
         /\ \A i \in 1..k : long[i] = seq[i]
    BY <2>2, <2>9, AppendProperties
  <2>11. \A i \in 1..(k + 1) : i = k + 1 \/ i \in 1..k
    OBVIOUS
  <2>12. \A i \in 1..(k + 1) : long[i] = keys[i]
    BY <2>2, <2>4, <2>10, <2>11
  <2> QED BY <2>8, <2>9, <2>10, <2>12
<1> HIDE DEF Good
<1>10. Nat \subseteq Good
  BY <1>8, <1>9, NumbersInductive
<1>11. Prefix(n, f[n])
  <2>1. n \in Good /\ n <= n
    BY <1>3, <1>10
  <2> QED BY <2>1 DEF Good
<1>12. f[n] = keys
  BY <1>1, <1>2, <1>11, SeqEqual
<1> QED BY <1>4, <1>5, <1>6, <1>12

\* Once all of a map is withdrawn nothing of it is left.
LEMMA AllWithdrawn ==
  ASSUME NEW keys \in OnceKeys, NEW held \in OnceKeys, \A b : Contains(held, b) => Contains(keys, b)
  PROVE  FoldLeft(AskIngested, held, Withdrawals(keys)) = <<>>
<1>1. keys \in Seq(Asks)
  BY DEF OnceKeys
<1>2. PICK n : n = Len(keys)
  OBVIOUS
<1>3. n \in Nat
  BY <1>1, <1>2, LenProperties
<1>4. PICK frames : frames = Withdrawals(keys)
  OBVIOUS
<1>5. frames \in Seq(Frame) /\ Len(frames) = n /\ \A i \in 1..n : frames[i] = Resolved(keys[i])
  BY <1>1, <1>2, <1>4, SequencesOfFrames
<1>6. PICK f : IngestedInTurn(f, held, frames) /\ FoldLeft(AskIngested, held, frames) = f[Len(frames)]
  BY <1>5, IngestedAll
<1>7. f[0] = held /\ \A m \in 1..n : f[m] = AskIngested(f[m - 1], frames[m])
  BY <1>5, <1>6 DEF IngestedInTurn
<1> DEFINE Left(k, seq) == /\ seq \in OnceKeys
                           /\ \A b : Contains(seq, b) => \E i \in (k + 1)..n : keys[i] = b
           Good == {k \in Nat : k <= n => Left(k, f[k])}
<1>8. 0 \in Good
  <2>1. \A b : Contains(held, b) => \E i \in (0 + 1)..n : keys[i] = b
    BY <1>2 DEF Contains
  <2> QED BY <1>7, <2>1
<1>9. ASSUME NEW k \in Nat, k \in Good PROVE k + 1 \in Good
  <2> SUFFICES ASSUME k + 1 <= n PROVE Left(k + 1, f[k + 1])
    OBVIOUS
  <2>1. PICK seq : seq = f[k]
    OBVIOUS
  <2>2. Left(k, seq)
    BY <1>3, <1>9, <2>1
  <2>3. k + 1 \in 1..n /\ (k + 1) - 1 = k
    BY <1>3
  <2>4. PICK a \in Asks : a = keys[k + 1]
    BY <1>1, <1>2, <2>3, ElementOfSeq
  <2>5. frames[k + 1] = Resolved(a)
    BY <1>5, <2>3, <2>4
  <2>6. f[k + 1] = WithoutKey(seq, a)
    BY <1>7, <2>1, <2>3, <2>5, RequestedIs DEF AskIngested
  <2>7. /\ WithoutKey(seq, a) \in OnceKeys
        /\ \A b : Contains(WithoutKey(seq, a), b) <=> b # a /\ Contains(seq, b)
    BY <2>2, WithoutKeyFacts
  <2>8. \A i \in (k + 1)..n : i = k + 1 \/ i \in ((k + 1) + 1)..n
    BY <1>3
  <2>9. \A b : Contains(WithoutKey(seq, a), b) => \E i \in ((k + 1) + 1)..n : keys[i] = b
    BY <2>2, <2>4, <2>7, <2>8
  <2> QED BY <2>6, <2>7, <2>9
<1> HIDE DEF Good
<1>10. Nat \subseteq Good
  BY <1>8, <1>9, NumbersInductive
<1>11. Left(n, f[n])
  <2>1. n \in Good /\ n <= n
    BY <1>3, <1>10
  <2> QED BY <2>1 DEF Good
<1>12. (n + 1)..n = {}
  BY <1>3
<1>13. f[n] \in Seq(Asks) /\ \A b : ~Contains(f[n], b)
  BY <1>11, <1>12 DEF OnceKeys
<1>14. f[n] = <<>>
  BY <1>13, EmptyKeys
<1> QED BY <1>4, <1>5, <1>6, <1>14

\* One frame, and none.
LEMMA FoldOne ==
  ASSUME NEW frame \in Frame
  PROVE  /\ \A keys \in OnceKeys : FoldLeft(AskIngested, keys, <<frame>>) = AskIngested(keys, frame)
         /\ \A s \in GoodStreams : FoldLeft(AskEnqueued, s, <<frame>>) = AskEnqueued(s, frame)
<1>1. PICK frames : frames = <<frame>>
  OBVIOUS
<1>2. frames \in Seq(Frame) /\ Len(frames) = 1 /\ frames[1] = frame /\ 1 \in 1..1 /\ 1 - 1 = 0
  BY <1>1
<1>3. ASSUME NEW keys \in OnceKeys
      PROVE  FoldLeft(AskIngested, keys, frames) = AskIngested(keys, frame)
  <2>1. PICK f : IngestedInTurn(f, keys, frames) /\ FoldLeft(AskIngested, keys, frames) = f[Len(frames)]
    BY <1>2, IngestedAll
  <2> QED BY <1>2, <2>1 DEF IngestedInTurn
<1>4. ASSUME NEW s \in GoodStreams
      PROVE  FoldLeft(AskEnqueued, s, frames) = AskEnqueued(s, frame)
  <2>1. PICK f : EnqueuedInTurn(f, s, frames) /\ FoldLeft(AskEnqueued, s, frames) = f[Len(frames)]
    BY <1>2, EnqueuedAll
  <2> QED BY <1>2, <2>1 DEF EnqueuedInTurn
<1> QED BY <1>1, <1>3, <1>4

LEMMA FoldNone ==
  /\ \A keys \in OnceKeys : FoldLeft(AskIngested, keys, <<>>) = keys
  /\ \A s \in GoodStreams : FoldLeft(AskEnqueued, s, <<>>) = s
<1>1. PICK frames : frames = <<>>
  OBVIOUS
<1>2. frames \in Seq(Frame) /\ Len(frames) = 0
  BY <1>1, EmptySeq
<1>3. ASSUME NEW keys \in OnceKeys PROVE FoldLeft(AskIngested, keys, frames) = keys
  <2>1. PICK f : IngestedInTurn(f, keys, frames) /\ FoldLeft(AskIngested, keys, frames) = f[Len(frames)]
    BY <1>2, IngestedAll
  <2> QED BY <1>2, <2>1 DEF IngestedInTurn
<1>4. ASSUME NEW s \in GoodStreams PROVE FoldLeft(AskEnqueued, s, frames) = s
  <2>1. PICK f : EnqueuedInTurn(f, s, frames) /\ FoldLeft(AskEnqueued, s, frames) = f[Len(frames)]
    BY <1>2, EnqueuedAll
  <2> QED BY <1>2, <2>1 DEF EnqueuedInTurn
<1> QED BY <1>1, <1>3, <1>4

\* However much a stream is told, it stays the stream of its phone.
LEMMA ToldStays ==
  ASSUME NEW s \in GoodStreams, NEW frames \in Seq(Frame), NEW t, t = FoldLeft(AskEnqueued, s, frames)
  PROVE  t \in GoodStreams /\ t.on = s.on /\ t.opened = s.opened
<1>1. PICK n : n = Len(frames)
  OBVIOUS
<1>2. n \in Nat
  BY <1>1, LenProperties
<1>3. PICK f : EnqueuedInTurn(f, s, frames) /\ FoldLeft(AskEnqueued, s, frames) = f[Len(frames)]
  BY EnqueuedAll
<1>4. f[0] = s /\ \A m \in 1..n : f[m] = AskEnqueued(f[m - 1], frames[m])
  BY <1>1, <1>3 DEF EnqueuedInTurn
<1> DEFINE Kept(x) == x \in GoodStreams /\ x.on = s.on /\ x.opened = s.opened
           Good == {k \in Nat : k <= n => Kept(f[k])}
<1>5. 0 \in Good
  BY <1>4
<1>6. ASSUME NEW k \in Nat, k \in Good PROVE k + 1 \in Good
  <2> SUFFICES ASSUME k + 1 <= n PROVE Kept(f[k + 1])
    OBVIOUS
  <2>1. PICK x : x = f[k]
    OBVIOUS
  <2>2. Kept(x)
    BY <1>2, <1>6, <2>1
  <2>3. k + 1 \in 1..n /\ (k + 1) - 1 = k
    BY <1>2
  <2>4. frames[k + 1] \in Frame
    BY <1>1, <2>3, ElementOfSeq
  <2>5. PICK frame \in Frame : frame = frames[k + 1]
    BY <2>4
  <2>6. PICK y : y = AskEnqueued(x, frame)
    OBVIOUS
  <2>7. y \in GoodStreams /\ y.on = x.on /\ y.opened = x.opened
    BY <2>2, <2>6, EnqueuedFacts
  <2>8. f[k + 1] = y
    BY <1>4, <2>1, <2>3, <2>5, <2>6
  <2> QED BY <2>2, <2>7, <2>8
<1> HIDE DEF Good
<1>7. Nat \subseteq Good
  BY <1>5, <1>6, NumbersInductive
<1>8. n \in Good /\ n <= n
  BY <1>2, <1>7
<1> QED BY <1>1, <1>3, <1>8 DEF Good

LEMMA AppendContains ==
  ASSUME NEW S, NEW seq \in Seq(S), NEW e \in S, NEW long, long = Append(seq, e)
  PROVE  \A z : Contains(long, z) <=> z = e \/ Contains(seq, z)
<1>1. PICK n : n = Len(seq)
  OBVIOUS
<1>2. /\ n \in Nat /\ Len(long) = n + 1 /\ long[n + 1] = e
      /\ \A i \in 1..n : long[i] = seq[i]
  BY <1>1, AppendProperties, LenProperties
<1>3. /\ n + 1 \in 1..(n + 1) /\ \A i \in 1..(n + 1) : i = n + 1 \/ i \in 1..n
      /\ \A i \in 1..n : i \in 1..(n + 1)
  BY <1>2
<1>4. \A z : (\E i \in 1..(n + 1) : long[i] = z) <=> z = e \/ \E i \in 1..n : seq[i] = z
  BY <1>2, <1>3
<1> QED BY <1>1, <1>2, <1>4 DEF Contains

\* A new stream that can take its replay holds all of it and nothing else.
Covers(s, frames, k) ==
  /\ \A x : Contains(s.seenOrder, x) => Contains(s.queue, x)
  /\ \A x : Contains(s.queue, x) <=> \E i \in 1..k : frames[i] = x

LEMMA ReplayCovers ==
  ASSUME NEW s \in GoodStreams, s.queue = <<>>, s.seenOrder = <<>>, NEW frames \in Seq(Frame),
         NEW t, t = FoldLeft(AskEnqueued, s, frames)
  PROVE  t.done \/ Covers(t, frames, Len(frames))
<1>1. PICK n : n = Len(frames)
  OBVIOUS
<1>2. n \in Nat
  BY <1>1, LenProperties
<1>3. PICK f : EnqueuedInTurn(f, s, frames) /\ FoldLeft(AskEnqueued, s, frames) = f[Len(frames)]
  BY EnqueuedAll
<1>4. f[0] = s /\ \A m \in 1..n : f[m] = AskEnqueued(f[m - 1], frames[m])
  BY <1>1, <1>3 DEF EnqueuedInTurn
<1> DEFINE Good == {k \in Nat : k <= n => f[k] \in GoodStreams /\ (f[k].done \/ Covers(f[k], frames, k))}
<1>5. 0 \in Good
  <2>1. Covers(s, frames, 0)
    BY EmptySeq DEF Covers, Contains
  <2> QED BY <1>4, <2>1
<1>6. ASSUME NEW k \in Nat, k \in Good PROVE k + 1 \in Good
  <2> SUFFICES ASSUME k + 1 <= n
               PROVE  f[k + 1] \in GoodStreams /\ (f[k + 1].done \/ Covers(f[k + 1], frames, k + 1))
    OBVIOUS
  <2>1. PICK x : x = f[k]
    OBVIOUS
  <2>2. x \in GoodStreams /\ (x.done \/ Covers(x, frames, k))
    BY <1>2, <1>6, <2>1
  <2>3. k + 1 \in 1..n /\ (k + 1) - 1 = k
    BY <1>2
  <2>4. frames[k + 1] \in Frame
    BY <1>1, <2>3, ElementOfSeq
  <2>5. PICK frame \in Frame : frame = frames[k + 1]
    BY <2>4
  <2>6. PICK y : y = AskEnqueued(x, frame)
    OBVIOUS
  <2>7. f[k + 1] = y
    BY <1>4, <2>1, <2>3, <2>5, <2>6
  <2>8. y \in GoodStreams /\ (y.done \/ (Contains(x.seenOrder, frame) /\ y = x) \/ Appended(x, y, frame))
    BY <2>2, <2>6, EnqueuedFacts
  <2>9. \A z : (\E i \in 1..(k + 1) : frames[i] = z) <=> z = frame \/ \E i \in 1..k : frames[i] = z
    <3>1. k + 1 \in 1..(k + 1) /\ \A i \in 1..(k + 1) : i = k + 1 \/ i \in 1..k
      OBVIOUS
    <3>2. \A i \in 1..k : i \in 1..(k + 1)
      OBVIOUS
    <3> QED BY <2>5, <3>1, <3>2
  <2>10. CASE Contains(x.seenOrder, frame) /\ y = x
    <3>1. CASE x.done
      BY <2>7, <2>8, <2>10, <3>1
    <3>2. CASE Covers(x, frames, k)
      <4>1. \E i \in 1..k : frames[i] = frame
        BY <2>10, <3>2 DEF Covers
      <4>2. \A z : Contains(x.queue, z) <=> \E i \in 1..(k + 1) : frames[i] = z
        BY <2>9, <3>2, <4>1 DEF Covers
      <4>3. Covers(x, frames, k + 1)
        BY <3>2, <4>2 DEF Covers
      <4> QED BY <2>7, <2>8, <2>10, <4>3
    <3> QED BY <2>2, <3>1, <3>2
  <2>11. CASE Appended(x, y, frame)
    <3>1. ~x.done /\ y.queue = Append(x.queue, frame)
          /\ \A z : Contains(y.seenOrder, z) => z = frame \/ Contains(x.seenOrder, z)
      BY <2>11 DEF Appended
    <3>2. Covers(x, frames, k)
      BY <2>2, <3>1
    <3>3. \A z : Contains(y.queue, z) <=> z = frame \/ Contains(x.queue, z)
      <4>1. x.queue \in Seq(Frame)
        BY <2>2, <3>1, StreamFields
      <4>2. PICK before \in Seq(Frame) : before = x.queue
        BY <4>1
      <4>3. PICK after : after = y.queue
        OBVIOUS
      <4>4. after = Append(before, frame)
        BY <3>1, <4>2, <4>3
      <4>5. \A z : Contains(after, z) <=> z = frame \/ Contains(before, z)
        BY <4>4, AppendContains
      <4> QED BY <4>2, <4>3, <4>5
    <3>4. \A z : Contains(y.queue, z) <=> \E i \in 1..(k + 1) : frames[i] = z
      BY <2>9, <3>2, <3>3 DEF Covers
    <3>5. \A z : Contains(y.seenOrder, z) => Contains(y.queue, z)
      BY <3>1, <3>2, <3>3 DEF Covers
    <3>6. Covers(y, frames, k + 1)
      BY <3>4, <3>5 DEF Covers
    <3> QED BY <2>7, <2>8, <3>6
  <2>12. CASE y.done
    BY <2>7, <2>8, <2>12
  <2> QED BY <2>8, <2>10, <2>11, <2>12
<1> HIDE DEF Good
<1>7. Nat \subseteq Good
  BY <1>5, <1>6, NumbersInductive
<1>8. n \in Good /\ n <= n
  BY <1>2, <1>7
<1> QED BY <1>1, <1>3, <1>8 DEF Good

-----------------------------------------------------------------------------
(* What a phone will show once it has read its queue.                      *)

LEMMA TellsAppended ==
  ASSUME NEW queue \in Seq(Frame), NEW frame \in Frame, NEW long, long = Append(queue, frame),
         NEW sees, NEW a \in Asks
  PROVE  Tells(long, sees, a) <=>
           IF frame.ask = a THEN frame.type = "requested" ELSE Tells(queue, sees, a)
<1>1. PICK n : n = Len(queue)
  OBVIOUS
<1>2. /\ n \in Nat /\ Len(long) = n + 1 /\ long[n + 1] = frame
      /\ \A i \in 1..n : long[i] = queue[i]
  BY <1>1, AppendProperties, LenProperties
<1>3. /\ n + 1 \in 1..(n + 1) /\ \A i \in 1..(n + 1) : i = n + 1 \/ i \in 1..n
      /\ \A i \in 1..n : i \in 1..(n + 1)
  BY <1>2
<1>4. \A i \in 1..n : n + 1 \in (i + 1)..(n + 1)
  BY <1>2
<1>5. \A i \in 1..n : \A j \in (i + 1)..n : j \in (i + 1)..(n + 1) /\ j \in 1..n
  BY <1>2
<1>6. \A i \in 1..n : \A j \in (i + 1)..(n + 1) : j = n + 1 \/ j \in (i + 1)..n
  BY <1>2
<1>7. ((n + 1) + 1)..(n + 1) = {}
  BY <1>2
<1>8. /\ frame = Requested(a) <=> frame.type = "requested" /\ frame.ask = a
      /\ Requested(a).ask = a
  BY FrameFields, RequestedIs
<1>9. Tells(long, sees, a) <=>
        \/ \E i \in 1..(n + 1) : /\ long[i] = Requested(a)
                                 /\ \A j \in (i + 1)..(n + 1) : long[j].ask # a
        \/ a \in sees /\ \A i \in 1..(n + 1) : long[i].ask # a
  BY <1>2 DEF Tells
<1>10. Tells(queue, sees, a) <=>
        \/ \E i \in 1..n : queue[i] = Requested(a) /\ \A j \in (i + 1)..n : queue[j].ask # a
        \/ a \in sees /\ \A i \in 1..n : queue[i].ask # a
  BY <1>1 DEF Tells
<1>11. CASE frame.ask = a
  <2>1. (\E i \in 1..(n + 1) : /\ long[i] = Requested(a)
                               /\ \A j \in (i + 1)..(n + 1) : long[j].ask # a)
        <=> frame = Requested(a)
    <3>1. ASSUME NEW i \in 1..(n + 1), long[i] = Requested(a), \A j \in (i + 1)..(n + 1) : long[j].ask # a
          PROVE  frame = Requested(a)
      <4>1. CASE i = n + 1
        BY <1>2, <3>1, <4>1
      <4>2. CASE i \in 1..n
        BY <1>2, <1>4, <1>11, <3>1, <4>2
      <4> QED BY <1>3, <4>1, <4>2
    <3>2. ASSUME frame = Requested(a)
          PROVE  long[n + 1] = Requested(a) /\ \A j \in ((n + 1) + 1)..(n + 1) : long[j].ask # a
      BY <1>2, <1>7, <3>2
    <3> QED BY <1>3, <3>1, <3>2
  <2>2. ~(\A i \in 1..(n + 1) : long[i].ask # a)
    BY <1>2, <1>3, <1>11
  <2>3. Tells(long, sees, a) <=> frame = Requested(a)
    BY <1>9, <2>1, <2>2
  <2> QED BY <1>8, <1>11, <2>3
<1>12. CASE frame.ask # a
  <2>1. (\A i \in 1..(n + 1) : long[i].ask # a) <=> \A i \in 1..n : queue[i].ask # a
    BY <1>2, <1>3, <1>12
  <2>2. ASSUME NEW i \in 1..n
        PROVE  (\A j \in (i + 1)..(n + 1) : long[j].ask # a) <=> \A j \in (i + 1)..n : queue[j].ask # a
    BY <1>2, <1>5, <1>6, <1>12
  <2>3. long[n + 1] # Requested(a)
    BY <1>2, <1>8, <1>12
  <2>4. (\E i \in 1..(n + 1) : long[i] = Requested(a) /\ \A j \in (i + 1)..(n + 1) : long[j].ask # a)
        <=> (\E i \in 1..n : queue[i] = Requested(a) /\ \A j \in (i + 1)..n : queue[j].ask # a)
    BY <1>2, <1>3, <2>2, <2>3
  <2>5. Tells(long, sees, a) <=> Tells(queue, sees, a)
    BY <1>9, <1>10, <2>1, <2>4
  <2> QED BY <1>12, <2>5
<1> QED BY <1>11, <1>12

\* What a phone shows after a frame.
After(sees, frame) ==
  IF frame.type = "requested" THEN sees \cup {frame.ask} ELSE sees \ {frame.ask}

LEMMA TellsRead ==
  ASSUME NEW queue \in Seq(Frame), queue # <<>>, NEW rest, rest = Tail(queue),
         NEW frame, frame = Head(queue), NEW sees, NEW a \in Asks
  PROVE  Tells(rest, After(sees, frame), a) <=> Tells(queue, sees, a)
<1>1. PICK n : n = Len(rest)
  OBVIOUS
<1>2. /\ n \in Nat /\ Len(queue) = n + 1 /\ queue[1] = frame /\ frame \in Frame
      /\ \A i \in 1..n : rest[i] = queue[i + 1]
  <2>1. /\ rest \in Seq(Frame) /\ Len(rest) = Len(queue) - 1 /\ frame \in Frame
        /\ \A i \in 1..Len(rest) : rest[i] = queue[i + 1]
    BY HeadTailProperties
  <2>2. Len(queue) \in Nat /\ n \in Nat
    BY <1>1, <2>1, LenProperties
  <2>3. Len(queue) = n + 1
    BY <1>1, <2>1, <2>2
  <2>4. frame = queue[1]
    OBVIOUS
  <2> QED BY <1>1, <2>1, <2>2, <2>3, <2>4
<1>3. /\ frame = Requested(a) <=> frame.type = "requested" /\ frame.ask = a
      /\ Requested(a).ask = a
  BY <1>2, FrameFields, RequestedIs
<1>4. Tells(queue, sees, a) <=>
        \/ \E i \in 1..(n + 1) : /\ queue[i] = Requested(a)
                                 /\ \A j \in (i + 1)..(n + 1) : queue[j].ask # a
        \/ a \in sees /\ \A i \in 1..(n + 1) : queue[i].ask # a
  BY <1>2 DEF Tells
<1>5. Tells(rest, After(sees, frame), a) <=>
        \/ \E i \in 1..n : rest[i] = Requested(a) /\ \A j \in (i + 1)..n : rest[j].ask # a
        \/ a \in After(sees, frame) /\ \A i \in 1..n : rest[i].ask # a
  BY <1>1 DEF Tells
<1>6. /\ \A i \in 1..(n + 1) : i # 1 => i - 1 \in 1..n /\ (i - 1) + 1 = i
      /\ \A i \in 1..n : i + 1 \in 1..(n + 1) /\ i + 1 # 1
      /\ 1 \in 1..(n + 1)
  BY <1>2
<1>7. (\A i \in 1..(n + 1) : i # 1 => queue[i].ask # a) <=> \A i \in 1..n : rest[i].ask # a
  BY <1>2, <1>6
<1>8. \A i \in 1..n : (\A j \in ((i + 1) + 1)..(n + 1) : queue[j].ask # a)
                        <=> \A j \in (i + 1)..n : rest[j].ask # a
  <2> SUFFICES ASSUME NEW i \in 1..n
               PROVE  (\A j \in ((i + 1) + 1)..(n + 1) : queue[j].ask # a)
                        <=> \A j \in (i + 1)..n : rest[j].ask # a
    OBVIOUS
  <2>1. \A j \in ((i + 1) + 1)..(n + 1) : j - 1 \in (i + 1)..n /\ j - 1 \in 1..n /\ (j - 1) + 1 = j
    BY <1>2
  <2>2. \A j \in (i + 1)..n : j + 1 \in ((i + 1) + 1)..(n + 1) /\ j \in 1..n
    BY <1>2
  <2> QED BY <1>2, <2>1, <2>2
<1>9. (\E i \in 1..(n + 1) : i # 1 /\ queue[i] = Requested(a) /\ \A j \in (i + 1)..(n + 1) : queue[j].ask # a)
      <=> (\E i \in 1..n : rest[i] = Requested(a) /\ \A j \in (i + 1)..n : rest[j].ask # a)
  <2>1. ASSUME NEW i \in 1..(n + 1), i # 1, queue[i] = Requested(a),
               \A j \in (i + 1)..(n + 1) : queue[j].ask # a
        PROVE  \E k \in 1..n : rest[k] = Requested(a) /\ \A j \in (k + 1)..n : rest[j].ask # a
    <3>1. PICK k \in 1..n : k + 1 = i
      BY <1>6, <2>1
    <3> QED BY <1>2, <1>8, <2>1, <3>1
  <2>2. ASSUME NEW k \in 1..n, rest[k] = Requested(a), \A j \in (k + 1)..n : rest[j].ask # a
        PROVE  \E i \in 1..(n + 1) : /\ i # 1 /\ queue[i] = Requested(a)
                                     /\ \A j \in (i + 1)..(n + 1) : queue[j].ask # a
    <3>1. PICK i \in 1..(n + 1) : i = k + 1 /\ i # 1
      BY <1>6
    <3> QED BY <1>2, <1>8, <2>2, <3>1
  <2> QED BY <2>1, <2>2
<1>10. (\A j \in (1 + 1)..(n + 1) : queue[j].ask # a) <=> \A i \in 1..n : rest[i].ask # a
  <2>1. \A j : j \in (1 + 1)..(n + 1) <=> j \in 1..(n + 1) /\ j # 1
    BY <1>2
  <2> QED BY <1>7, <2>1
<1>11. a \in After(sees, frame) <=> IF frame.ask = a THEN frame.type = "requested" ELSE a \in sees
  BY <1>2, FrameFields DEF After
<1>12. Tells(queue, sees, a) <=>
         \/ \E i \in 1..n : rest[i] = Requested(a) /\ \A j \in (i + 1)..n : rest[j].ask # a
         \/ frame = Requested(a) /\ \A i \in 1..n : rest[i].ask # a
         \/ a \in sees /\ frame.ask # a /\ \A i \in 1..n : rest[i].ask # a
  <2>1. (\A i \in 1..(n + 1) : queue[i].ask # a) <=> frame.ask # a /\ \A i \in 1..n : rest[i].ask # a
    BY <1>2, <1>6, <1>7
  <2>2. (\E i \in 1..(n + 1) : queue[i] = Requested(a) /\ \A j \in (i + 1)..(n + 1) : queue[j].ask # a)
        <=> \/ \E i \in 1..n : rest[i] = Requested(a) /\ \A j \in (i + 1)..n : rest[j].ask # a
            \/ frame = Requested(a) /\ \A i \in 1..n : rest[i].ask # a
    BY <1>2, <1>6, <1>9, <1>10
  <2> QED BY <1>4, <2>1, <2>2
<1> QED BY <1>3, <1>5, <1>11, <1>12

LEMMA TellsNothing ==
  ASSUME NEW sees, NEW a
  PROVE  Tells(<<>>, sees, a) <=> a \in sees
<1>1. Len(<<>>) = 0 /\ 1..0 = {}
  BY EmptySeq
<1> QED BY <1>1 DEF Tells

\* A replay of requests shows what it requests.
LEMMA TellsReplay ==
  ASSUME NEW queue \in Seq(Frame), \A i \in 1..Len(queue) : queue[i] = Requested(queue[i].ask), NEW a \in Asks
  PROVE  Tells(queue, {}, a) <=> Contains(queue, Requested(a))
<1>1. PICK n : n = Len(queue)
  OBVIOUS
<1>2. n \in Nat
  BY <1>1, LenProperties
<1>3. Tells(queue, {}, a) => Contains(queue, Requested(a))
  BY DEF Tells, Contains
<1>4. ASSUME Contains(queue, Requested(a)) PROVE Tells(queue, {}, a)
  <2> DEFINE T == {i \in 1..n : queue[i] = Requested(a)}
  <2>1. T \in SUBSET (1..n) /\ T # {}
    BY <1>1, <1>4 DEF Contains
  <2>2. PICK m : m = Max(T)
    OBVIOUS
  <2>3. m \in T /\ \A k \in T : k <= m
    BY <1>2, <2>1, <2>2, LastIn
  <2>4. ASSUME NEW j \in (m + 1)..n PROVE queue[j].ask # a
    <3>1. j \in 1..n /\ ~(j <= m) /\ m \in 1..n
      BY <1>2, <2>3
    <3>2. j \notin T
      BY <2>3, <3>1
    <3>3. queue[j] # Requested(a)
      BY <3>1, <3>2
    <3> QED BY <1>1, <3>1, <3>3
  <2>5. m \in 1..n /\ queue[m] = Requested(a)
    BY <2>3
  <2> QED BY <1>1, <2>4, <2>5 DEF Tells
<1> QED BY <1>3, <1>4

-----------------------------------------------------------------------------
(* The official stream.                                                    *)

LEMMA MessageFields ==
  ASSUME NEW m \in Messages
  PROVE  /\ m.type \in {"ready", "waterfall", "cancel"}
         /\ m.type # "ready" => m.ask \in Asks
         /\ m.ask \in Asks \cup {NoAsk}
  BY DEF Messages

\* No more arrives in b than in box.
Fewer(box, b) == \A kind, a : Waits(b, kind, a) => Waits(box, kind, a)

LEMMA BoxShorter ==
  ASSUME NEW as, NEW box \in Seq(Messages), box # <<>>, BoxSound(as, box),
         NEW rest, rest = Tail(box), NEW m, m = Head(box)
  PROVE  /\ rest \in Seq(Messages) /\ m \in Messages
         /\ BoxSound(as, rest) /\ Fewer(box, rest)
         /\ Waits(box, m.type, m.ask)
         /\ m.type = "waterfall" => ~Waits(rest, "waterfall", m.ask)
<1>1. PICK n : n = Len(rest)
  OBVIOUS
<1>2. /\ n \in Nat /\ Len(box) = n + 1 /\ box[1] = m /\ m \in Messages /\ rest \in Seq(Messages)
      /\ \A i \in 1..n : rest[i] = box[i + 1]
  <2>1. /\ rest \in Seq(Messages) /\ Len(rest) = Len(box) - 1 /\ m \in Messages
        /\ \A i \in 1..Len(rest) : rest[i] = box[i + 1]
    BY HeadTailProperties
  <2>2. Len(box) \in Nat /\ n \in Nat
    BY <1>1, <2>1, LenProperties
  <2>3. Len(box) = n + 1
    BY <1>1, <2>1, <2>2
  <2>4. m = box[1]
    OBVIOUS
  <2> QED BY <1>1, <2>1, <2>2, <2>3, <2>4
<1>3. \A i \in 1..n : i + 1 \in 1..(n + 1) /\ i + 1 # 1
  BY <1>2
<1>4. 1 \in 1..(n + 1)
  BY <1>2
<1>5. Fewer(box, rest)
  <2> SUFFICES ASSUME NEW kind, NEW a, Waits(rest, kind, a) PROVE Waits(box, kind, a)
    BY DEF Fewer
  <2>1. PICK i \in 1..n : rest[i].type = kind /\ rest[i].ask = a
    BY <1>1 DEF Waits
  <2>2. PICK j \in 1..(n + 1) : j = i + 1
    BY <1>3
  <2>3. box[j].type = kind /\ box[j].ask = a
    BY <1>2, <2>1, <2>2
  <2> QED BY <1>2, <2>3 DEF Waits
<1>6. Waits(box, m.type, m.ask)
  BY <1>2, <1>4 DEF Waits
<1>7. \A i, j \in 1..(n + 1) : box[i].type = "waterfall" /\ box[j] = box[i] => i = j
  BY <1>2 DEF BoxSound
<1>8. \A i, j \in 1..n : rest[i].type = "waterfall" /\ rest[j] = rest[i] => i = j
  <2> SUFFICES ASSUME NEW i \in 1..n, NEW j \in 1..n, rest[i].type = "waterfall", rest[j] = rest[i]
               PROVE  i = j
    OBVIOUS
  <2>1. i + 1 = j + 1
    BY <1>2, <1>3, <1>7
  <2> QED BY <1>2, <2>1
<1>9. BoxSound(as, rest)
  BY <1>1, <1>5, <1>8 DEF BoxSound, Fewer
<1>10. ASSUME m.type = "waterfall", Waits(rest, "waterfall", m.ask) PROVE FALSE
  <2>1. PICK i \in 1..n : rest[i].type = "waterfall" /\ rest[i].ask = m.ask
    BY <1>1, <1>10 DEF Waits
  <2>2. rest[i] \in Messages
    BY <1>1, <1>2, ElementOfSeq
  <2>3. rest[i] = m
    BY <1>2, <1>10, <2>1, <2>2 DEF Messages
  <2>4. i + 1 \in 1..(n + 1) /\ i + 1 # 1 /\ box[i + 1] = box[1]
    BY <1>2, <1>3, <2>3
  <2> QED BY <1>2, <1>4, <1>7, <1>10, <2>4
<1> QED BY <1>1, <1>2, <1>5, <1>6, <1>9, <1>10

\* An ask gets older only.
Older(as, bs) ==
  \A a \in Asks : (as[a] # "new" => bs[a] # "new") /\ (as[a] = "closed" => bs[a] = "closed")

LEMMA BoxAges ==
  ASSUME NEW as, NEW bs, Older(as, bs), NEW box, BoxSound(as, box)
  PROVE  BoxSound(bs, box)
  BY DEF BoxSound, Older

\* A message more is heard: the ask is over, or it is new on this connection.
Comes(kind, bs, box, a) ==
  /\ kind = "cancel" => bs[a] = "closed"
  /\ kind = "waterfall" => bs[a] # "new" /\ ~Waits(box, "waterfall", a)

Kinds == {"waterfall", "cancel"}
SaidOn(box, kind, a) == box \o <<[type |-> kind, ask |-> a]>>
Longer(box, long, kind, a) == \A k, b : Waits(long, k, b) <=> (k = kind /\ b = a) \/ Waits(box, k, b)

LEMMA BoxLonger ==
  ASSUME NEW as, NEW bs, Older(as, bs), NEW box \in Seq(Messages), BoxSound(as, box),
         NEW a \in Asks, NEW kind \in Kinds,
         NEW long, long = SaidOn(box, kind, a), Comes(kind, bs, box, a)
  PROVE  /\ long \in Seq(Messages) /\ BoxSound(bs, long)
         /\ Longer(box, long, kind, a)
<1>1. PICK n : n = Len(box)
  OBVIOUS
<1>0. PICK m : m = [type |-> kind, ask |-> a]
  OBVIOUS
<1>2. m \in Messages /\ m.type = kind /\ m.ask = a
  BY <1>0 DEF Messages, Kinds
<1>3. /\ n \in Nat /\ long \in Seq(Messages) /\ Len(long) = n + 1 /\ long[n + 1] = m
      /\ \A i \in 1..n : long[i] = box[i]
  <2>1. long = Append(box, m)
    BY <1>0, <1>2, AppendIsConcat DEF SaidOn
  <2>2. n \in Nat
    BY <1>1, LenProperties
  <2>3. /\ Append(box, m) \in Seq(Messages) /\ Len(Append(box, m)) = n + 1 /\ Append(box, m)[n + 1] = m
        /\ \A i \in 1..n : Append(box, m)[i] = box[i]
    BY <1>1, <1>2, <2>2, AppendProperties
  <2> QED BY <2>1, <2>2, <2>3
<1>4. /\ n + 1 \in 1..(n + 1) /\ \A i \in 1..(n + 1) : i = n + 1 \/ i \in 1..n
      /\ \A i \in 1..n : i \in 1..(n + 1)
  BY <1>3
<1>5. ASSUME NEW k, NEW b PROVE Waits(long, k, b) <=> (k = kind /\ b = a) \/ Waits(box, k, b)
  <2>1. Waits(long, k, b) <=> \E i \in 1..(n + 1) : long[i].type = k /\ long[i].ask = b
    BY <1>3 DEF Waits
  <2>2. Waits(box, k, b) <=> \E i \in 1..n : box[i].type = k /\ box[i].ask = b
    BY <1>1 DEF Waits
  <2> QED BY <1>2, <1>3, <1>4, <2>1, <2>2
<1>6. \A b \in Asks : Waits(long, "cancel", b) => bs[b] = "closed"
  BY <1>5 DEF BoxSound, Older, Comes
<1>7. \A b \in Asks : Waits(long, "waterfall", b) => bs[b] # "new"
  BY <1>5 DEF BoxSound, Older, Comes
<1>8. \A i, j \in 1..n : box[i].type = "waterfall" /\ box[j] = box[i] => i = j
  BY <1>1 DEF BoxSound
<1>9. \A i \in 1..n : ~(box[i] = m /\ m.type = "waterfall")
  BY <1>1, <1>2 DEF Waits, Comes
<1>10. \A i, j \in 1..(n + 1) : long[i].type = "waterfall" /\ long[j] = long[i] => i = j
  BY <1>3, <1>4, <1>8, <1>9
<1>11. BoxSound(bs, long)
  BY <1>3, <1>6, <1>7, <1>10 DEF BoxSound
<1> QED BY <1>3, <1>5, <1>11 DEF Longer

LEMMA NoBox ==
  ASSUME NEW as, NEW box, box = <<>>
  PROVE  BoxSound(as, box) /\ \A kind, a : ~Waits(box, kind, a)
<1>1. Len(box) = 0 /\ 1..0 = {}
  BY EmptySeq
<1> QED BY <1>1 DEF BoxSound, Waits

\* A stream that opens offers every ask that is still open, once.
LEMMA BoxOpened ==
  ASSUME NEW as \in [Asks -> {"new", "open", "closed"}],
         NEW replay \in SetToSeqs({a \in Asks : as[a] = "open"}),
         NEW box, box = <<[type |-> "ready", ask |-> NoAsk]>> \o
                        [i \in 1..Len(replay) |-> [type |-> "waterfall", ask |-> replay[i]]]
  PROVE  /\ box \in Seq(Messages) /\ BoxSound(as, box)
         /\ \A a \in Asks : Waits(box, "waterfall", a) => as[a] = "open"
<1> DEFINE Open == {a \in Asks : as[a] = "open"}
           d == Cardinality(Open)
<1>1. d \in Nat
  <2>1. IsFiniteSet(Open)
    BY InteractionsAssumption, FS_Subset
  <2> QED BY <2>1, FS_CardinalityType
<1>2. replay \in [1..d -> Open] /\ \A i, j \in 1..d : i # j => replay[i] # replay[j]
  BY DEF SetToSeqs
<1> HIDE DEF d
<1>3. replay \in Seq(Open) /\ Len(replay) = d
  <2>1. PICK S : S = Open
    OBVIOUS
  <2>2. replay \in [1..d -> S]
    BY <1>2, <2>1
  <2> HIDE DEF Open
  <2>3. replay \in Seq(S) /\ Len(replay) = d
    BY <1>1, <2>2
  <2> QED BY <2>1, <2>3
<1>4. PICK hello : hello = [type |-> "ready", ask |-> NoAsk]
  OBVIOUS
<1>5. PICK offers : offers = [i \in 1..d |-> [type |-> "waterfall", ask |-> replay[i]]]
  OBVIOUS
<1>6. hello \in Messages /\ hello.type = "ready"
  BY <1>4 DEF Messages
<1>7. \A i \in 1..d : replay[i] \in Asks /\ as[replay[i]] = "open"
  BY <1>2
<1>8. /\ offers \in Seq(Messages) /\ Len(offers) = d
      /\ \A i \in 1..d : offers[i] = [type |-> "waterfall", ask |-> replay[i]]
  <2>1. \A i \in 1..d : [type |-> "waterfall", ask |-> replay[i]] \in Messages
    BY <1>7 DEF Messages
  <2>2. [i \in 1..d |-> [type |-> "waterfall", ask |-> replay[i]]] \in Seq(Messages)
    BY <1>1, <2>1, IsASeq
  <2> QED BY <1>1, <1>5, <2>2
<1>9. box = <<hello>> \o offers
  BY <1>3, <1>4, <1>5
<1>10. /\ box \in Seq(Messages) /\ Len(box) = d + 1 /\ box[1] = hello
       /\ \A i \in 1..d : box[i + 1] = offers[i]
  <2>1. <<hello>> \in Seq(Messages) /\ Len(<<hello>>) = 1 /\ <<hello>>[1] = hello
    BY <1>6
  <2>2. PICK one \in Seq(Messages) : one = <<hello>> /\ Len(one) = 1 /\ one[1] = hello
    BY <2>1
  <2>3. /\ one \o offers \in Seq(Messages) /\ Len(one \o offers) = 1 + d
        /\ \A i \in 1..(1 + d) : (one \o offers)[i] = IF i <= 1 THEN one[i] ELSE offers[i - 1]
    BY <1>8, <2>2, ConcatProperties
  <2>4. 1 + d = d + 1 /\ 1 \in 1..(1 + d)
    BY <1>1
  <2>5. \A i \in 1..d : i + 1 \in 1..(1 + d) /\ ~(i + 1 <= 1) /\ (i + 1) - 1 = i
    BY <1>1
  <2>6. PICK all : all = one \o offers
    OBVIOUS
  <2>7. all[1] = hello
    BY <2>2, <2>3, <2>4, <2>6
  <2>8. \A i \in 1..d : all[i + 1] = offers[i]
    BY <2>3, <2>5, <2>6
  <2>9. box = all
    BY <1>9, <2>2, <2>6
  <2> QED BY <2>3, <2>4, <2>6, <2>7, <2>8, <2>9
<1>11. \A i \in 1..(d + 1) : i # 1 => \E k \in 1..d : i = k + 1
  <2> SUFFICES ASSUME NEW i \in 1..(d + 1), i # 1 PROVE \E k \in 1..d : i = k + 1
    OBVIOUS
  <2>1. i - 1 \in 1..d /\ i = (i - 1) + 1
    BY <1>1
  <2> QED BY <2>1
<1>12. \A i \in 1..(d + 1) : box[i].type # "ready" =>
         \E k \in 1..d : i = k + 1 /\ box[i].type = "waterfall" /\ box[i].ask = replay[k]
  <2> SUFFICES ASSUME NEW i \in 1..(d + 1), box[i].type # "ready"
               PROVE  \E k \in 1..d : i = k + 1 /\ box[i].type = "waterfall" /\ box[i].ask = replay[k]
    OBVIOUS
  <2>1. i # 1
    BY <1>6, <1>10
  <2>2. PICK k \in 1..d : i = k + 1
    BY <1>11, <2>1
  <2>3. box[i].type = "waterfall" /\ box[i].ask = replay[k]
    <3>1. PICK r : r = replay[k]
      OBVIOUS
    <3>2. PICK b : b = box[i]
      OBVIOUS
    <3>3. b = [type |-> "waterfall", ask |-> r]
      BY <1>8, <1>10, <2>2, <3>1, <3>2
    <3>4. b.type = "waterfall" /\ b.ask = r
      BY ONLY <3>3
    <3> QED BY <3>1, <3>2, <3>4
  <2> QED BY <2>2, <2>3
<1>13. \A a : Waits(box, "waterfall", a) => \E k \in 1..d : replay[k] = a
  <2> SUFFICES ASSUME NEW a, NEW i \in 1..(d + 1), box[i].type = "waterfall", box[i].ask = a
               PROVE  \E k \in 1..d : replay[k] = a
    BY <1>10 DEF Waits
  <2>1. PICK k \in 1..d : box[i].type = "waterfall" /\ box[i].ask = replay[k]
    BY <1>12
  <2> QED BY <2>1
<1>14. \A a : ~Waits(box, "cancel", a)
  <2> SUFFICES ASSUME NEW a, NEW i \in 1..(d + 1), box[i].type = "cancel" PROVE FALSE
    BY <1>10 DEF Waits
  <2>1. PICK k \in 1..d : box[i].type = "waterfall" /\ box[i].ask = replay[k]
    BY <1>12
  <2> QED BY <2>1
<1>15. \A i, j \in 1..(d + 1) : box[i].type = "waterfall" /\ box[j] = box[i] => i = j
  <2> SUFFICES ASSUME NEW i \in 1..(d + 1), NEW j \in 1..(d + 1), box[i].type = "waterfall", box[j] = box[i]
               PROVE  i = j
    OBVIOUS
  <2>0. box[i].type # "ready" /\ box[j].type # "ready"
    OBVIOUS
  <2>1. PICK k \in 1..d : i = k + 1 /\ box[i].ask = replay[k]
    BY <1>12, <2>0
  <2>2. PICK l \in 1..d : j = l + 1 /\ box[j].ask = replay[l]
    BY <1>12, <2>0
  <2>3. replay[k] = replay[l]
    BY <2>1, <2>2
  <2>4. k = l
    BY <1>2, <2>3
  <2> QED BY <2>1, <2>2, <2>4
<1>16. \A a \in Asks : Waits(box, "waterfall", a) => as[a] = "open"
  BY <1>7, <1>13
<1>17. BoxSound(as, box)
  <2>1. \A a \in Asks : Waits(box, "cancel", a) => as[a] = "closed"
    BY ONLY <1>14
  <2>2. \A a \in Asks : Waits(box, "waterfall", a) => as[a] # "new"
    BY ONLY <1>16
  <2>3. \A i, j \in 1..Len(box) : box[i].type = "waterfall" /\ box[j] = box[i] => i = j
    BY ONLY <1>10, <1>15
  <2> QED BY ONLY <2>1, <2>2, <2>3 DEF BoxSound
<1> QED BY <1>10, <1>16, <1>17

-----------------------------------------------------------------------------
(* What a phone is told is what is pending.                                *)

LEMMA PhoneStays ==
  ASSUME NEW s, NEW sees, NEW keys, NEW as, NEW bs, Older(as, bs), NEW box, NEW rest, 
         \A a \in Asks : as[a] = "closed" /\ Waits(rest, "waterfall", a) => Waits(box, "waterfall", a),
         PhoneSound(s, sees, keys, as, box)
  PROVE  PhoneSound(s, sees, keys, bs, rest)
<1>1. \A a \in Asks : Over(as, box, a) => Over(bs, rest, a)
  BY DEF Over, Older
<1> QED BY <1>1 DEF PhoneSound

LEMMA ToldRequest ==
  ASSUME NEW s \in GoodStreams, ~s.done, NEW sees, NEW keys, NEW as, NEW box,
         PhoneSound(s, sees, keys, as, box),
         NEW a \in Asks, ~Contains(keys, a), Waits(box, "waterfall", a),
         NEW rest, Fewer(box, rest),
         NEW more, \A b : Contains(more, b) <=> b = a \/ Contains(keys, b),
         NEW t, t = AskEnqueued(s, Requested(a))
  PROVE  t.done \/ PhoneSound(t, sees, more, as, rest)
<1>1. PICK frame \in Frame : frame = Requested(a)
  BY RequestedIs
<1>2. frame.ask = a /\ frame.type = "requested"
  BY <1>1, RequestedIs
<1>3. ~Contains(s.seenOrder, frame)
  BY <1>1 DEF PhoneSound, Over
<1>4. t.done \/ Appended(s, t, frame)
  BY <1>1, <1>3, EnqueuedFacts
<1> SUFFICES ASSUME Appended(s, t, frame) PROVE PhoneSound(t, sees, more, as, rest)
  BY <1>4
<1>5. /\ t.queue = Append(s.queue, frame)
      /\ \A f : Contains(t.seenOrder, f) => f = frame \/ Contains(s.seenOrder, f)
  BY DEF Appended
<1>6. s.queue \in Seq(Frame)
  BY StreamFields
<1>7. PICK queue \in Seq(Frame) : queue = s.queue
  BY <1>6
<1>8. PICK long : long = Append(queue, frame)
  OBVIOUS
<1>9. \A b \in Asks : Tells(long, sees, b) <=> IF b = a THEN TRUE ELSE Tells(queue, sees, b)
  BY <1>2, <1>8, TellsAppended
<1>10. \A b \in Asks : Tells(t.queue, sees, b) <=> IF b = a THEN TRUE ELSE Tells(s.queue, sees, b)
  BY <1>5, <1>7, <1>8, <1>9
<1>11. \A b \in Asks : Over(as, box, b) => Over(as, rest, b)
  BY DEF Over, Fewer
<1>12. \A b \in Asks : Requested(b) = frame => b = a
  BY <1>1, RequestedIs
<1>13. \A b \in Asks : Resolved(b) # frame
  BY <1>1 DEF Requested, Resolved
<1>14. ASSUME NEW b \in Asks PROVE Tells(t.queue, sees, b) <=> Contains(more, b)
  BY <1>10 DEF PhoneSound
<1>15. ASSUME NEW b \in Asks, Contains(t.seenOrder, Requested(b)), ~Contains(more, b)
       PROVE  Over(as, rest, b)
  BY <1>5, <1>11, <1>12, <1>15 DEF PhoneSound
<1>16. ASSUME NEW b \in Asks, Contains(t.seenOrder, Resolved(b))
       PROVE  Over(as, rest, b) /\ ~Contains(more, b)
  <2>1. Over(as, box, b) /\ ~Contains(keys, b)
    BY <1>5, <1>13, <1>16 DEF PhoneSound
  <2>2. b # a
    BY <2>1 DEF Over
  <2> QED BY <1>11, <2>1, <2>2
<1> QED BY <1>14, <1>15, <1>16 DEF PhoneSound

LEMMA ToldResolved ==
  ASSUME NEW s \in GoodStreams, ~s.done, NEW sees, NEW keys, NEW as, NEW box,
         PhoneSound(s, sees, keys, as, box),
         NEW a \in Asks, Contains(keys, a), as[a] = "closed", ~Waits(box, "waterfall", a),
         NEW rest, Fewer(box, rest),
         NEW less, \A b : Contains(less, b) <=> b # a /\ Contains(keys, b),
         NEW t, t = AskEnqueued(s, Resolved(a))
  PROVE  t.done \/ PhoneSound(t, sees, less, as, rest)
<1>1. PICK frame \in Frame : frame = Resolved(a)
  BY RequestedIs
<1>2. frame.ask = a /\ frame.type = "resolved"
  BY <1>1, RequestedIs
<1>3. ~Contains(s.seenOrder, frame)
  BY <1>1 DEF PhoneSound
<1>4. t.done \/ Appended(s, t, frame)
  BY <1>1, <1>3, EnqueuedFacts
<1> SUFFICES ASSUME Appended(s, t, frame) PROVE PhoneSound(t, sees, less, as, rest)
  BY <1>4
<1>5. /\ t.queue = Append(s.queue, frame)
      /\ \A f : Contains(t.seenOrder, f) => f = frame \/ Contains(s.seenOrder, f)
  BY DEF Appended
<1>6. s.queue \in Seq(Frame)
  BY StreamFields
<1>7. PICK queue \in Seq(Frame) : queue = s.queue
  BY <1>6
<1>8. PICK long : long = Append(queue, frame)
  OBVIOUS
<1>9. \A b \in Asks : Tells(long, sees, b) <=> IF b = a THEN FALSE ELSE Tells(queue, sees, b)
  BY <1>2, <1>8, TellsAppended
<1>10. \A b \in Asks : Tells(t.queue, sees, b) <=> IF b = a THEN FALSE ELSE Tells(s.queue, sees, b)
  BY <1>5, <1>7, <1>8, <1>9
<1>11. \A b \in Asks : Over(as, box, b) => Over(as, rest, b)
  BY DEF Over, Fewer
<1>12. \A b \in Asks : Resolved(b) = frame => b = a
  BY <1>1, RequestedIs
<1>13. \A b \in Asks : Requested(b) # frame
  BY <1>1 DEF Requested, Resolved
<1>14. Over(as, rest, a)
  BY <1>11 DEF Over
<1>15. ASSUME NEW b \in Asks PROVE Tells(t.queue, sees, b) <=> Contains(less, b)
  BY <1>10 DEF PhoneSound
<1>16. ASSUME NEW b \in Asks, Contains(t.seenOrder, Requested(b)), ~Contains(less, b)
       PROVE  Over(as, rest, b)
  BY <1>5, <1>11, <1>13, <1>14, <1>16 DEF PhoneSound
<1>17. ASSUME NEW b \in Asks, Contains(t.seenOrder, Resolved(b))
       PROVE  Over(as, rest, b) /\ ~Contains(less, b)
  BY <1>5, <1>11, <1>12, <1>14, <1>17 DEF PhoneSound
<1> QED BY <1>15, <1>16, <1>17 DEF PhoneSound

-----------------------------------------------------------------------------
(* What the bridge says reaches the hub and the phones.                    *)

Hubs(frames, controls, streams) ==
  /\ frames \in OnceKeys /\ controls \in OnceKeys
  /\ streams \in [AskPhones -> GoodStreams]

LEMMA HubsOf ==
  ASSUME BridgeIInv
  PROVE  /\ Hubs(interactionFrames, pendingControls, subscriber)
         /\ pending \in OnceKeys
<1>1. pending \in OnceKeys
  BY DEF BridgeIInv, BridgeTyped, PendingSound, OnceKeys
<1>2. /\ interactionFrames \in Seq(Asks) /\ pendingControls \in Seq(Asks)
      /\ subscriber \in [AskPhones -> GoodStreams]
  BY DEF BridgeIInv, BridgeTyped
<1>3. CASE attached
  <2>1. interactionFrames = pending /\ KeysOnce(pendingControls)
    BY <1>3 DEF BridgeIInv, HubSound
  <2> QED BY <1>1, <1>2, <2>1 DEF Hubs, OnceKeys
<1>4. CASE ~attached
  <2>1. interactionFrames = <<>> /\ pendingControls = <<>>
    BY <1>4 DEF BridgeIInv, HubSound
  <2> QED BY <1>1, <1>2, <2>1, EmptyKeys DEF Hubs
<1> QED BY <1>3, <1>4 DEF BridgeIInv, BridgeTyped

LEMMA TellOne ==
  ASSUME Hubs(interactionFrames, pendingControls, subscriber), NEW frame \in Frame, TellHub(<<frame>>)
  PROVE  /\ attached' = attached
         /\ subscriber' \in [AskPhones -> GoodStreams]
         /\ \A p \in AskPhones : subscriber'[p].on = subscriber[p].on
         /\ attached => /\ interactionFrames' = AskIngested(interactionFrames, frame)
                        /\ pendingControls' = AskIngested(pendingControls, frame)
                        /\ \A p \in AskPhones : subscriber'[p] = AskEnqueued(subscriber[p], frame)
         /\ ~attached => UNCHANGED <<interactionFrames, pendingControls, subscriber>>
<1>1. CASE ~attached
  BY <1>1 DEF TellHub, askHub, Hubs
<1>2. CASE attached
  <2>1. /\ interactionFrames' = FoldLeft(AskIngested, interactionFrames, <<frame>>)
        /\ pendingControls' = FoldLeft(AskIngested, pendingControls, <<frame>>)
        /\ subscriber' = [p \in AskPhones |-> FoldLeft(AskEnqueued, subscriber[p], <<frame>>)]
        /\ attached' = attached
    BY <1>2 DEF TellHub
  <2>2. /\ interactionFrames' = AskIngested(interactionFrames, frame)
        /\ pendingControls' = AskIngested(pendingControls, frame)
    BY <2>1, FoldOne DEF Hubs
  <2>3. \A p \in AskPhones : subscriber[p] \in GoodStreams
    BY DEF Hubs
  <2>4. \A p \in AskPhones : subscriber'[p] = AskEnqueued(subscriber[p], frame)
    BY <2>1, <2>3, FoldOne
  <2>5. ASSUME NEW p \in AskPhones
        PROVE  subscriber'[p] \in GoodStreams /\ subscriber'[p].on = subscriber[p].on
    BY <2>3, <2>4, EnqueuedFacts
  <2>6. DOMAIN subscriber' = AskPhones /\ subscriber' = [p \in AskPhones |-> subscriber'[p]]
    BY <2>1
  <2>7. subscriber' \in [AskPhones -> GoodStreams]
    BY <2>5, <2>6
  <2> QED BY <1>2, <2>1, <2>2, <2>4, <2>5, <2>7
<1> QED BY <1>1, <1>2

LEMMA TellNone ==
  ASSUME Hubs(interactionFrames, pendingControls, subscriber), TellHub(<<>>)
  PROVE  UNCHANGED <<attached, interactionFrames, pendingControls, subscriber>>
<1>1. CASE ~attached
  BY <1>1 DEF TellHub, askHub
<1>2. CASE attached
  <2>1. /\ interactionFrames' = FoldLeft(AskIngested, interactionFrames, <<>>)
        /\ pendingControls' = FoldLeft(AskIngested, pendingControls, <<>>)
        /\ subscriber' = [p \in AskPhones |-> FoldLeft(AskEnqueued, subscriber[p], <<>>)]
        /\ attached' = attached
    BY <1>2 DEF TellHub
  <2>2. interactionFrames' = interactionFrames /\ pendingControls' = pendingControls
    BY <2>1, FoldNone DEF Hubs
  <2>3. subscriber \in [AskPhones -> GoodStreams]
    BY DEF Hubs
  <2>4. \A p \in AskPhones : FoldLeft(AskEnqueued, subscriber[p], <<>>) = subscriber[p]
    BY <2>3, FoldNone
  <2>5. subscriber' = [p \in AskPhones |-> subscriber[p]]
    BY <2>1, <2>4
  <2>6. subscriber' = subscriber
    BY <2>3, <2>5
  <2> QED BY <2>1, <2>2, <2>6
<1> QED BY <1>1, <1>2

LEMMA TellAll ==
  ASSUME Hubs(interactionFrames, pendingControls, subscriber), pending \in OnceKeys,
         HubSound(attached, interactionFrames, pendingControls, pending, subscriber),
         interactionFrames \in Seq(Asks), pendingControls \in Seq(Asks),
         TellHub(Withdrawals(pending))
  PROVE  /\ attached' = attached
         /\ interactionFrames' = <<>> /\ pendingControls' = <<>>
         /\ subscriber' \in [AskPhones -> GoodStreams]
         /\ \A p \in AskPhones : subscriber'[p].on = subscriber[p].on
<1>1. CASE ~attached
  BY <1>1 DEF TellHub, askHub, Hubs, HubSound
<1>2. CASE attached
  <2>0. PICK frames \in Seq(Frame) : frames = Withdrawals(pending)
    BY SequencesOfFrames DEF OnceKeys
  <2>1. /\ interactionFrames' = FoldLeft(AskIngested, interactionFrames, Withdrawals(pending))
        /\ pendingControls' = FoldLeft(AskIngested, pendingControls, Withdrawals(pending))
        /\ subscriber' = [p \in AskPhones |-> FoldLeft(AskEnqueued, subscriber[p], frames)]
        /\ attached' = attached
    BY <1>2, <2>0 DEF TellHub
  <2>2. interactionFrames = pending /\ \A b \in Asks : Contains(pendingControls, b) => Contains(pending, b)
    BY <1>2 DEF HubSound
  <2>3. \A b : Contains(pendingControls, b) => b \in Asks
    BY ElementOfSeq DEF Contains
  <2>4. interactionFrames' = <<>>
    BY <2>1, <2>2, AllWithdrawn
  <2>5. \A b : Contains(pendingControls, b) => Contains(pending, b)
    BY <2>2, <2>3
  <2>6. pendingControls' = <<>>
    BY <2>1, <2>5, AllWithdrawn DEF Hubs
  <2>7. \A p \in AskPhones : subscriber[p] \in GoodStreams
    BY DEF Hubs
  <2>8. ASSUME NEW p \in AskPhones
        PROVE  subscriber'[p] \in GoodStreams /\ subscriber'[p].on = subscriber[p].on
    <3>1. PICK t : t = FoldLeft(AskEnqueued, subscriber[p], frames)
      OBVIOUS
    <3>2. t \in GoodStreams /\ t.on = subscriber[p].on
      BY <2>7, <3>1, ToldStays
    <3>3. subscriber'[p] = t
      BY <2>1, <3>1
    <3> QED BY <3>2, <3>3
  <2>9. subscriber' = [p \in AskPhones |-> subscriber'[p]]
    BY <2>1
  <2>10. subscriber' \in [AskPhones -> GoodStreams]
    BY <2>8, <2>9
  <2> QED BY <2>1, <2>4, <2>6, <2>8, <2>10
<1> QED BY <1>1, <1>2

\* A stream that still runs after a frame ran before it.
LEMMA RanBefore ==
  ASSUME NEW s \in GoodStreams, NEW frame \in Frame, NEW t, t = AskEnqueued(s, frame), ~t.done
  PROVE  ~s.done
  BY EnqueuedFacts DEF Appended

\* A new ask: it is pending, and every phone is told.
LEMMA RequestStep ==
  ASSUME BridgeIInv, NEW a \in Asks, ~Contains(pending, a), Waits(inbox, "waterfall", a),
         pending' = WithKey(pending, a), TellHub(<<Requested(a)>>),
         UNCHANGED <<asks, shown, fresh>>, Fewer(inbox, inbox'), ~Waits(inbox', "waterfall", a)
  PROVE  /\ pending' \in Seq(Asks) /\ PendingSound(asks', inbox', pending')
         /\ interactionFrames' \in Seq(Asks) /\ pendingControls' \in Seq(Asks)
         /\ attached' \in BOOLEAN
         /\ subscriber' \in [AskPhones -> GoodStreams]
         /\ HubSound(attached', interactionFrames', pendingControls', pending', subscriber')
         /\ \A p \in AskPhones : Listening(p)' /\ fresh'[p] =>
              PhoneSound(subscriber'[p], shown'[p], pending', asks', inbox')
<1>1. PICK frame \in Frame : frame = Requested(a)
  BY RequestedIs
<1>2. frame.type = "requested" /\ frame.ask = a
  BY <1>1, RequestedIs
<1>3. Hubs(interactionFrames, pendingControls, subscriber) /\ pending \in OnceKeys
  BY HubsOf
<1>4. /\ pending' \in OnceKeys
      /\ \A b : Contains(pending', b) <=> b = a \/ Contains(pending, b)
  BY <1>3, WithKeyFacts
<1>5. PendingSound(asks', inbox', pending')
  <2>1. KeysOnce(pending')
    BY <1>4 DEF OnceKeys
  <2>2. asks[a] # "new"
    BY DEF BridgeIInv, BoxSound
  <2>3. \A b \in Asks : Contains(pending, b) => asks[b] # "new" /\ ~Waits(inbox, "waterfall", b)
    BY DEF BridgeIInv, PendingSound
  <2>4. \A b \in Asks : Contains(pending', b) => asks[b] # "new" /\ ~Waits(inbox', "waterfall", b)
    BY <1>4, <2>2, <2>3 DEF Fewer
  <2> QED BY <2>1, <2>4 DEF PendingSound
<1>6. TellHub(<<frame>>)
  BY <1>1
<1>7. /\ attached' = attached
      /\ subscriber' \in [AskPhones -> GoodStreams]
      /\ \A p \in AskPhones : subscriber'[p].on = subscriber[p].on
      /\ attached => /\ interactionFrames' = AskIngested(interactionFrames, frame)
                     /\ pendingControls' = AskIngested(pendingControls, frame)
                     /\ \A p \in AskPhones : subscriber'[p] = AskEnqueued(subscriber[p], frame)
      /\ ~attached => UNCHANGED <<interactionFrames, pendingControls, subscriber>>
  BY <1>3, <1>6, TellOne
<1>8. attached \in BOOLEAN
  BY DEF BridgeIInv, BridgeTyped
<1>9. CASE attached
  <2>1. interactionFrames' = WithKey(interactionFrames, a) /\ pendingControls' = WithKey(pendingControls, a)
    BY <1>2, <1>7, <1>9 DEF AskIngested
  <2>2. /\ interactionFrames = pending
        /\ \A b \in Asks : Contains(pendingControls, b) => Contains(pending, b)
    BY <1>9 DEF BridgeIInv, HubSound
  <2>3. /\ pendingControls' \in OnceKeys
        /\ \A b : Contains(pendingControls', b) <=> b = a \/ Contains(pendingControls, b)
    BY <1>3, <2>1, WithKeyFacts DEF Hubs
  <2>4. interactionFrames' = pending'
    BY <2>1, <2>2
  <2>5. KeysOnce(pendingControls') /\ pendingControls' \in Seq(Asks) /\ pending' \in Seq(Asks)
    BY <1>4, <2>3 DEF OnceKeys
  <2>6. \A b \in Asks : Contains(pendingControls', b) => Contains(pending', b)
    BY <1>4, <2>2, <2>3
  <2>7. HubSound(attached', interactionFrames', pendingControls', pending', subscriber')
    BY <1>7, <1>9, <2>4, <2>5, <2>6 DEF HubSound
  <2>8. ASSUME NEW p \in AskPhones, Listening(p)', fresh'[p]
        PROVE  PhoneSound(subscriber'[p], shown'[p], pending', asks', inbox')
    <3>1. PICK s \in GoodStreams : s = subscriber[p]
      BY <1>3 DEF Hubs
    <3>2. PICK t : t = subscriber'[p]
      OBVIOUS
    <3>3. t = AskEnqueued(s, frame) /\ ~t.done /\ t.on /\ s.on
      BY <1>7, <1>9, <2>8, <3>1, <3>2 DEF Listening
    <3>4. ~s.done
      BY <3>3, RanBefore
    <3>5. fresh[p]
      BY <2>8
    <3>6. PICK sees : sees = shown[p]
      OBVIOUS
    <3>7. PhoneSound(s, sees, pending, asks, inbox)
      BY <3>1, <3>3, <3>4, <3>5, <3>6 DEF BridgeIInv, Listening
    <3>8. PICK more, rest : more = pending' /\ rest = inbox'
      OBVIOUS
    <3>9. \A b : Contains(more, b) <=> b = a \/ Contains(pending, b)
      BY <1>4, <3>8
    <3>10. t.done \/ PhoneSound(t, sees, more, asks, rest)
      BY <1>1, <3>3, <3>4, <3>7, <3>8, <3>9, ToldRequest
    <3>11. PhoneSound(t, sees, more, asks, rest)
      BY <3>3, <3>10
    <3> QED BY <3>2, <3>6, <3>8, <3>11
  <2> QED BY <1>5, <1>7, <1>8, <2>4, <2>5, <2>7, <2>8
<1>10. CASE ~attached
  <2>1. /\ interactionFrames = <<>> /\ pendingControls = <<>>
        /\ \A p \in AskPhones : ~subscriber[p].on
    BY <1>10 DEF BridgeIInv, HubSound
  <2>2. HubSound(attached', interactionFrames', pendingControls', pending', subscriber')
    BY <1>7, <1>10, <2>1 DEF HubSound
  <2>3. \A p \in AskPhones : ~Listening(p)'
    BY <1>7, <2>1 DEF Listening
  <2>4. pending' \in Seq(Asks) /\ interactionFrames' \in Seq(Asks) /\ pendingControls' \in Seq(Asks)
    BY <1>4, <1>7, <1>10, <2>1, EmptyKeys DEF OnceKeys
  <2> QED BY <1>5, <1>7, <1>8, <2>2, <2>3, <2>4
<1> QED BY <1>8, <1>9, <1>10

\* An ask that is over leaves, if it was there, and then every phone is told.
LEMMA WithdrawStep ==
  ASSUME BridgeIInv, NEW a \in Asks, Contains(pending, a), asks[a] = "closed",
         pending' = WithoutKey(pending, a), TellHub(<<Resolved(a)>>),
         UNCHANGED <<asks, shown, fresh>>, Fewer(inbox, inbox')
  PROVE  /\ pending' \in Seq(Asks) /\ PendingSound(asks', inbox', pending')
         /\ interactionFrames' \in Seq(Asks) /\ pendingControls' \in Seq(Asks)
         /\ attached' \in BOOLEAN
         /\ subscriber' \in [AskPhones -> GoodStreams]
         /\ HubSound(attached', interactionFrames', pendingControls', pending', subscriber')
         /\ \A p \in AskPhones : Listening(p)' /\ fresh'[p] =>
              PhoneSound(subscriber'[p], shown'[p], pending', asks', inbox')
<1>1. PICK frame \in Frame : frame = Resolved(a)
  BY RequestedIs
<1>2. frame.type = "resolved" /\ frame.ask = a
  BY <1>1, RequestedIs
<1>3. Hubs(interactionFrames, pendingControls, subscriber) /\ pending \in OnceKeys
  BY HubsOf
<1>4. /\ pending' \in OnceKeys
      /\ \A b : Contains(pending', b) <=> b # a /\ Contains(pending, b)
  BY <1>3, WithoutKeyFacts
<1>5. PendingSound(asks', inbox', pending')
  <2>1. KeysOnce(pending')
    BY <1>4 DEF OnceKeys
  <2>3. \A b \in Asks : Contains(pending, b) => asks[b] # "new" /\ ~Waits(inbox, "waterfall", b)
    BY DEF BridgeIInv, PendingSound
  <2>4. \A b \in Asks : Contains(pending', b) => asks[b] # "new" /\ ~Waits(inbox', "waterfall", b)
    BY <1>4, <2>3 DEF Fewer
  <2> QED BY <2>1, <2>4 DEF PendingSound
<1>6. TellHub(<<frame>>)
  BY <1>1
<1>7. /\ attached' = attached
      /\ subscriber' \in [AskPhones -> GoodStreams]
      /\ \A p \in AskPhones : subscriber'[p].on = subscriber[p].on
      /\ attached => /\ interactionFrames' = AskIngested(interactionFrames, frame)
                     /\ pendingControls' = AskIngested(pendingControls, frame)
                     /\ \A p \in AskPhones : subscriber'[p] = AskEnqueued(subscriber[p], frame)
      /\ ~attached => UNCHANGED <<interactionFrames, pendingControls, subscriber>>
  BY <1>3, <1>6, TellOne
<1>8. attached \in BOOLEAN
  BY DEF BridgeIInv, BridgeTyped
<1>9. CASE attached
  <2>1. interactionFrames' = WithoutKey(interactionFrames, a) /\ pendingControls' = WithoutKey(pendingControls, a)
    BY <1>2, <1>7, <1>9 DEF AskIngested
  <2>2. /\ interactionFrames = pending
        /\ \A b \in Asks : Contains(pendingControls, b) => Contains(pending, b)
    BY <1>9 DEF BridgeIInv, HubSound
  <2>3. /\ pendingControls' \in OnceKeys
        /\ \A b : Contains(pendingControls', b) <=> b # a /\ Contains(pendingControls, b)
    BY <1>3, <2>1, WithoutKeyFacts DEF Hubs
  <2>4. interactionFrames' = pending'
    BY <2>1, <2>2
  <2>5. KeysOnce(pendingControls') /\ pendingControls' \in Seq(Asks) /\ pending' \in Seq(Asks)
    BY <1>4, <2>3 DEF OnceKeys
  <2>6. \A b \in Asks : Contains(pendingControls', b) => Contains(pending', b)
    BY <1>4, <2>2, <2>3
  <2>7. HubSound(attached', interactionFrames', pendingControls', pending', subscriber')
    BY <1>7, <1>9, <2>4, <2>5, <2>6 DEF HubSound
  <2>8. ASSUME NEW p \in AskPhones, Listening(p)', fresh'[p]
        PROVE  PhoneSound(subscriber'[p], shown'[p], pending', asks', inbox')
    <3>1. PICK s \in GoodStreams : s = subscriber[p]
      BY <1>3 DEF Hubs
    <3>2. PICK t : t = subscriber'[p]
      OBVIOUS
    <3>3. t = AskEnqueued(s, frame) /\ ~t.done /\ t.on /\ s.on
      BY <1>7, <1>9, <2>8, <3>1, <3>2 DEF Listening
    <3>4. ~s.done
      BY <3>3, RanBefore
    <3>5. fresh[p]
      BY <2>8
    <3>6. PICK sees : sees = shown[p]
      OBVIOUS
    <3>7. PhoneSound(s, sees, pending, asks, inbox)
      BY <3>1, <3>3, <3>4, <3>5, <3>6 DEF BridgeIInv, Listening
    <3>8. PICK less, rest : less = pending' /\ rest = inbox'
      OBVIOUS
    <3>9. \A b : Contains(less, b) <=> b # a /\ Contains(pending, b)
      BY <1>4, <3>8
    <3>12. ~Waits(inbox, "waterfall", a)
      BY DEF BridgeIInv, PendingSound
    <3>10. t.done \/ PhoneSound(t, sees, less, asks, rest)
      BY <1>1, <3>3, <3>4, <3>7, <3>8, <3>9, <3>12, ToldResolved
    <3>11. PhoneSound(t, sees, less, asks, rest)
      BY <3>3, <3>10
    <3> QED BY <3>2, <3>6, <3>8, <3>11
  <2> QED BY <1>5, <1>7, <1>8, <2>4, <2>5, <2>7, <2>8
<1>10. CASE ~attached
  <2>1. /\ interactionFrames = <<>> /\ pendingControls = <<>>
        /\ \A p \in AskPhones : ~subscriber[p].on
    BY <1>10 DEF BridgeIInv, HubSound
  <2>2. HubSound(attached', interactionFrames', pendingControls', pending', subscriber')
    BY <1>7, <1>10, <2>1 DEF HubSound
  <2>3. \A p \in AskPhones : ~Listening(p)'
    BY <1>7, <2>1 DEF Listening
  <2>4. pending' \in Seq(Asks) /\ interactionFrames' \in Seq(Asks) /\ pendingControls' \in Seq(Asks)
    BY <1>4, <1>7, <1>10, <2>1, EmptyKeys DEF OnceKeys
  <2> QED BY <1>5, <1>7, <1>8, <2>2, <2>3, <2>4
<1> QED BY <1>8, <1>9, <1>10

-----------------------------------------------------------------------------
(* Every step keeps the invariant.                                         *)

LEMMA SentOne ==
  ASSUME NEW as, NEW answers \in [Asks -> Seq(Answers)], NEW flying, AnswerSound(as, answers, flying),
         NEW a \in Asks, answers[a] # <<>>
  PROVE  \E x \in Answers : answers[a] = <<x>> /\ Head(answers[a]) = x /\ Tail(answers[a]) = <<>>
<1>1. PICK q \in Seq(Answers) : q = answers[a]
  OBVIOUS
<1>2. Len(q) <= 1 /\ q # <<>>
  <2>1. Len(answers[a]) <= 1
    BY DEF AnswerSound
  <2> QED BY <1>1, <2>1
<1>3. Len(q) = 1
  <2>1. PICK n : n = Len(q)
    OBVIOUS
  <2>2. n \in Nat \ {0} /\ n <= 1
    BY <1>2, <2>1, EmptySeq
  <2>3. n = 1
    BY ONLY <2>2
  <2> QED BY <2>1, <2>3
<1>4. q[1] \in Answers /\ q = <<q[1]>> /\ Head(q) = q[1]
  <2>1. 1 \in 1..Len(q)
    BY <1>3
  <2>2. PICK x \in Answers : x = q[1]
    BY <2>1, ElementOfSeq
  <2>3. <<x>> \in Seq(Answers) /\ Len(<<x>>) = 1 /\ <<x>>[1] = x
    OBVIOUS
  <2>4. \A i \in 1..Len(q) : q[i] = <<x>>[i]
    BY <1>3, <2>2, <2>3
  <2>5. q = <<x>>
    BY <1>3, <2>3, <2>4, SeqEqual
  <2> QED BY <2>2, <2>5
<1>5. Tail(q) \in Seq(Answers) /\ Len(Tail(q)) = 0
  BY <1>2, <1>3, HeadTailProperties
<1>6. Tail(q) = <<>>
  BY <1>5, EmptySeq
<1> QED BY <1>1, <1>4, <1>6

LEMMA AnswerAges ==
  ASSUME NEW as, NEW bs, Older(as, bs), NEW answers, NEW flying, AnswerSound(as, answers, flying)
  PROVE  AnswerSound(bs, answers, flying)
  BY DEF AnswerSound, Older

\* Nothing moves but what the runtime knows and its stream.
LEMMA OfficialKeeps ==
  ASSUME BridgeIInv, Older(asks, asks'), asks' \in [Asks -> {"new", "open", "closed"}],
         inbox' \in Seq(Messages), BoxSound(asks', inbox'),
         link # "open" => inbox' = inbox,
         \A a \in Asks : (asks[a] = "closed" \/ Contains(pending, a)) /\ Waits(inbox', "waterfall", a)
                           => Waits(inbox, "waterfall", a),
         UNCHANGED <<link, connects, ready, pending, inFlight, askHub, phones>>,
         sent' \in [Asks -> Seq(Answers)], AnswerSound(asks', sent', inFlight)
  PROVE  BridgeIInv'
<1>1. /\ link' = link /\ connects' = connects /\ ready' = ready /\ pending' = pending
      /\ inFlight' = inFlight /\ attached' = attached
      /\ interactionFrames' = interactionFrames /\ pendingControls' = pendingControls
      /\ subscriber' = subscriber /\ shown' = shown /\ fresh' = fresh
  BY DEF askHub, phones
<1>2. BridgeTyped'
  BY <1>1 DEF BridgeIInv, BridgeTyped
<1>3. PendingSound(asks', inbox', pending')
  BY <1>1 DEF BridgeIInv, PendingSound, Older
<1>4. link' # "open" => inbox' = <<>> /\ pending' = <<>>
  BY <1>1 DEF BridgeIInv
<1>5. HubSound(attached', interactionFrames', pendingControls', pending', subscriber')
  BY <1>1 DEF BridgeIInv
<1>6. ASSUME NEW p \in AskPhones, Listening(p)', fresh'[p]
      PROVE  PhoneSound(subscriber'[p], shown'[p], pending', asks', inbox')
  <2>1. Listening(p) /\ fresh[p]
    BY <1>1, <1>6 DEF Listening
  <2>2. PhoneSound(subscriber[p], shown[p], pending, asks, inbox)
    BY <2>1 DEF BridgeIInv
  <2>3. PICK s, sees, keys, as, bs, box, rest :
          /\ s = subscriber[p] /\ sees = shown[p] /\ keys = pending
          /\ as = asks /\ bs = asks' /\ box = inbox /\ rest = inbox'
    OBVIOUS
  <2>4. \A a \in Asks : as[a] = "closed" /\ Waits(rest, "waterfall", a) => Waits(box, "waterfall", a)
    BY <2>3
  <2>5. Older(as, bs) /\ PhoneSound(s, sees, keys, as, box)
    BY <2>2, <2>3
  <2>6. PhoneSound(s, sees, keys, bs, rest)
    BY <2>4, <2>5, PhoneStays
  <2> QED BY <1>1, <2>3, <2>6
<1>7. AnswerSound(asks', sent', inFlight')
  BY <1>1
<1> QED BY <1>2, <1>3, <1>4, <1>5, <1>6, <1>7 DEF BridgeIInv

LEMMA Unmoved ==
  ASSUME BridgeIInv
  PROVE  /\ asks \in [Asks -> {"new", "open", "closed"}] /\ inbox \in Seq(Messages)
         /\ BoxSound(asks, inbox) /\ sent \in [Asks -> Seq(Answers)]
         /\ AnswerSound(asks, sent, inFlight)
  BY DEF BridgeIInv, BridgeTyped

\* A message of the runtime about a, if a stream is there.
ToldOf(kind, as, bs, a) ==
  /\ kind = "cancel" => bs[a] = "closed"
  /\ kind = "waterfall" => as[a] = "new" /\ bs[a] # "new"

Heard(box, kind, a) == box = ToStream(<<[type |-> kind, ask |-> a]>>) \/ box = inbox

LEMMA Spoken ==
  ASSUME BridgeIInv, NEW bs, Older(asks, bs), NEW a \in Asks, NEW kind \in Kinds,
         ToldOf(kind, asks, bs, a), NEW box, Heard(box, kind, a)
  PROVE  /\ box \in Seq(Messages) /\ BoxSound(bs, box)
         /\ link # "open" => box = inbox
         /\ \A b \in Asks : (asks[b] = "closed" \/ Contains(pending, b)) /\ Waits(box, "waterfall", b)
                              => Waits(inbox, "waterfall", b)
<1>1. inbox \in Seq(Messages) /\ BoxSound(asks, inbox)
  BY Unmoved
<1>2. CASE box = inbox
  BY <1>1, <1>2, BoxAges
<1>3. CASE box # inbox
  <2>1. link = "open" /\ box = inbox \o <<[type |-> kind, ask |-> a]>>
    BY <1>3 DEF ToStream, Heard
  <2>2. Comes(kind, bs, inbox, a)
    BY <1>1 DEF BoxSound, Comes, ToldOf
  <2>4. box = SaidOn(inbox, kind, a)
    BY <2>1 DEF SaidOn
  <2>5. PICK old, as : old = inbox /\ as = asks
    OBVIOUS
  <2>6. /\ old \in Seq(Messages) /\ BoxSound(as, old) /\ Older(as, bs) /\ box = SaidOn(old, kind, a)
        /\ Comes(kind, bs, old, a)
    BY <1>1, <2>2, <2>4, <2>5
  <2>7. /\ box \in Seq(Messages) /\ BoxSound(bs, box)
        /\ Longer(old, box, kind, a)
    BY <2>6, BoxLonger
  <2>8. \A b \in Asks : Contains(pending, b) => asks[b] # "new"
    BY DEF BridgeIInv, PendingSound
  <2>9. ASSUME NEW b \in Asks, asks[b] = "closed" \/ Contains(pending, b), Waits(box, "waterfall", b)
        PROVE  Waits(inbox, "waterfall", b)
    <3>1. asks[b] # "new"
      BY <2>8, <2>9
    <3>2. ~(kind = "waterfall" /\ b = a)
      BY <3>1 DEF ToldOf
    <3> QED BY <2>5, <2>7, <2>9, <3>2 DEF Longer
  <2> QED BY <2>1, <2>7, <2>9
<1> QED BY <1>2, <1>3

LEMMA AskKeeps ==
  ASSUME BridgeIInv, NEW a \in Asks, Ask(a)
  PROVE  BridgeIInv'
<1>1. asks[a] = "new" /\ asks' = [asks EXCEPT ![a] = "open"]
  BY DEF Ask
<1>2. asks' \in [Asks -> {"new", "open", "closed"}] /\ asks'[a] = "open" /\ Older(asks, asks')
  BY <1>1, Unmoved DEF Older
<1>3. inbox' = ToStream(<<[type |-> "waterfall", ask |-> a]>>)
  BY DEF Ask
<1>4. /\ inbox' \in Seq(Messages) /\ BoxSound(asks', inbox')
      /\ link # "open" => inbox' = inbox
      /\ \A b \in Asks : (asks[b] = "closed" \/ Contains(pending, b)) /\ Waits(inbox', "waterfall", b)
                           => Waits(inbox, "waterfall", b)
  <2>1. PICK bs, box, kind : bs = asks' /\ box = inbox' /\ kind = "waterfall"
    OBVIOUS
  <2>2. /\ Older(asks, bs) /\ ToldOf(kind, asks, bs, a) /\ kind \in Kinds
        /\ Heard(box, kind, a)
    BY <1>1, <1>2, <1>3, <2>1 DEF ToldOf, Heard, Kinds
  <2>3. /\ box \in Seq(Messages) /\ BoxSound(bs, box)
        /\ link # "open" => box = inbox
        /\ \A b \in Asks : (asks[b] = "closed" \/ Contains(pending, b)) /\ Waits(box, "waterfall", b)
                             => Waits(inbox, "waterfall", b)
    BY <2>2, Spoken
  <2> QED BY <2>1, <2>3
<1>5. sent' = sent /\ UNCHANGED <<link, connects, ready, pending, inFlight, askHub, phones>>
  BY DEF Ask
<1>6. sent' \in [Asks -> Seq(Answers)] /\ AnswerSound(asks', sent', inFlight)
  BY <1>2, <1>5, Unmoved, AnswerAges
<1> QED BY <1>2, <1>4, <1>5, <1>6, OfficialKeeps

LEMMA CloseKeeps ==
  ASSUME BridgeIInv, NEW a \in Asks, Close(a)
  PROVE  BridgeIInv'
<1>1. asks[a] = "open" /\ asks' = [asks EXCEPT ![a] = "closed"]
  BY DEF Close
<1>2. asks' \in [Asks -> {"new", "open", "closed"}] /\ asks'[a] = "closed" /\ Older(asks, asks')
  BY <1>1, Unmoved DEF Older
<1>3. inbox' = ToStream(<<[type |-> "cancel", ask |-> a]>>)
  BY DEF Close
<1>4. /\ inbox' \in Seq(Messages) /\ BoxSound(asks', inbox')
      /\ link # "open" => inbox' = inbox
      /\ \A b \in Asks : (asks[b] = "closed" \/ Contains(pending, b)) /\ Waits(inbox', "waterfall", b)
                           => Waits(inbox, "waterfall", b)
  <2>1. PICK bs, box, kind : bs = asks' /\ box = inbox' /\ kind = "cancel"
    OBVIOUS
  <2>2. /\ Older(asks, bs) /\ ToldOf(kind, asks, bs, a) /\ kind \in Kinds
        /\ Heard(box, kind, a)
    BY <1>2, <1>3, <2>1 DEF ToldOf, Heard, Kinds
  <2>3. /\ box \in Seq(Messages) /\ BoxSound(bs, box)
        /\ link # "open" => box = inbox
        /\ \A b \in Asks : (asks[b] = "closed" \/ Contains(pending, b)) /\ Waits(box, "waterfall", b)
                             => Waits(inbox, "waterfall", b)
    BY <2>2, Spoken
  <2> QED BY <2>1, <2>3
<1>5. sent' = sent /\ UNCHANGED <<link, connects, ready, pending, inFlight, askHub, phones>>
  BY DEF Close
<1>6. sent' \in [Asks -> Seq(Answers)] /\ AnswerSound(asks', sent', inFlight)
  BY <1>2, <1>5, Unmoved, AnswerAges
<1> QED BY <1>2, <1>4, <1>5, <1>6, OfficialKeeps

\* The answer that is under way gets where it goes.
Moved(answers, a, at) == [answers EXCEPT ![a][1].at = at]
TakenOf(at, bs, a) == at \in {"taken", "refused"} /\ (at = "taken" => bs[a] = "closed")

LEMMA AnswerMoves ==
  ASSUME NEW as, NEW bs, Older(as, bs), NEW answers \in [Asks -> Seq(Answers)], NEW flying,
         AnswerSound(as, answers, flying), NEW a \in Asks, answers[a] # <<>>,
         NEW at, TakenOf(at, bs, a),
         NEW moved, moved = Moved(answers, a, at)
  PROVE  moved \in [Asks -> Seq(Answers)] /\ AnswerSound(bs, moved, flying)
<1>1. PICK x \in Answers : answers[a] = <<x>>
  BY SentOne
<1>2. PICK y : y = [x EXCEPT !.at = at]
  OBVIOUS
<1>3. y \in Answers /\ y.at = at
  BY <1>2 DEF Answers, TakenOf
<1>4. moved = [answers EXCEPT ![a] = [answers[a] EXCEPT ![1] = [answers[a][1] EXCEPT !.at = at]]]
  BY DEF Moved
<1>5. PICK q : q = answers[a]
  OBVIOUS
<1>6. q = <<x>> /\ q[1] = x /\ [q EXCEPT ![1] = y] = <<y>>
  BY <1>1, <1>5
<1>7. moved = [answers EXCEPT ![a] = <<y>>]
  BY <1>2, <1>4, <1>5, <1>6
<1>8. PICK new : new = <<y>>
  OBVIOUS
<1>9. new \in Seq(Answers) /\ Len(new) = 1 /\ Head(new) = y /\ new # <<>>
  BY <1>3, <1>8
<1>10. moved \in [Asks -> Seq(Answers)] /\ moved[a] = new /\ \A b \in Asks : b # a => moved[b] = answers[b]
  BY <1>7, <1>8, <1>9
<1>11. a \in flying
  BY DEF AnswerSound
<1>12. ASSUME NEW b \in Asks
       PROVE  /\ Len(moved[b]) <= 1 /\ (moved[b] # <<>> <=> b \in flying)
              /\ moved[b] # <<>> /\ Head(moved[b]).at = "taken" => bs[b] = "closed"
  <2>1. CASE b = a
    <3>1. Len(new) <= 1 /\ new # <<>>
      BY <1>9
    <3>2. Head(new).at = "taken" => bs[b] = "closed"
      BY <1>3, <1>9, <2>1 DEF TakenOf
    <3>3. moved[b] = new /\ b \in flying
      BY <1>10, <1>11, <2>1
    <3> QED BY <3>1, <3>2, <3>3
  <2>2. CASE b # a
    BY <1>10, <2>2 DEF AnswerSound, Older
  <2> QED BY <2>1, <2>2
<1> QED BY <1>10, <1>12 DEF AnswerSound

LEMMA TakeKeeps ==
  ASSUME BridgeIInv, NEW a \in Asks, Take(a)
  PROVE  BridgeIInv'
<1>1. sent[a] # <<>> /\ UNCHANGED <<link, connects, ready, pending, inFlight, askHub, phones>>
  BY DEF Take
<1>2. CASE asks[a] = "open"
  <2>1. /\ asks' = [asks EXCEPT ![a] = "closed"] /\ sent' = [sent EXCEPT ![a][1].at = "taken"]
        /\ inbox' = ToStream(<<[type |-> "cancel", ask |-> a]>>) \/ inbox' = inbox
    BY <1>2 DEF Take
  <2>2. asks' \in [Asks -> {"new", "open", "closed"}] /\ asks'[a] = "closed" /\ Older(asks, asks')
    BY <1>2, <2>1, Unmoved DEF Older
  <2>3. /\ inbox' \in Seq(Messages) /\ BoxSound(asks', inbox')
        /\ link # "open" => inbox' = inbox
        /\ \A b \in Asks : (asks[b] = "closed" \/ Contains(pending, b)) /\ Waits(inbox', "waterfall", b)
                             => Waits(inbox, "waterfall", b)
    <3>1. PICK bs, box, kind : bs = asks' /\ box = inbox' /\ kind = "cancel"
      OBVIOUS
    <3>2. /\ Older(asks, bs) /\ ToldOf(kind, asks, bs, a) /\ kind \in Kinds
          /\ Heard(box, kind, a)
      BY <2>1, <2>2, <3>1 DEF ToldOf, Heard, Kinds
    <3>3. /\ box \in Seq(Messages) /\ BoxSound(bs, box)
          /\ link # "open" => box = inbox
          /\ \A b \in Asks : (asks[b] = "closed" \/ Contains(pending, b)) /\ Waits(box, "waterfall", b)
                               => Waits(inbox, "waterfall", b)
      BY <3>2, Spoken
    <3> QED BY <3>1, <3>3
  <2>4. PICK at : at = "taken"
    OBVIOUS
  <2>5. sent' \in [Asks -> Seq(Answers)] /\ AnswerSound(asks', sent', inFlight)
    <3>1. PICK as, bs, answers, moved : as = asks /\ bs = asks' /\ answers = sent /\ moved = sent'
      OBVIOUS
    <3>2. /\ Older(as, bs) /\ answers \in [Asks -> Seq(Answers)] /\ AnswerSound(as, answers, inFlight)
          /\ answers[a] # <<>> /\ moved = Moved(answers, a, at)
          /\ TakenOf(at, bs, a)
      BY <1>1, <2>1, <2>2, <2>4, <3>1, Unmoved DEF TakenOf, Moved
    <3>3. moved \in [Asks -> Seq(Answers)] /\ AnswerSound(bs, moved, inFlight)
      BY <3>2, AnswerMoves
    <3> QED BY <3>1, <3>3
  <2> QED BY <1>1, <2>2, <2>3, <2>5, OfficialKeeps
<1>3. CASE asks[a] # "open"
  <2>1. sent' = [sent EXCEPT ![a][1].at = "refused"] /\ asks' = asks /\ inbox' = inbox
    BY <1>3 DEF Take
  <2>2. Older(asks, asks') /\ asks' \in [Asks -> {"new", "open", "closed"}]
    BY <2>1, Unmoved DEF Older
  <2>3. PICK at : at = "refused"
    OBVIOUS
  <2>4. sent' \in [Asks -> Seq(Answers)] /\ AnswerSound(asks', sent', inFlight)
    <3>1. PICK as, bs, answers, moved : as = asks /\ bs = asks' /\ answers = sent /\ moved = sent'
      OBVIOUS
    <3>2. /\ Older(as, bs) /\ answers \in [Asks -> Seq(Answers)] /\ AnswerSound(as, answers, inFlight)
          /\ answers[a] # <<>> /\ moved = Moved(answers, a, at)
          /\ TakenOf(at, bs, a)
      BY <1>1, <2>1, <2>2, <2>3, <3>1, Unmoved DEF TakenOf, Moved
    <3>3. moved \in [Asks -> Seq(Answers)] /\ AnswerSound(bs, moved, inFlight)
      BY <3>2, AnswerMoves
    <3> QED BY <3>1, <3>3
  <2> QED BY <1>1, <2>1, <2>2, <2>4, Unmoved, OfficialKeeps
<1> QED BY <1>2, <1>3

\* Nothing moves but the link and the answers.
LEMMA LinkKeeps ==
  ASSUME BridgeIInv,
         UNCHANGED <<asks, inbox, pending, attached, interactionFrames, pendingControls, subscriber, shown, fresh>>,
         link' \in {"down", "attached", "open"}, connects' \in 0..MaxConnects, ready' \in BOOLEAN,
         inFlight' \in SUBSET Asks, sent' \in [Asks -> Seq(Answers)],
         AnswerSound(asks, sent', inFlight'),
         link' # "open" => inbox = <<>> /\ pending = <<>>
  PROVE  BridgeIInv'
<1>1. /\ asks' = asks /\ inbox' = inbox /\ pending' = pending /\ attached' = attached
      /\ interactionFrames' = interactionFrames /\ pendingControls' = pendingControls
      /\ subscriber' = subscriber /\ shown' = shown /\ fresh' = fresh
  OBVIOUS
<1>2. BridgeTyped'
  BY <1>1 DEF BridgeIInv, BridgeTyped
<1>3. ASSUME NEW p \in AskPhones, Listening(p)', fresh'[p]
      PROVE  PhoneSound(subscriber'[p], shown'[p], pending', asks', inbox')
  BY <1>1, <1>3 DEF BridgeIInv, Listening
<1> QED BY <1>1, <1>2, <1>3 DEF BridgeIInv

LEMMA StreamOpensKeeps ==
  ASSUME BridgeIInv, StreamOpens
  PROVE  BridgeIInv'
<1>1. PICK replay \in SetToSeqs({a \in Asks : asks[a] = "open"}) :
        inbox' = <<[type |-> "ready", ask |-> NoAsk]>> \o
                 [i \in 1..Len(replay) |-> [type |-> "waterfall", ask |-> replay[i]]]
  BY DEF StreamOpens
<1>2. PICK as, box : as = asks /\ box = inbox'
  OBVIOUS
<1>3. as \in [Asks -> {"new", "open", "closed"}]
  BY <1>2, Unmoved
<1>4. /\ box \in Seq(Messages) /\ BoxSound(as, box)
      /\ \A a \in Asks : Waits(box, "waterfall", a) => as[a] = "open"
  BY <1>1, <1>2, <1>3, BoxOpened
<1>5. /\ inbox' \in Seq(Messages) /\ BoxSound(asks, inbox')
      /\ \A a \in Asks : Waits(inbox', "waterfall", a) => asks[a] = "open"
  BY <1>2, <1>4
<1>6. /\ asks' = asks /\ pending' = pending /\ attached' = attached /\ link' = "open"
      /\ connects' = connects /\ ready' = ready /\ inFlight' = inFlight /\ sent' = sent
      /\ interactionFrames' = interactionFrames /\ pendingControls' = pendingControls
      /\ subscriber' = subscriber /\ shown' = shown /\ fresh' = fresh
  BY DEF StreamOpens, askHub, phones
<1>7. inbox = <<>> /\ pending = <<>>
  BY DEF StreamOpens, BridgeIInv
<1>8. BridgeTyped'
  BY <1>5, <1>6 DEF BridgeIInv, BridgeTyped
<1>9. PendingSound(asks', inbox', pending')
  BY <1>6, <1>7, EmptyKeys DEF PendingSound, OnceKeys
<1>10. ASSUME NEW p \in AskPhones, Listening(p)', fresh'[p]
       PROVE  PhoneSound(subscriber'[p], shown'[p], pending', asks', inbox')
  <2>1. PhoneSound(subscriber[p], shown[p], pending, asks, inbox)
    BY <1>6, <1>10 DEF BridgeIInv, Listening
  <2>2. PICK s, sees, keys, old, rest :
          s = subscriber[p] /\ sees = shown[p] /\ keys = pending /\ old = inbox /\ rest = inbox'
    OBVIOUS
  <2>3. PhoneSound(s, sees, keys, as, old)
    BY <1>2, <2>1, <2>2
  <2>4. \A a \in Asks : as[a] = "closed" /\ Waits(rest, "waterfall", a) => Waits(old, "waterfall", a)
    BY <1>2, <1>5, <2>2
  <2>5. Older(as, as)
    BY DEF Older
  <2>6. PhoneSound(s, sees, keys, as, rest)
    BY <2>3, <2>4, <2>5, PhoneStays
  <2> QED BY <1>2, <1>6, <2>2, <2>6
<1> QED BY <1>5, <1>6, <1>8, <1>9, <1>10 DEF BridgeIInv

LEMMA NothingWithdrawn ==
  ASSUME BridgeIInv, pending = <<>>, TellHub(Withdrawals(pending))
  PROVE  UNCHANGED <<attached, interactionFrames, pendingControls, subscriber>>
<1>1. Withdrawals(pending) = <<>>
  <2>1. <<>> \in Seq(Asks) /\ Len(<<>>) = 0
    BY EmptySeq
  <2>2. Withdrawals(<<>>) \in Seq(Frame) /\ Len(Withdrawals(<<>>)) = 0
    BY <2>1, SequencesOfFrames
  <2> QED BY <2>2, EmptySeq
<1>2. TellHub(<<>>)
  BY <1>1
<1>3. Hubs(interactionFrames, pendingControls, subscriber)
  BY HubsOf
<1> QED BY <1>2, <1>3, TellNone

LEMMA AttachKeeps ==
  ASSUME BridgeIInv, Attach
  PROVE  BridgeIInv'
<1>1. inbox = <<>> /\ pending = <<>>
  BY DEF Attach, BridgeIInv
<1>2. UNCHANGED <<attached, interactionFrames, pendingControls, subscriber>>
  BY <1>1, NothingWithdrawn DEF Attach
<1>3. /\ UNCHANGED <<asks, inbox, pending, shown, fresh, inFlight, sent>>
      /\ link' = "attached" /\ ready' = FALSE /\ connects' = connects + 1 /\ connects < MaxConnects
  BY <1>1 DEF Attach
<1>4. connects \in 0..MaxConnects /\ MaxConnects \in Nat
  BY InteractionsAssumption DEF BridgeIInv, BridgeTyped
<1>5. connects' \in 0..MaxConnects
  BY <1>3, <1>4
<1>6. /\ inFlight' \in SUBSET Asks /\ sent' \in [Asks -> Seq(Answers)]
      /\ AnswerSound(asks, sent', inFlight')
  BY <1>3 DEF BridgeIInv, BridgeTyped
<1> QED BY <1>1, <1>2, <1>3, <1>5, <1>6, LinkKeeps

LEMMA StreamFailsKeeps ==
  ASSUME BridgeIInv, StreamFails
  PROVE  BridgeIInv'
<1>1. /\ link' = "down" /\ ready' = FALSE /\ pending' = <<>> /\ inbox' = <<>>
      /\ asks' = asks /\ connects' = connects /\ inFlight' = inFlight /\ sent' = sent /\ shown' = shown
      /\ fresh' = [p \in AskPhones |-> fresh[p] /\ pending = <<>>]
      /\ TellHub(Withdrawals(pending))
  BY DEF StreamFails
<1>2. Hubs(interactionFrames, pendingControls, subscriber) /\ pending \in OnceKeys
  BY HubsOf
<1>3. /\ attached' = attached
      /\ interactionFrames' = <<>> /\ pendingControls' = <<>>
      /\ subscriber' \in [AskPhones -> GoodStreams]
      /\ \A p \in AskPhones : subscriber'[p].on = subscriber[p].on
  BY <1>1, <1>2, TellAll DEF BridgeIInv, BridgeTyped
<1>4. fresh' \in [AskPhones -> BOOLEAN] /\ <<>> \in Seq(Asks) /\ <<>> \in Seq(Messages)
  <2>1. fresh \in [AskPhones -> BOOLEAN]
    BY DEF BridgeIInv, BridgeTyped
  <2> QED BY <1>1, <2>1, EmptySeq
<1>5. BridgeTyped'
  BY <1>1, <1>3, <1>4 DEF BridgeIInv, BridgeTyped
<1>6. BoxSound(asks', inbox') /\ \A kind, a : ~Waits(inbox', kind, a)
  BY <1>1, NoBox
<1>7. PendingSound(asks', inbox', pending')
  BY <1>1, EmptyKeys DEF PendingSound, OnceKeys
<1>8. HubSound(attached', interactionFrames', pendingControls', pending', subscriber')
  <2>1. KeysOnce(<<>>) /\ \A b : ~Contains(<<>>, b)
    BY EmptyKeys DEF OnceKeys
  <2>2. ~attached => \A p \in AskPhones : ~subscriber[p].on
    BY DEF BridgeIInv, HubSound
  <2> QED BY <1>1, <1>3, <2>1, <2>2 DEF HubSound
<1>9. ASSUME NEW p \in AskPhones, Listening(p)', fresh'[p]
      PROVE  PhoneSound(subscriber'[p], shown'[p], pending', asks', inbox')
  <2>1. fresh[p] /\ pending = <<>>
    BY <1>1, <1>9
  <2>2. subscriber' = subscriber
    BY <1>1, <2>1, NothingWithdrawn
  <2>3. PhoneSound(subscriber[p], shown[p], pending, asks, inbox)
    BY <1>9, <2>1, <2>2 DEF BridgeIInv, Listening
  <2>4. PICK s, sees, keys, as, old, rest :
          s = subscriber[p] /\ sees = shown[p] /\ keys = pending /\ as = asks /\ old = inbox /\ rest = inbox'
    OBVIOUS
  <2>5. PhoneSound(s, sees, keys, as, old) /\ Older(as, as)
    BY <2>3, <2>4 DEF Older
  <2>6. \A a \in Asks : as[a] = "closed" /\ Waits(rest, "waterfall", a) => Waits(old, "waterfall", a)
    BY <1>6, <2>4
  <2>7. PhoneSound(s, sees, keys, as, rest)
    BY <2>5, <2>6, PhoneStays
  <2> QED BY <1>1, <2>1, <2>2, <2>4, <2>7
<1>10. AnswerSound(asks', sent', inFlight')
  BY <1>1 DEF BridgeIInv
<1> QED BY <1>1, <1>5, <1>6, <1>7, <1>8, <1>9, <1>10 DEF BridgeIInv

LEMMA SingleFrames ==
  ASSUME NEW a \in Asks
  PROVE  Requests(<<a>>) = <<Requested(a)>> /\ Withdrawals(<<a>>) = <<Resolved(a)>>
<1>1. PICK keys : keys = <<a>>
  OBVIOUS
<1>2. keys \in Seq(Asks) /\ Len(keys) = 1 /\ keys[1] = a
  BY <1>1
<1>3. /\ Requests(keys) \in Seq(Frame) /\ Withdrawals(keys) \in Seq(Frame)
      /\ Len(Requests(keys)) = 1 /\ Len(Withdrawals(keys)) = 1
      /\ Requests(keys)[1] = Requested(a) /\ Withdrawals(keys)[1] = Resolved(a)
  BY <1>2, SequencesOfFrames
<1>4. PICK r, w, x, y : r = Requests(keys) /\ w = Withdrawals(keys) /\ x = Requested(a) /\ y = Resolved(a)
  OBVIOUS
<1>5. x \in Frame /\ y \in Frame
  BY <1>4, RequestedIs
<1>6. /\ <<x>> \in Seq(Frame) /\ <<y>> \in Seq(Frame) /\ Len(<<x>>) = 1 /\ Len(<<y>>) = 1
      /\ <<x>>[1] = x /\ <<y>>[1] = y
  BY <1>5
<1>7. \A i \in 1..1 : i = 1
  OBVIOUS
<1>8. r = <<x>>
  BY <1>3, <1>4, <1>6, <1>7, SeqEqual
<1>9. w = <<y>>
  BY <1>3, <1>4, <1>6, <1>7, SeqEqual
<1> QED BY <1>1, <1>4, <1>8, <1>9

\* Resolving what is not pending changes nothing.
LEMMA ResolveNothing ==
  ASSUME BridgeIInv, NEW a \in Asks, Resolve(a), ~Contains(pending, a)
  PROVE  UNCHANGED <<pending, attached, interactionFrames, pendingControls, subscriber>>
<1>1. pending' = pending
  BY DEF Resolve, WithoutKey, RemoveFirst, Contains
<1>2. TellHub(<<>>)
  BY DEF Resolve
<1>3. Hubs(interactionFrames, pendingControls, subscriber)
  BY HubsOf
<1> QED BY <1>1, <1>2, <1>3, TellNone

LEMMA AcceptKeeps ==
  ASSUME BridgeIInv, Accept
  PROVE  BridgeIInv'
<1>1. /\ inbox # <<>> /\ inbox' = Tail(inbox)
      /\ asks' = asks /\ link' = link /\ connects' = connects /\ inFlight' = inFlight
      /\ sent' = sent /\ shown' = shown /\ fresh' = fresh
  BY DEF Accept
<1>2. PICK m : m = Head(inbox)
  OBVIOUS
<1>3. /\ inbox' \in Seq(Messages) /\ m \in Messages
      /\ BoxSound(asks, inbox') /\ Fewer(inbox, inbox')
      /\ Waits(inbox, m.type, m.ask)
      /\ m.type = "waterfall" => ~Waits(inbox', "waterfall", m.ask)
  <2>1. PICK as, box, rest : as = asks /\ box = inbox /\ rest = inbox'
    OBVIOUS
  <2>2. box \in Seq(Messages) /\ box # <<>> /\ BoxSound(as, box) /\ rest = Tail(box) /\ m = Head(box)
    BY <1>1, <1>2, <2>1, Unmoved
  <2>3. /\ rest \in Seq(Messages) /\ m \in Messages
        /\ BoxSound(as, rest) /\ Fewer(box, rest)
        /\ Waits(box, m.type, m.ask)
        /\ m.type = "waterfall" => ~Waits(rest, "waterfall", m.ask)
    BY <2>2, BoxShorter
  <2> QED BY <2>1, <2>3
<1>4. link = "open"
  BY <1>1 DEF BridgeIInv
<1>5. ready \in BOOLEAN /\ (ready' = TRUE \/ ready' = ready)
  BY DEF Accept, BridgeIInv, BridgeTyped
<1> DEFINE Kept ==
      /\ pending' \in Seq(Asks) /\ PendingSound(asks', inbox', pending')
      /\ interactionFrames' \in Seq(Asks) /\ pendingControls' \in Seq(Asks)
      /\ attached' \in BOOLEAN
      /\ subscriber' \in [AskPhones -> GoodStreams]
      /\ HubSound(attached', interactionFrames', pendingControls', pending', subscriber')
      /\ \A p \in AskPhones : Listening(p)' /\ fresh'[p] =>
           PhoneSound(subscriber'[p], shown'[p], pending', asks', inbox')
<1>6. ASSUME UNCHANGED <<pending, attached, interactionFrames, pendingControls, subscriber>> PROVE Kept
  <2>1. PendingSound(asks', inbox', pending')
    BY <1>1, <1>3, <1>6 DEF BridgeIInv, PendingSound, Fewer
  <2>2. ASSUME NEW p \in AskPhones, Listening(p)', fresh'[p]
        PROVE  PhoneSound(subscriber'[p], shown'[p], pending', asks', inbox')
    <3>1. PhoneSound(subscriber[p], shown[p], pending, asks, inbox)
      BY <1>1, <1>6, <2>2 DEF BridgeIInv, Listening
    <3>2. PICK s, sees, keys, as, old, rest :
            s = subscriber[p] /\ sees = shown[p] /\ keys = pending /\ as = asks /\ old = inbox /\ rest = inbox'
      OBVIOUS
    <3>3. PhoneSound(s, sees, keys, as, old) /\ Older(as, as)
      BY <3>1, <3>2 DEF Older
    <3>4. \A a \in Asks : as[a] = "closed" /\ Waits(rest, "waterfall", a) => Waits(old, "waterfall", a)
      BY <1>3, <3>2 DEF Fewer
    <3>5. PhoneSound(s, sees, keys, as, rest)
      BY <3>3, <3>4, PhoneStays
    <3> QED BY <1>1, <1>6, <3>2, <3>5
  <2> QED BY <1>1, <1>6, <2>1, <2>2 DEF BridgeIInv, BridgeTyped
<1>7. Kept
  <2>1. CASE m.type = "ready"
    <3>1. UNCHANGED <<pending, attached, interactionFrames, pendingControls, subscriber>>
      BY <1>2, <2>1 DEF Accept, askHub
    <3> QED BY <1>6, <3>1
  <2>2. CASE m.type = "cancel"
    <3>1. PICK a \in Asks : a = m.ask
      BY <1>3, <2>2, MessageFields
    <3>2. Resolve(a)
      BY <1>2, <2>2, <3>1 DEF Accept
    <3>3. asks[a] = "closed"
      BY <1>3, <2>2, <3>1 DEF BridgeIInv, BoxSound
    <3>4. CASE Contains(pending, a)
      <4>1. pending' = WithoutKey(pending, a) /\ TellHub(<<Resolved(a)>>)
        BY <3>2, <3>4, SingleFrames DEF Resolve
      <4>2. UNCHANGED <<asks, shown, fresh>>
        BY <1>1
      <4> QED BY <1>3, <3>3, <3>4, <4>1, <4>2, WithdrawStep
    <3>5. CASE ~Contains(pending, a)
      <4>1. UNCHANGED <<pending, attached, interactionFrames, pendingControls, subscriber>>
        BY <3>2, <3>5, ResolveNothing
      <4> QED BY <1>6, <4>1
    <3> QED BY <3>4, <3>5
  <2>3. CASE m.type = "waterfall"
    <3>1. PICK a \in Asks : a = m.ask
      BY <1>3, <2>3, MessageFields
    <3>2. /\ pending' = WithKey(pending, a)
          /\ TellHub(IF Contains(pending, a) THEN <<>> ELSE Requests(<<a>>))
      BY <1>2, <2>3, <3>1 DEF Accept
    <3>3. Waits(inbox, "waterfall", a) /\ ~Waits(inbox', "waterfall", a)
      BY <1>3, <2>3, <3>1
    <3>4. ~Contains(pending, a)
      BY <3>3 DEF BridgeIInv, PendingSound
    <3>5. TellHub(<<Requested(a)>>)
      BY <3>2, <3>4, SingleFrames
    <3>6. UNCHANGED <<asks, shown, fresh>>
      BY <1>1
    <3> QED BY <1>3, <3>2, <3>3, <3>4, <3>5, <3>6, RequestStep
  <2> QED BY <1>3, <2>1, <2>2, <2>3, MessageFields
<1>8. BridgeTyped'
  BY <1>1, <1>3, <1>5, <1>7 DEF BridgeIInv, BridgeTyped
<1>9. BoxSound(asks', inbox') /\ AnswerSound(asks', sent', inFlight')
  BY <1>1, <1>3 DEF BridgeIInv
<1> QED BY <1>1, <1>4, <1>7, <1>8, <1>9 DEF BridgeIInv

LEMMA AnswerSent ==
  ASSUME NEW as, NEW answers \in [Asks -> Seq(Answers)], NEW flying, AnswerSound(as, answers, flying),
         NEW a \in Asks, a \notin flying, NEW x \in Answers, x.at = "sent",
         NEW more, more = [answers EXCEPT ![a] = Append(@, x)]
  PROVE  more \in [Asks -> Seq(Answers)] /\ AnswerSound(as, more, flying \cup {a})
<1>1. answers[a] = <<>>
  BY DEF AnswerSound
<1>2. PICK new : new = <<x>>
  OBVIOUS
<1>3. new \in Seq(Answers) /\ Len(new) = 1 /\ Head(new) = x /\ new # <<>>
  BY <1>2
<1>4. Append(<<>>, x) = new
  BY <1>2
<1>5. more = [answers EXCEPT ![a] = new]
  BY <1>1, <1>4
<1>6. more \in [Asks -> Seq(Answers)] /\ more[a] = new /\ \A b \in Asks : b # a => more[b] = answers[b]
  BY <1>3, <1>5
<1>7. ASSUME NEW b \in Asks
      PROVE  /\ Len(more[b]) <= 1 /\ (more[b] # <<>> <=> b \in flying \cup {a})
             /\ more[b] # <<>> /\ Head(more[b]).at = "taken" => as[b] = "closed"
  <2>1. CASE b = a
    <3>1. Len(new) <= 1 /\ new # <<>> /\ Head(new).at # "taken"
      BY <1>3
    <3> QED BY <1>6, <2>1, <3>1
  <2>2. CASE b # a
    BY <1>6, <2>2 DEF AnswerSound
  <2> QED BY <2>1, <2>2
<1> QED BY <1>6, <1>7 DEF AnswerSound

LEMMA AnswerDone ==
  ASSUME NEW as, NEW answers \in [Asks -> Seq(Answers)], NEW flying, AnswerSound(as, answers, flying),
         NEW a \in Asks, answers[a] # <<>>,
         NEW less, less = [answers EXCEPT ![a] = Tail(@)]
  PROVE  less \in [Asks -> Seq(Answers)] /\ AnswerSound(as, less, flying \ {a})
<1>1. Tail(answers[a]) = <<>>
  BY SentOne
<1>2. PICK none : none = <<>>
  OBVIOUS
<1>3. none \in Seq(Answers) /\ Len(none) = 0
  BY <1>2, EmptySeq
<1>4. less = [answers EXCEPT ![a] = none]
  BY <1>1, <1>2
<1>5. less \in [Asks -> Seq(Answers)] /\ less[a] = none /\ \A b \in Asks : b # a => less[b] = answers[b]
  BY <1>3, <1>4
<1>6. ASSUME NEW b \in Asks
      PROVE  /\ Len(less[b]) <= 1 /\ (less[b] # <<>> <=> b \in flying \ {a})
             /\ less[b] # <<>> /\ Head(less[b]).at = "taken" => as[b] = "closed"
  <2>1. CASE b = a
    <3>1. Len(none) <= 1 /\ ~(none # <<>>)
      BY <1>2, <1>3
    <3> QED BY <1>5, <2>1, <3>1
  <2>2. CASE b # a
    BY <1>5, <2>2 DEF AnswerSound
  <2> QED BY <2>1, <2>2
<1> QED BY <1>5, <1>6 DEF AnswerSound

LEMMA RespondKeeps ==
  ASSUME BridgeIInv, NEW a \in Asks, Respond(a)
  PROVE  BridgeIInv'
<1>1. /\ a \notin inFlight /\ inFlight' = inFlight \cup {a}
      /\ sent' = [sent EXCEPT ![a] = Append(@, [connect |-> connects, at |-> "sent"])]
      /\ UNCHANGED <<asks, link, connects, inbox, ready, pending, askHub, phones>>
  BY DEF Respond, Answerable
<1>2. PICK x : x = [connect |-> connects, at |-> "sent"]
  OBVIOUS
<1>3. x \in Answers /\ x.at = "sent"
  <2>1. connects \in Nat
    BY InteractionsAssumption DEF BridgeIInv, BridgeTyped
  <2> QED BY <1>2, <2>1 DEF Answers
<1>4. PICK as, answers, flying, more : as = asks /\ answers = sent /\ flying = inFlight /\ more = sent'
  OBVIOUS
<1>5. /\ answers \in [Asks -> Seq(Answers)] /\ AnswerSound(as, answers, flying) /\ a \notin flying
      /\ more = [answers EXCEPT ![a] = Append(@, x)]
  BY <1>1, <1>2, <1>4, Unmoved
<1>6. more \in [Asks -> Seq(Answers)] /\ AnswerSound(as, more, flying \cup {a})
  BY <1>3, <1>5, AnswerSent
<1>7. sent' \in [Asks -> Seq(Answers)] /\ AnswerSound(asks, sent', inFlight')
  BY <1>1, <1>4, <1>6
<1>8. /\ UNCHANGED <<asks, inbox, pending, attached, interactionFrames, pendingControls, subscriber, shown, fresh>>
      /\ link' = link /\ connects' = connects /\ ready' = ready
  BY <1>1 DEF askHub, phones
<1>9. /\ link' \in {"down", "attached", "open"} /\ connects' \in 0..MaxConnects /\ ready' \in BOOLEAN
      /\ inFlight' \in SUBSET Asks
      /\ link' # "open" => inbox = <<>> /\ pending = <<>>
  BY <1>1, <1>8 DEF BridgeIInv, BridgeTyped
<1> QED BY <1>7, <1>8, <1>9, LinkKeeps

\* An answer that has come back is out of the way.
LEMMA AnsweredKeeps ==
  ASSUME BridgeIInv, NEW a \in Asks, sent[a] # <<>>, sent' = [sent EXCEPT ![a] = Tail(@)],
         inFlight' = inFlight \ {a}
  PROVE  sent' \in [Asks -> Seq(Answers)] /\ AnswerSound(asks, sent', inFlight') /\ inFlight' \in SUBSET Asks
<1>1. PICK as, answers, flying, less : as = asks /\ answers = sent /\ flying = inFlight /\ less = sent'
  OBVIOUS
<1>2. /\ answers \in [Asks -> Seq(Answers)] /\ AnswerSound(as, answers, flying) /\ answers[a] # <<>>
      /\ less = [answers EXCEPT ![a] = Tail(@)]
  BY <1>1, Unmoved
<1>3. less \in [Asks -> Seq(Answers)] /\ AnswerSound(as, less, flying \ {a})
  BY <1>2, AnswerDone
<1> QED BY <1>1, <1>3 DEF BridgeIInv, BridgeTyped

LEMMA NotConfirmedKeeps ==
  ASSUME BridgeIInv, NEW a \in Asks, NotConfirmed(a)
  PROVE  BridgeIInv'
<1>1. /\ sent[a] # <<>> /\ sent' = [sent EXCEPT ![a] = Tail(@)] /\ inFlight' = inFlight \ {a}
      /\ UNCHANGED <<asks, inbox, pending, attached, interactionFrames, pendingControls, subscriber, shown, fresh>>
      /\ link' = link /\ connects' = connects /\ ready' = ready
  BY DEF NotConfirmed, LeavePending, askHub
<1>2. sent' \in [Asks -> Seq(Answers)] /\ AnswerSound(asks, sent', inFlight') /\ inFlight' \in SUBSET Asks
  BY <1>1, AnsweredKeeps
<1>3. /\ link' \in {"down", "attached", "open"} /\ connects' \in 0..MaxConnects /\ ready' \in BOOLEAN
      /\ link' # "open" => inbox = <<>> /\ pending = <<>>
  BY <1>1 DEF BridgeIInv, BridgeTyped
<1> QED BY <1>1, <1>2, <1>3, LinkKeeps

LEMMA ConfirmedIsOver ==
  ASSUME BridgeIInv, NEW a \in Asks, Confirmed(a)
  PROVE  asks[a] = "closed"
  BY DEF Confirmed, BridgeIInv, AnswerSound

LEMMA ConfirmedKeeps ==
  ASSUME BridgeIInv, NEW a \in Asks, Confirmed(a)
  PROVE  BridgeIInv'
<1>1. /\ sent[a] # <<>> /\ sent' = [sent EXCEPT ![a] = Tail(@)] /\ inFlight' = inFlight \ {a}
      /\ Resolve(a)
      /\ asks' = asks /\ inbox' = inbox /\ shown' = shown /\ fresh' = fresh
      /\ link' = link /\ connects' = connects /\ ready' = ready
  BY DEF Confirmed
<1>2. sent' \in [Asks -> Seq(Answers)] /\ AnswerSound(asks, sent', inFlight') /\ inFlight' \in SUBSET Asks
  BY <1>1, AnsweredKeeps
<1>3. /\ link' \in {"down", "attached", "open"} /\ connects' \in 0..MaxConnects /\ ready' \in BOOLEAN
      /\ link' # "open" => inbox = <<>> /\ pending = <<>>
  BY <1>1 DEF BridgeIInv, BridgeTyped
<1>4. CASE ~Contains(pending, a)
  <2>1. UNCHANGED <<pending, attached, interactionFrames, pendingControls, subscriber>>
    BY <1>1, <1>4, ResolveNothing
  <2>2. UNCHANGED <<asks, inbox, pending, attached, interactionFrames, pendingControls, subscriber, shown, fresh>>
    BY <1>1, <2>1
  <2> QED BY <1>2, <1>3, <2>2, LinkKeeps
<1>5. CASE Contains(pending, a)
  <2>1. asks[a] = "closed"
    BY ConfirmedIsOver
  <2>2. pending' = WithoutKey(pending, a) /\ TellHub(<<Resolved(a)>>)
    BY <1>1, <1>5, SingleFrames DEF Resolve
  <2>3. UNCHANGED <<asks, shown, fresh>> /\ Fewer(inbox, inbox')
    BY <1>1 DEF Fewer
  <2>4. /\ pending' \in Seq(Asks) /\ PendingSound(asks', inbox', pending')
        /\ interactionFrames' \in Seq(Asks) /\ pendingControls' \in Seq(Asks)
        /\ attached' \in BOOLEAN
        /\ subscriber' \in [AskPhones -> GoodStreams]
        /\ HubSound(attached', interactionFrames', pendingControls', pending', subscriber')
        /\ \A p \in AskPhones : Listening(p)' /\ fresh'[p] =>
             PhoneSound(subscriber'[p], shown'[p], pending', asks', inbox')
    BY <1>5, <2>1, <2>2, <2>3, WithdrawStep
  <2>5. BridgeTyped'
    BY <1>1, <1>2, <1>3, <2>4 DEF BridgeIInv, BridgeTyped
  <2>6. BoxSound(asks', inbox') /\ AnswerSound(asks', sent', inFlight')
    BY <1>1, <1>2 DEF BridgeIInv
  <2>7. link' = "open"
    <3>1. pending # <<>>
      BY <1>5, EmptyKeys
    <3> QED BY <1>1, <3>1 DEF BridgeIInv, BridgeTyped
  <2> QED BY <2>4, <2>5, <2>6, <2>7 DEF BridgeIInv
<1> QED BY <1>4, <1>5

LEMMA AttachHubKeeps ==
  ASSUME BridgeIInv, AttachHub
  PROVE  BridgeIInv'
<1>1. /\ ~attached /\ attached' = TRUE
      /\ interactionFrames' = FoldLeft(AskIngested, interactionFrames, Requests(pending))
      /\ asks' = asks /\ link' = link /\ connects' = connects /\ inbox' = inbox /\ ready' = ready
      /\ pending' = pending /\ inFlight' = inFlight /\ sent' = sent
      /\ pendingControls' = pendingControls /\ subscriber' = subscriber
      /\ shown' = shown /\ fresh' = fresh
  BY DEF AttachHub, bridge, phones
<1>2. /\ interactionFrames = <<>> /\ pendingControls = <<>>
      /\ \A p \in AskPhones : ~subscriber[p].on
  BY <1>1 DEF BridgeIInv, HubSound
<1>3. pending \in OnceKeys
  BY HubsOf
<1>4. interactionFrames' = pending
  BY <1>1, <1>2, <1>3, SnapshotIngested
<1>5. BridgeTyped'
  BY <1>1, <1>4 DEF BridgeIInv, BridgeTyped
<1>6. KeysOnce(<<>>) /\ \A b : ~Contains(<<>>, b)
  BY EmptyKeys DEF OnceKeys
<1>7. HubSound(attached', interactionFrames', pendingControls', pending', subscriber')
  BY <1>1, <1>2, <1>4, <1>6 DEF HubSound
<1>8. \A p \in AskPhones : ~Listening(p)'
  BY <1>1, <1>2 DEF Listening
<1>9. /\ BoxSound(asks', inbox') /\ PendingSound(asks', inbox', pending')
      /\ link' # "open" => inbox' = <<>> /\ pending' = <<>>
      /\ AnswerSound(asks', sent', inFlight')
  BY <1>1 DEF BridgeIInv
<1> QED BY <1>5, <1>7, <1>8, <1>9 DEF BridgeIInv

-----------------------------------------------------------------------------
(* A phone opens its stream, reads it and leaves: nothing else moves.      *)

LEMMA PhoneMoves ==
  ASSUME BridgeIInv, NEW p \in AskPhones, NEW t \in GoodStreams,
         UNCHANGED <<asks, bridge, askHub>>, subscriber' = [subscriber EXCEPT ![p] = t],
         attached \/ ~t.on,
         shown' \in [AskPhones -> SUBSET Asks], fresh' \in [AskPhones -> BOOLEAN],
         \A q \in AskPhones : q # p => shown'[q] = shown[q] /\ fresh'[q] = fresh[q],
         t.on /\ ~t.done /\ fresh'[p] => PhoneSound(t, shown'[p], pending, asks, inbox)
  PROVE  BridgeIInv'
<1>1. /\ asks' = asks /\ link' = link /\ connects' = connects /\ inbox' = inbox /\ ready' = ready
      /\ pending' = pending /\ inFlight' = inFlight /\ sent' = sent
      /\ attached' = attached /\ interactionFrames' = interactionFrames /\ pendingControls' = pendingControls
  BY DEF bridge, askHub
<1>2. /\ subscriber \in [AskPhones -> GoodStreams]
      /\ subscriber' \in [AskPhones -> GoodStreams]
      /\ subscriber'[p] = t /\ \A q \in AskPhones : q # p => subscriber'[q] = subscriber[q]
  BY DEF BridgeIInv, BridgeTyped
<1>3. BridgeTyped'
  BY <1>1, <1>2 DEF BridgeIInv, BridgeTyped
<1>4. HubSound(attached', interactionFrames', pendingControls', pending', subscriber')
  <2>1. HubSound(attached, interactionFrames, pendingControls, pending, subscriber)
    BY DEF BridgeIInv
  <2>2. CASE attached
    BY <1>1, <2>1, <2>2 DEF HubSound
  <2>3. CASE ~attached
    <3>1. \A q \in AskPhones : ~subscriber'[q].on
      BY <1>2, <2>1, <2>3 DEF HubSound
    <3> QED BY <1>1, <2>1, <2>3, <3>1 DEF HubSound
  <2> QED BY <2>2, <2>3
<1>5. ASSUME NEW q \in AskPhones, Listening(q)', fresh'[q]
      PROVE  PhoneSound(subscriber'[q], shown'[q], pending', asks', inbox')
  <2>1. CASE q = p
    BY <1>1, <1>2, <1>5, <2>1 DEF Listening
  <2>2. CASE q # p
    <3>1. Listening(q) /\ fresh[q]
      BY <1>2, <1>5, <2>2 DEF Listening
    <3>2. PhoneSound(subscriber[q], shown[q], pending, asks, inbox)
      BY <3>1 DEF BridgeIInv
    <3> QED BY <1>1, <1>2, <2>2, <3>2
  <2> QED BY <2>1, <2>2
<1>6. /\ BoxSound(asks', inbox') /\ PendingSound(asks', inbox', pending')
      /\ link' # "open" => inbox' = <<>> /\ pending' = <<>>
      /\ AnswerSound(asks', sent', inFlight')
  BY <1>1 DEF BridgeIInv
<1> QED BY <1>3, <1>4, <1>5, <1>6 DEF BridgeIInv

LEMMA ReopenedIs ==
  ASSUME NEW opened, NEW on, NEW done, NEW t,
         t = [NoSubscriber EXCEPT !.on = on, !.done = done, !.opened = opened]
  PROVE  t = [on |-> on, done |-> done, queue |-> <<>>, seenOrder |-> <<>>, opened |-> opened]
<1>1. PICK e, zero, no, yes : e = <<>> /\ zero = 0 /\ no = FALSE /\ yes = TRUE
  OBVIOUS
<1>2. PICK n : n = [on |-> no, done |-> yes, queue |-> e, seenOrder |-> e, opened |-> zero]
  OBVIOUS
<1>3. NoSubscriber = n
  BY <1>1, <1>2, Zenon DEF NoSubscriber
<1>4. t = [n EXCEPT !.on = on, !.done = done, !.opened = opened]
  BY <1>3
<1>5. t = [on |-> on, done |-> done, queue |-> e, seenOrder |-> e, opened |-> opened]
  BY <1>2, <1>4
<1> QED BY <1>1, <1>5

LEMMA LeftIs ==
  ASSUME NEW opened, NEW t, t = [NoSubscriber EXCEPT !.opened = opened]
  PROVE  t = [on |-> FALSE, done |-> TRUE, queue |-> <<>>, seenOrder |-> <<>>, opened |-> opened]
<1>1. PICK e, zero, no, yes : e = <<>> /\ zero = 0 /\ no = FALSE /\ yes = TRUE
  OBVIOUS
<1>2. PICK n : n = [on |-> no, done |-> yes, queue |-> e, seenOrder |-> e, opened |-> zero]
  OBVIOUS
<1>3. NoSubscriber = n
  BY <1>1, <1>2, Zenon DEF NoSubscriber
<1>4. t = [n EXCEPT !.opened = opened]
  BY <1>3
<1>5. t = [on |-> no, done |-> yes, queue |-> e, seenOrder |-> e, opened |-> opened]
  BY <1>2, <1>4
<1> QED BY <1>1, <1>5

LEMMA LeaveKeeps ==
  ASSUME BridgeIInv, NEW p \in AskPhones, Leave(p)
  PROVE  BridgeIInv'
<1>1. PICK opened : opened = subscriber[p].opened
  OBVIOUS
<1>2. PICK t : t = [NoSubscriber EXCEPT !.opened = opened]
  OBVIOUS
<1>3. subscriber[p] \in GoodStreams
  BY DEF BridgeIInv, BridgeTyped
<1>4. opened \in 0..MaxSubscribes
  BY <1>1, <1>3, StreamFields
<1>5. /\ <<>> \in Seq(Frame \cup {AskOverflow}) /\ <<>> \in Seq(Frame) /\ Len(<<>>) = 0
      /\ 0 <= MaxAskQueue /\ 0 <= MaxSubscriberSeen
  BY InteractionsAssumption
<1>60. t = [on |-> FALSE, done |-> TRUE, queue |-> <<>>, seenOrder |-> <<>>, opened |-> opened]
  BY <1>2, LeftIs
<1>6. t \in AskStreams
  BY <1>60, <1>4, <1>5 DEF AskStreams
<1>7. t.on = FALSE /\ t.done = TRUE /\ t.queue = <<>> /\ t.seenOrder = <<>>
  BY <1>60
<1>8. t \in GoodStreams
  BY <1>5, <1>6, <1>7 DEF GoodStreams
<1>9. subscriber' = [subscriber EXCEPT ![p] = t]
  BY <1>1, <1>2 DEF Leave
<1>10. shown' \in [AskPhones -> SUBSET Asks] /\ fresh' \in [AskPhones -> BOOLEAN]
  BY DEF Leave, BridgeIInv, BridgeTyped
<1>11. UNCHANGED <<asks, bridge, askHub, shown, fresh>>
  BY DEF Leave
<1>12. \A q \in AskPhones : q # p => shown'[q] = shown[q] /\ fresh'[q] = fresh[q]
  BY <1>11
<1> QED BY <1>7, <1>8, <1>9, <1>10, <1>11, <1>12, PhoneMoves

LEMMA TakeNextKeeps ==
  ASSUME BridgeIInv, NEW p \in AskPhones, TakeNext(p)
  PROVE  BridgeIInv'
<1>1. PICK s, sees : s = subscriber[p] /\ sees = shown[p]
  OBVIOUS
<1>2. PICK frame, rest : frame = Head(s.queue) /\ rest = Tail(s.queue)
  OBVIOUS
<1>3. s \in GoodStreams /\ sees \in SUBSET Asks /\ s.on /\ s.queue # <<>>
  BY <1>1 DEF BridgeIInv, BridgeTyped, TakeNext
<1>4. /\ s.queue \in Seq(Frame \cup {AskOverflow}) /\ s.seenOrder \in Seq(Frame)
      /\ Len(s.seenOrder) <= MaxSubscriberSeen /\ Len(s.queue) <= MaxAskQueue
      /\ s.done \/ s.queue \in Seq(Frame)
      /\ s.done \in BOOLEAN /\ s.opened \in 0..MaxSubscribes
      /\ s = [on |-> s.on, done |-> s.done, queue |-> s.queue, seenOrder |-> s.seenOrder, opened |-> s.opened]
  BY <1>3, StreamFields
<1>5. /\ frame \in Frame \cup {AskOverflow} /\ rest \in Seq(Frame \cup {AskOverflow})
      /\ Len(rest) <= MaxAskQueue
  <2>1. frame \in Frame \cup {AskOverflow} /\ rest \in Seq(Frame \cup {AskOverflow}) /\ Len(rest) = Len(s.queue) - 1
    BY <1>2, <1>3, <1>4, HeadTailProperties
  <2>2. Len(s.queue) \in Nat /\ MaxAskQueue \in Nat
    BY <1>4, LenProperties, InteractionsAssumption
  <2>3. Len(rest) <= MaxAskQueue
    BY <1>4, <2>1, <2>2
  <2> QED BY <2>1, <2>3
<1>6. s.queue \in Seq(Frame) => frame \in Frame /\ rest \in Seq(Frame)
  BY <1>2, <1>3, HeadTailProperties
<1>7. PICK on : on = (frame # AskOverflow)
  OBVIOUS
<1>8. PICK t : t = [on |-> on, done |-> s.done, queue |-> rest, seenOrder |-> s.seenOrder, opened |-> s.opened]
  OBVIOUS
<1>9. t.on = on /\ t.done = s.done /\ t.queue = rest /\ t.seenOrder = s.seenOrder
  BY <1>8
<1>10. t \in AskStreams
  BY <1>4, <1>5, <1>7, <1>8 DEF AskStreams
<1>11. t \in GoodStreams
  BY <1>4, <1>5, <1>6, <1>9, <1>10 DEF GoodStreams
<1>12. subscriber' = [subscriber EXCEPT ![p] = t]
  <2>1. subscriber' = [subscriber EXCEPT ![p].queue = Tail(@), ![p].on = frame # AskOverflow]
    BY <1>1, <1>2 DEF TakeNext
  <2>2. subscriber \in [AskPhones -> GoodStreams]
    BY DEF BridgeIInv, BridgeTyped
  <2>3. subscriber' = [subscriber EXCEPT ![p].queue = rest, ![p].on = on]
    <3>1. subscriber' = [subscriber EXCEPT ![p].queue = Tail(subscriber[p].queue), ![p].on = frame # AskOverflow]
      BY <2>1
    <3>2. subscriber' = [subscriber EXCEPT ![p].queue = rest, ![p].on = frame # AskOverflow]
      BY <1>1, <1>2, <3>1
    <3>3. CASE frame = AskOverflow
      <4>1. on = FALSE /\ (frame # AskOverflow) = FALSE
        BY <1>7, <3>3
      <4> QED BY <3>2, <4>1
    <3>4. CASE frame # AskOverflow
      <4>1. on = TRUE /\ (frame # AskOverflow) = TRUE
        BY <1>7, <3>4
      <4> QED BY <3>2, <4>1
    <3> QED BY <3>3, <3>4
  <2>4. [s EXCEPT !.queue = rest, !.on = on] = t
    <3>1. PICK u : u = [s EXCEPT !.queue = rest, !.on = on]
      OBVIOUS
    <3>2. u = [on |-> on, done |-> s.done, queue |-> rest, seenOrder |-> s.seenOrder, opened |-> s.opened]
      BY <1>4, <3>1
    <3> QED BY <1>8, <3>1, <3>2
  <2>5. subscriber' = [subscriber EXCEPT ![p] = [subscriber[p] EXCEPT !.queue = rest, !.on = on]]
    BY <2>2, <2>3
  <2> QED BY <1>1, <2>4, <2>5
<1>13. PICK now : now = CASE frame.type = "requested" -> sees \cup {frame.ask}
                          [] frame.type = "resolved" -> sees \ {frame.ask}
                          [] OTHER -> sees
  OBVIOUS
<1>14. shown' = [shown EXCEPT ![p] = now]
  BY <1>1, <1>2, <1>13 DEF TakeNext
<1>15. now \in SUBSET Asks /\ (frame \in Frame => now = After(sees, frame))
  <2>1. CASE frame \in Frame
    <3>1. frame.type \in {"requested", "resolved"} /\ frame.ask \in Asks
      BY <2>1, FrameFields
    <3>2. now = After(sees, frame)
      BY <1>13, <3>1 DEF After
    <3>3. After(sees, frame) \in SUBSET Asks
      BY <1>3, <3>1 DEF After
    <3> QED BY <3>2, <3>3
  <2>2. CASE frame = AskOverflow
    <3>1. frame.type = "overflow"
      BY <2>2 DEF AskOverflow
    <3>2. now = sees
      BY <1>13, <3>1
    <3>3. frame \notin Frame
      BY <2>2, FrameFields
    <3> QED BY <1>3, <3>2, <3>3
  <2> QED BY <1>5, <2>1, <2>2
<1>16. /\ shown' \in [AskPhones -> SUBSET Asks] /\ shown'[p] = now
       /\ \A q \in AskPhones : q # p => shown'[q] = shown[q]
  BY <1>14, <1>15 DEF BridgeIInv, BridgeTyped
<1>17. UNCHANGED <<asks, bridge, askHub, fresh>>
  BY DEF TakeNext
<1>18. fresh' = fresh /\ fresh' \in [AskPhones -> BOOLEAN]
  BY <1>17 DEF BridgeIInv, BridgeTyped
<1>19. attached
  <2>1. HubSound(attached, interactionFrames, pendingControls, pending, subscriber)
    BY DEF BridgeIInv
  <2> QED BY <1>1, <1>3, <2>1 DEF HubSound
<1>20. ASSUME t.on, ~t.done, fresh'[p] PROVE PhoneSound(t, now, pending, asks, inbox)
  <2>1. Listening(p) /\ fresh[p]
    BY <1>1, <1>3, <1>9, <1>18, <1>20 DEF Listening
  <2>2. PhoneSound(s, sees, pending, asks, inbox)
    BY <1>1, <2>1 DEF BridgeIInv
  <2>3. s.queue \in Seq(Frame)
    BY <1>4, <1>9, <1>20
  <2>4. now = After(sees, frame)
    BY <1>6, <1>15, <2>3
  <2>5. ASSUME NEW a \in Asks PROVE Tells(rest, After(sees, frame), a) <=> Tells(s.queue, sees, a)
    <3>1. PICK queue : queue = s.queue
      OBVIOUS
    <3>2. Tells(rest, After(sees, frame), a) <=> Tells(queue, sees, a)
      BY <1>2, <1>3, <2>3, <3>1, TellsRead
    <3> QED BY <3>1, <3>2
  <2> QED BY <1>9, <2>2, <2>4, <2>5 DEF PhoneSound
<1>21. \A q \in AskPhones : q # p => shown'[q] = shown[q] /\ fresh'[q] = fresh[q]
  BY <1>16, <1>18
<1>22. UNCHANGED <<asks, bridge, askHub>>
  BY <1>17
<1>23. t.on /\ ~t.done /\ fresh'[p] => PhoneSound(t, shown'[p], pending, asks, inbox)
  BY <1>16, <1>20
<1> QED BY <1>11, <1>12, <1>16, <1>18, <1>19, <1>21, <1>22, <1>23, PhoneMoves

\* A new stream is given one request for every ask that is pending, or two.
LEMMA ReplayRequests ==
  ASSUME BridgeIInv, attached, NEW frames, frames = AsksReplayed
  PROVE  /\ frames \in Seq(Frame)
         /\ \A x : (\E i \in 1..Len(frames) : frames[i] = x)
                     <=> \E a \in Asks : x = Requested(a) /\ Contains(pending, a)
<1>1. PICK controls, keys : controls = pendingControls /\ keys = pending
  OBVIOUS
<1>2. PICK l, r : l = Requests(controls) /\ r = Requests(keys)
  OBVIOUS
<1>3. /\ interactionFrames = keys /\ controls \in Seq(Asks) /\ keys \in Seq(Asks)
      /\ \A a \in Asks : Contains(controls, a) => Contains(keys, a)
  BY <1>1 DEF BridgeIInv, BridgeTyped, HubSound
<1>4. PICK n, k : n = Len(controls) /\ k = Len(keys)
  OBVIOUS
<1>5. /\ n \in Nat /\ k \in Nat
      /\ l \in Seq(Frame) /\ Len(l) = n /\ \A i \in 1..n : l[i] = Requested(controls[i])
      /\ r \in Seq(Frame) /\ Len(r) = k /\ \A i \in 1..k : r[i] = Requested(keys[i])
      /\ \A i \in 1..n : controls[i] \in Asks
      /\ \A i \in 1..k : keys[i] \in Asks
  <2>1. n \in Nat /\ k \in Nat
    BY <1>3, <1>4, LenProperties
  <2>2. l \in Seq(Frame) /\ Len(l) = n /\ \A i \in 1..n : l[i] = Requested(controls[i])
    BY <1>2, <1>3, <1>4, SequencesOfFrames
  <2>3. r \in Seq(Frame) /\ Len(r) = k /\ \A i \in 1..k : r[i] = Requested(keys[i])
    BY <1>2, <1>3, <1>4, SequencesOfFrames
  <2>4. \A i \in 1..n : controls[i] \in Asks
    BY <1>3, <1>4, ElementOfSeq
  <2>5. \A i \in 1..k : keys[i] \in Asks
    BY <1>3, <1>4, ElementOfSeq
  <2> QED BY <2>1, <2>2, <2>3, <2>4, <2>5
<1>6. frames = l \o r
  BY <1>1, <1>2, <1>3 DEF AsksReplayed
<1>7. /\ frames \in Seq(Frame) /\ Len(frames) = n + k
      /\ \A i \in 1..(n + k) : frames[i] = IF i <= n THEN l[i] ELSE r[i - n]
  <2>1. /\ l \o r \in Seq(Frame) /\ Len(l \o r) = Len(l) + Len(r)
        /\ \A i \in 1..(Len(l) + Len(r)) : (l \o r)[i] = IF i <= Len(l) THEN l[i] ELSE r[i - Len(l)]
    BY <1>5, ConcatProperties
  <2> QED BY <1>5, <1>6, <2>1
<1>8. ASSUME NEW i \in 1..(n + k) PROVE \E a \in Asks : frames[i] = Requested(a) /\ Contains(keys, a)
  <2>1. CASE i <= n
    <3>1. i \in 1..n
      BY <1>5, <2>1
    <3>2. PICK a \in Asks : a = controls[i]
      BY <1>5, <3>1
    <3>3. Contains(controls, a)
      BY <1>4, <3>1, <3>2 DEF Contains
    <3>4. frames[i] = Requested(a)
      BY <1>5, <1>7, <2>1, <3>1, <3>2
    <3> QED BY <1>3, <3>3, <3>4
  <2>2. CASE ~(i <= n)
    <3>1. PICK j \in 1..k : j = i - n
      BY <1>5, <2>2
    <3>2. PICK a \in Asks : a = keys[j]
      BY <1>5, <3>1
    <3>3. Contains(keys, a)
      BY <1>4, <3>1, <3>2 DEF Contains
    <3>4. frames[i] = r[j]
      BY <1>7, <2>2, <3>1
    <3> QED BY <1>5, <3>1, <3>2, <3>3, <3>4
  <2> QED BY <2>1, <2>2
<1>9. ASSUME NEW a \in Asks, Contains(keys, a) PROVE \E i \in 1..(n + k) : frames[i] = Requested(a)
  <2>1. PICK j \in 1..k : keys[j] = a
    BY <1>4, <1>9 DEF Contains
  <2>2. PICK i : i = n + j
    OBVIOUS
  <2>3. i \in 1..(n + k) /\ ~(i <= n) /\ i - n = j
    BY <1>5, <2>2
  <2>4. frames[i] = r[j]
    BY <1>7, <2>3
  <2> QED BY <1>5, <2>1, <2>3, <2>4
<1> QED BY <1>1, <1>7, <1>8, <1>9

LEMMA SubscribeAsksKeeps ==
  ASSUME BridgeIInv, NEW p \in AskPhones, SubscribeAsks(p)
  PROVE  BridgeIInv'
<1>1. PICK opened : opened = subscriber[p].opened + 1
  OBVIOUS
<1>2. PICK on, done : on = TRUE /\ done = FALSE
  OBVIOUS
<1>3. PICK new : new = [NoSubscriber EXCEPT !.on = on, !.done = done, !.opened = opened]
  OBVIOUS
<1>4. PICK t : t = FoldLeft(AskEnqueued, new, AsksReplayed)
  OBVIOUS
<1>5. /\ subscriber' = [subscriber EXCEPT ![p] = t]
      /\ attached /\ subscriber[p].opened < MaxSubscribes
      /\ shown' = [shown EXCEPT ![p] = {}] /\ fresh' = [fresh EXCEPT ![p] = TRUE]
      /\ UNCHANGED <<asks, bridge, askHub>>
  BY <1>1, <1>2, <1>3, <1>4 DEF SubscribeAsks
<1>6. new \in GoodStreams /\ new.on = TRUE /\ new.done = FALSE /\ new.queue = <<>> /\ new.seenOrder = <<>>
  <2>1. new = [on |-> on, done |-> done, queue |-> <<>>, seenOrder |-> <<>>, opened |-> opened]
    BY <1>3, ReopenedIs
  <2>2. subscriber[p] \in GoodStreams
    BY DEF BridgeIInv, BridgeTyped
  <2>3. subscriber[p].opened \in 0..MaxSubscribes
    BY <2>2, StreamFields
  <2>4. opened \in 0..MaxSubscribes
    BY <1>1, <1>5, <2>3, InteractionsAssumption
  <2>5. /\ <<>> \in Seq(Frame \cup {AskOverflow}) /\ <<>> \in Seq(Frame) /\ Len(<<>>) = 0
        /\ 0 <= MaxAskQueue /\ 0 <= MaxSubscriberSeen
    BY InteractionsAssumption
  <2>6. new \in AskStreams
    BY <1>2, <2>1, <2>4, <2>5 DEF AskStreams
  <2>7. new.on = TRUE /\ new.done = FALSE /\ new.queue = <<>> /\ new.seenOrder = <<>>
    BY <1>2, <2>1
  <2>8. new \in GoodStreams
    BY <2>5, <2>6, <2>7 DEF GoodStreams
  <2> QED BY <2>7, <2>8
<1>7. PICK frames : frames = AsksReplayed
  OBVIOUS
<1>8. frames \in Seq(Frame) /\ \A x : (\E i \in 1..Len(frames) : frames[i] = x)
                                        <=> \E a \in Asks : x = Requested(a) /\ Contains(pending, a)
  BY <1>5, <1>7, ReplayRequests
<1>9. t \in GoodStreams /\ t.on = new.on
  BY <1>4, <1>6, <1>7, <1>8, ToldStays
<1>10. t.done \/ Covers(t, frames, Len(frames))
  BY <1>4, <1>6, <1>7, <1>8, ReplayCovers
<1>11. /\ shown' \in [AskPhones -> SUBSET Asks] /\ fresh' \in [AskPhones -> BOOLEAN]
       /\ shown'[p] = {}
       /\ \A q \in AskPhones : q # p => shown'[q] = shown[q] /\ fresh'[q] = fresh[q]
  BY <1>5 DEF BridgeIInv, BridgeTyped
<1>12. ASSUME ~t.done PROVE PhoneSound(t, {}, pending, asks, inbox)
  <2>1. PICK queue : queue = t.queue
    OBVIOUS
  <2>2. queue \in Seq(Frame)
    BY <1>9, <1>12, <2>1, StreamFields
  <2>3. \A x : Contains(queue, x) <=> \E a \in Asks : x = Requested(a) /\ Contains(pending, a)
    BY <1>8, <1>10, <1>12, <2>1 DEF Covers
  <2>4. \A i \in 1..Len(queue) : queue[i] = Requested(queue[i].ask)
    <3> SUFFICES ASSUME NEW i \in 1..Len(queue) PROVE queue[i] = Requested(queue[i].ask)
      OBVIOUS
    <3>1. PICK x : x = queue[i]
      OBVIOUS
    <3>2. Contains(queue, x)
      BY <3>1 DEF Contains
    <3>3. PICK a \in Asks : x = Requested(a)
      BY <2>3, <3>2
    <3>4. x.ask = a
      BY <3>3, RequestedIs
    <3> QED BY <3>1, <3>3, <3>4
  <2>5. ASSUME NEW a \in Asks PROVE Contains(queue, Requested(a)) <=> Contains(pending, a)
    <3>1. ASSUME Contains(queue, Requested(a)) PROVE Contains(pending, a)
      <4>1. PICK b \in Asks : Requested(a) = Requested(b) /\ Contains(pending, b)
        BY <2>3, <3>1
      <4>2. a = b
        BY <4>1, RequestedIs
      <4> QED BY <4>1, <4>2
    <3>2. ASSUME Contains(pending, a) PROVE Contains(queue, Requested(a))
      BY <2>3, <3>2
    <3> QED BY <3>1, <3>2
  <2>6. ASSUME NEW a \in Asks PROVE Tells(queue, {}, a) <=> Contains(pending, a)
    <3>1. Tells(queue, {}, a) <=> Contains(queue, Requested(a))
      BY <2>2, <2>4, TellsReplay
    <3> QED BY <2>5, <3>1
  <2>7. \A x : Contains(t.seenOrder, x) => Contains(queue, x)
    BY <1>10, <1>12, <2>1 DEF Covers
  <2>8. ASSUME NEW a \in Asks PROVE ~Contains(queue, Resolved(a))
    <3>1. ASSUME Contains(queue, Resolved(a)) PROVE FALSE
      <4>1. PICK b \in Asks : Resolved(a) = Requested(b)
        BY <2>3, <3>1
      <4>2. Resolved(a).type = "resolved" /\ Requested(b).type = "requested"
        BY RequestedIs
      <4> QED BY <4>1, <4>2
    <3> QED BY <3>1
  <2> QED BY <2>1, <2>5, <2>6, <2>7, <2>8 DEF PhoneSound
<1>13. t.on /\ ~t.done /\ fresh'[p] => PhoneSound(t, shown'[p], pending, asks, inbox)
  BY <1>11, <1>12
<1> QED BY <1>5, <1>9, <1>11, <1>13, PhoneMoves

-----------------------------------------------------------------------------
(* The invariant of the asks.                                              *)

LEMMA BridgeInitially ==
  ASSUME BridgeInit
  PROVE  BridgeIInv
<1>1. /\ asks = [a \in Asks |-> "new"]
      /\ link = "down" /\ connects = 0 /\ inbox = <<>> /\ ready = FALSE
      /\ pending = <<>> /\ inFlight = {} /\ sent = [a \in Asks |-> <<>>]
      /\ attached = FALSE /\ interactionFrames = <<>> /\ pendingControls = <<>>
      /\ subscriber = [p \in AskPhones |-> NoSubscriber]
      /\ shown = [p \in AskPhones |-> {}]
      /\ fresh = [p \in AskPhones |-> FALSE]
  BY DEF BridgeInit
<1>2. NoSubscriber \in GoodStreams /\ NoSubscriber.on = FALSE
  <2>1. PICK none : none = NoSubscriber
    OBVIOUS
  <2>2. none = [on |-> FALSE, done |-> TRUE, queue |-> <<>>, seenOrder |-> <<>>, opened |-> 0]
    BY <2>1 DEF NoSubscriber
  <2>3. none.on = FALSE /\ none.done = TRUE /\ none.queue = <<>> /\ none.seenOrder = <<>>
    BY <2>2
  <2>4. /\ <<>> \in Seq(Frame \cup {AskOverflow}) /\ <<>> \in Seq(Frame) /\ Len(<<>>) = 0
        /\ 0 <= MaxAskQueue /\ 0 <= MaxSubscriberSeen /\ 0 \in 0..MaxSubscribes
    BY InteractionsAssumption
  <2>5. none \in AskStreams
    BY <2>2, <2>4 DEF AskStreams
  <2>6. none \in GoodStreams
    BY <2>3, <2>4, <2>5 DEF GoodStreams
  <2> QED BY <2>1, <2>3, <2>6
<1>3. <<>> \in Seq(Messages) /\ <<>> \in Seq(Asks) /\ <<>> \in Seq(Answers) /\ Len(<<>>) = 0 /\ 1..0 = {}
  OBVIOUS
<1>4. 0 \in 0..MaxConnects
  BY InteractionsAssumption
<1>5. BridgeTyped
  BY <1>1, <1>2, <1>3, <1>4 DEF BridgeTyped
<1>6. \A kind, a : ~Waits(<<>>, kind, a)
  BY <1>3 DEF Waits
<1>7. KeysOnce(<<>>) /\ \A b : ~Contains(<<>>, b)
  BY EmptyKeys DEF OnceKeys
<1>8. BoxSound(asks, inbox)
  BY <1>1, <1>3, <1>6 DEF BoxSound
<1>9. PendingSound(asks, inbox, pending)
  BY <1>1, <1>7 DEF PendingSound
<1>10. AnswerSound(asks, sent, inFlight)
  BY <1>1, <1>3 DEF AnswerSound
<1>11. \A p \in AskPhones : ~subscriber[p].on
  BY <1>1, <1>2
<1>12. HubSound(attached, interactionFrames, pendingControls, pending, subscriber)
  BY <1>1, <1>11 DEF HubSound
<1>13. \A p \in AskPhones : ~Listening(p)
  BY <1>11 DEF Listening
<1> QED BY <1>1, <1>5, <1>8, <1>9, <1>10, <1>12, <1>13 DEF BridgeIInv

LEMMA BridgeStep ==
  BridgeIInv /\ [BridgeNext]_bridgeVars => BridgeIInv'
<1> SUFFICES ASSUME BridgeIInv, [BridgeNext]_bridgeVars PROVE BridgeIInv'
  OBVIOUS
<1>1. CASE UNCHANGED bridgeVars
  <2>1. UNCHANGED <<asks, inbox, pending, attached, interactionFrames, pendingControls, subscriber, shown, fresh>>
    BY <1>1 DEF bridgeVars, bridge, askHub, phones
  <2>2. link' = link /\ connects' = connects /\ ready' = ready /\ inFlight' = inFlight /\ sent' = sent
    BY <1>1 DEF bridgeVars, bridge
  <2>3. /\ sent' \in [Asks -> Seq(Answers)] /\ AnswerSound(asks, sent', inFlight') /\ inFlight' \in SUBSET Asks
        /\ link' \in {"down", "attached", "open"} /\ connects' \in 0..MaxConnects /\ ready' \in BOOLEAN
        /\ link' # "open" => inbox = <<>> /\ pending = <<>>
    BY <2>2 DEF BridgeIInv, BridgeTyped
  <2> QED BY <2>1, <2>3, LinkKeeps
<1>2. CASE \E a \in Asks : Official(a) \/ Bridge(a)
  <2>1. PICK a \in Asks : Official(a) \/ Bridge(a)
    BY <1>2
  <2>2. Ask(a) \/ Close(a) \/ Take(a) \/ Respond(a) \/ Confirmed(a) \/ NotConfirmed(a)
    BY <2>1 DEF Official, Bridge
  <2> QED BY <2>2, AskKeeps, CloseKeeps, TakeKeeps, RespondKeeps, ConfirmedKeeps, NotConfirmedKeeps
<1>3. CASE StreamOpens
  BY <1>3, StreamOpensKeeps
<1>4. CASE Attach
  BY <1>4, AttachKeeps
<1>5. CASE StreamFails
  BY <1>5, StreamFailsKeeps
<1>6. CASE Accept
  BY <1>6, AcceptKeeps
<1>7. CASE AttachHub
  BY <1>7, AttachHubKeeps
<1>8. CASE \E p \in AskPhones : Phone(p)
  <2>1. PICK p \in AskPhones : SubscribeAsks(p) \/ TakeNext(p) \/ Leave(p)
    BY <1>8 DEF Phone
  <2> QED BY <2>1, SubscribeAsksKeeps, TakeNextKeeps, LeaveKeeps
<1> QED BY <1>1, <1>2, <1>3, <1>4, <1>5, <1>6, <1>7, <1>8 DEF BridgeNext

\* The hub holds what the bridge holds, an answer under way is the one in flight, and a
\* phone whose stream lived through no disconnect will show what is pending once it has
\* read its queue (InteractionBridge, the hub's two maps and the phone's seen keys).
THEOREM BridgeInvariantHolds ==
  BridgeSpec => []BridgeIInv
<1>1. BridgeInit => BridgeIInv
  BY BridgeInitially
<1> QED BY <1>1, BridgeStep, PTL DEF BridgeSpec

LEMMA TypesOfBridge ==
  ASSUME BridgeIInv
  PROVE  BridgeTypeOK
<1>1. \A i \in 1..Len(inbox) :
        inbox[i].type \in {"ready", "waterfall", "cancel"} /\ inbox[i].ask \in Asks \cup {NoAsk}
  <2> SUFFICES ASSUME NEW i \in 1..Len(inbox)
               PROVE  inbox[i].type \in {"ready", "waterfall", "cancel"} /\ inbox[i].ask \in Asks \cup {NoAsk}
    OBVIOUS
  <2>1. inbox[i] \in Messages
    BY ElementOfSeq DEF BridgeIInv, BridgeTyped
  <2> QED BY <2>1, MessageFields
<1>2. \A a \in Asks : \A i \in 1..Len(sent[a]) : sent[a][i].at \in {"sent", "taken", "refused"}
  <2> SUFFICES ASSUME NEW a \in Asks, NEW i \in 1..Len(sent[a])
               PROVE  sent[a][i].at \in {"sent", "taken", "refused"}
    OBVIOUS
  <2>1. sent[a] \in Seq(Answers)
    BY DEF BridgeIInv, BridgeTyped
  <2>2. sent[a][i] \in Answers
    BY <2>1, ElementOfSeq
  <2> QED BY <2>2 DEF Answers
<1>3. ASSUME NEW p \in AskPhones
      PROVE  /\ Len(subscriber[p].seenOrder) <= MaxSubscriberSeen
             /\ Len(subscriber[p].queue) <= MaxAskQueue
             /\ \A i \in 1..Len(subscriber[p].queue) : subscriber[p].queue[i] \in Frame \cup {AskOverflow}
             /\ subscriber[p].opened \in 0..MaxSubscribes
  <2>1. PICK s \in GoodStreams : s = subscriber[p]
    BY DEF BridgeIInv, BridgeTyped
  <2>2. /\ s.opened \in 0..MaxSubscribes /\ s.queue \in Seq(Frame \cup {AskOverflow})
        /\ Len(s.seenOrder) <= MaxSubscriberSeen /\ Len(s.queue) <= MaxAskQueue
    BY StreamFields
  <2>3. \A i \in 1..Len(s.queue) : s.queue[i] \in Frame \cup {AskOverflow}
    BY <2>2, ElementOfSeq
  <2> QED BY <2>1, <2>2, <2>3
<1>4. /\ asks \in [Asks -> {"new", "open", "closed"}]
      /\ link \in {"down", "attached", "open"}
      /\ connects \in 0..MaxConnects
      /\ ready \in BOOLEAN
      /\ {pending, interactionFrames, pendingControls} \subseteq Seq(Asks)
      /\ inFlight \subseteq Asks
      /\ attached \in BOOLEAN
      /\ shown \in [AskPhones -> SUBSET Asks]
      /\ fresh \in [AskPhones -> BOOLEAN]
  BY DEF BridgeIInv, BridgeTyped
<1> QED BY <1>1, <1>2, <1>3, <1>4 DEF BridgeTypeOK

LEMMA KeysAreASet ==
  ASSUME NEW keys \in Seq(Asks)
  PROVE  ToSet(keys) \subseteq Asks /\ \A a : a \in ToSet(keys) <=> Contains(keys, a)
<1>1. DOMAIN keys = 1..Len(keys)
  BY LenProperties
<1>2. \A a : a \in ToSet(keys) <=> Contains(keys, a)
  BY <1>1 DEF ToSet, Contains
<1>3. \A i \in 1..Len(keys) : keys[i] \in Asks
  BY ElementOfSeq
<1> QED BY <1>1, <1>2, <1>3 DEF ToSet

LEMMA InvariantMeansSound ==
  BridgeIInv => BridgeSound
<1> SUFFICES ASSUME BridgeIInv PROVE BridgeSound
  OBVIOUS
<1>1. pending \in Seq(Asks) /\ pendingControls \in Seq(Asks) /\ shown \in [AskPhones -> SUBSET Asks]
  BY DEF BridgeIInv, BridgeTyped
<1>2. HubAgrees
  <2> SUFFICES ASSUME attached
               PROVE  interactionFrames = pending /\ ToSet(pendingControls) \subseteq ToSet(pending)
    BY DEF HubAgrees
  <2>1. /\ interactionFrames = pending
        /\ \A a \in Asks : Contains(pendingControls, a) => Contains(pending, a)
    BY DEF BridgeIInv, HubSound
  <2> QED BY <1>1, <2>1, KeysAreASet
<1>3. FreshPhoneAgrees
  <2> SUFFICES ASSUME NEW p \in AskPhones, Settled(p), fresh[p] PROVE shown[p] = ToSet(pending)
    BY DEF FreshPhoneAgrees
  <2>1. Listening(p) /\ subscriber[p].queue = <<>>
    BY DEF Settled
  <2>2. PhoneSound(subscriber[p], shown[p], pending, asks, inbox)
    BY <2>1 DEF BridgeIInv
  <2>3. \A a \in Asks : Tells(<<>>, shown[p], a) <=> Contains(pending, a)
    BY <2>1, <2>2 DEF PhoneSound
  <2>4. \A a \in Asks : a \in shown[p] <=> a \in ToSet(pending)
    BY <1>1, <2>3, TellsNothing, KeysAreASet
  <2>5. shown[p] \subseteq Asks /\ ToSet(pending) \subseteq Asks
    BY <1>1, KeysAreASet
  <2> QED BY <2>4, <2>5
<1>4. AnsweredOnce
  BY DEF BridgeIInv, AnswerSound, AnsweredOnce
<1> QED BY <1>2, <1>3, <1>4, TypesOfBridge DEF BridgeSound

\* The hub agrees with the bridge, a phone that has read a stream which lived through no
\* disconnect shows what is pending, and an ask has one answer under way at most
\* (mobile-interactions-compat-rc1 and the event hub of mobile-stream-compat-rc1).
THEOREM BridgeIsSound ==
  BridgeSpec => []BridgeSound
BY BridgeInvariantHolds, InvariantMeansSound, PTL

\* What may have happened to an ask that leaves the bridge while it is connected.
LeavesOver ==
  \A a \in Asks : Contains(pending, a) /\ ~Contains(pending', a) /\ link' # "down" => asks[a] = "closed"

LEMMA ResolvedLeavesOver ==
  ASSUME BridgeIInv, NEW b \in Asks, asks[b] = "closed", pending' = WithoutKey(pending, b)
  PROVE  LeavesOver
<1>1. pending \in OnceKeys
  BY HubsOf
<1>2. \A c \in Asks : Contains(WithoutKey(pending, b), c) <=> c # b /\ Contains(pending, c)
  BY <1>1, WithoutKeyFacts
<1> QED BY <1>2 DEF LeavesOver

LEMMA StepLeavesOver ==
  BridgeIInv /\ [BridgeNext]_bridgeVars => LeavesOver
<1> SUFFICES ASSUME BridgeIInv, [BridgeNext]_bridgeVars PROVE LeavesOver
  OBVIOUS
<1>1. CASE pending' = pending
  BY <1>1 DEF LeavesOver
<1>2. CASE Attach
  <2>1. pending = <<>>
    BY <1>2 DEF Attach, BridgeIInv
  <2> QED BY <2>1, EmptyKeys DEF LeavesOver
<1>3. CASE StreamFails
  BY <1>3 DEF StreamFails, LeavesOver
<1>4. CASE Accept
  <2>1. PICK frame : frame = Head(inbox)
    OBVIOUS
  <2>2. inbox # <<>> /\ inbox \in Seq(Messages)
    BY <1>4 DEF Accept, BridgeIInv, BridgeTyped
  <2>3. frame \in Messages /\ frame = inbox[1] /\ 1 \in 1..Len(inbox)
    BY <2>1, <2>2, HeadTailProperties, LenProperties
  <2>4. CASE frame.type = "ready" /\ UNCHANGED <<pending, askHub, subscriber>>
    BY <2>4, <1>1
  <2>5. CASE frame.type = "cancel" /\ Resolve(frame.ask)
    <3>1. frame.ask \in Asks
      BY <2>3, <2>5, MessageFields
    <3>2. Waits(inbox, "cancel", frame.ask)
      BY <2>3, <2>5 DEF Waits
    <3>3. asks[frame.ask] = "closed"
      BY <3>1, <3>2 DEF BridgeIInv, BoxSound
    <3> QED BY <2>5, <3>1, <3>3, ResolvedLeavesOver DEF Resolve
  <2>6. CASE frame.type = "waterfall" /\ pending' = WithKey(pending, frame.ask)
    <3>1. frame.ask \in Asks /\ pending \in OnceKeys
      BY <2>3, <2>6, MessageFields, HubsOf
    <3>2. \A c \in Asks : Contains(pending, c) => Contains(WithKey(pending, frame.ask), c)
      BY <3>1, WithKeyFacts
    <3> QED BY <2>6, <3>2 DEF LeavesOver
  <2> QED BY <1>4, <2>1, <2>4, <2>5, <2>6 DEF Accept
<1>5. CASE \E a \in Asks : Official(a) \/ Bridge(a)
  <2>1. PICK a \in Asks : Official(a) \/ Bridge(a)
    BY <1>5
  <2>2. CASE Confirmed(a)
    <3>1. asks[a] = "closed"
      BY <2>2, ConfirmedIsOver
    <3> QED BY <2>2, <3>1, ResolvedLeavesOver DEF Confirmed, Resolve
  <2>3. CASE Ask(a) \/ Close(a) \/ Take(a) \/ Respond(a) \/ NotConfirmed(a)
    <3>1. pending' = pending
      BY <2>3 DEF Ask, Close, Take, Respond, NotConfirmed, LeavePending
    <3> QED BY <1>1, <3>1
  <2> QED BY <2>1, <2>2, <2>3 DEF Official, Bridge
<1>6. CASE StreamOpens \/ AttachHub \/ (\E p \in AskPhones : Phone(p)) \/ UNCHANGED bridgeVars
  <2>1. pending' = pending
    BY <1>6 DEF StreamOpens, AttachHub, Phone, SubscribeAsks, TakeNext, Leave, bridgeVars, bridge
  <2> QED BY <1>1, <2>1
<1> QED BY <1>2, <1>3, <1>4, <1>5, <1>6 DEF BridgeNext

\* While the bridge is connected an ask leaves it only when it is over: the official
\* runtime said so, or took our answer (accept and respond of InteractionBridge).
THEOREM AsksLeaveWhenOver ==
  BridgeSpec => WithdrawnWhenOver
<1>1. BridgeIInv /\ [BridgeNext]_bridgeVars
        => [\A a \in Asks : Contains(pending, a) /\ ~Contains(pending', a) /\ link' # "down"
              => asks[a] = "closed"]_bridgeVars
  BY StepLeavesOver DEF LeavesOver
<1> QED BY <1>1, BridgeInvariantHolds, PTL DEF BridgeSpec, WithdrawnWhenOver

-----------------------------------------------------------------------------
(***************************************************************************)
(* Events: an open stream misses nothing without being told, gets events   *)
(* in their order, and the watermark is true, for any number of sessions,  *)
(* phones, reads and streams, and any limits.                              *)
(***************************************************************************)
Marks == [last : 0..MaxSeq, source : {"none", "mux", "history"}]
Caches == {c \in Seq(Seqs) : Len(c) <= MaxCachedEvents}
Waiting == {w \in Seq(Item) : Len(w) <= MaxPendingGlobalEvents}
Queues == {w \in Seq(Item \cup {Overflow, BaselineRequired}) : Len(w) <= MaxSubscriberQueue}
Reasons == {"no", "archived", "cached", "overflow"}
Streams == [on : BOOLEAN, done : BOOLEAN, scope : Sessions \cup {AnySession}, since : 0..MaxSeq,
            queue : Queues, last : [Sessions -> 0..MaxSeq], opened : 0..MaxStreams,
            from : [Sessions -> 0..MaxSeq], got : SUBSET Item, told : BOOLEAN,
            taken : [Sessions -> 0..MaxSeq]]
EventHubs == [events : [Sessions -> Caches], watermark : [Sessions -> Marks],
         stream : [Phones -> Streams], skipped : [Item -> Reasons],
         pending : Waiting, required : BOOLEAN]

\* The queue of a stream has the events of a session in order, after what was taken.
QueueInOrder(queue, last, taken) ==
  /\ \A s \in Sessions : taken[s] <= last[s]
  /\ \A j \in 1..Len(queue) : queue[j] \in Item =>
       /\ taken[queue[j][1]] < queue[j][2] /\ queue[j][2] <= last[queue[j][1]]
       /\ \A k \in 1..(j - 1) : queue[k][1] = queue[j][1] => queue[k][2] < queue[j][2]
StreamInOrder(st) == QueueInOrder(st.queue, st.last, st.taken)

\* The same subscriber later: it is not opened again and forgets nothing it was given.
SameReader(st, t) ==
  /\ t.on = st.on /\ t.scope = st.scope /\ t.since = st.since /\ t.from = st.from
  /\ t.opened = st.opened /\ t.taken = st.taken
  /\ (st.done => t.done) /\ (st.told => t.told) /\ st.got \subseteq t.got

-----------------------------------------------------------------------------
(* Sequences that grow at their end and give way at their front.           *)

LEMMA LongerIs ==
  ASSUME NEW S, NEW w \in Seq(S), NEW x \in S, NEW t, t = Append(w, x)
  PROVE  /\ Len(w) \in Nat /\ t \in Seq(S) /\ Len(t) = Len(w) + 1 /\ t[Len(w) + 1] = x
         /\ \A i \in 1..Len(w) : t[i] = w[i]
BY AppendProperties, LenProperties

LEMMA SlidIs ==
  ASSUME NEW S, NEW w \in Seq(S), NEW x \in S, NEW t, t = Tail(Append(w, x))
  PROVE  /\ Len(w) \in Nat /\ t \in Seq(S) /\ Len(t) = Len(w)
         /\ \A i \in 1..Len(t) : t[i] = Append(w, x)[i + 1]
<1>1. PICK long : long = Append(w, x)
  OBVIOUS
<1>2. /\ Len(w) \in Nat /\ long \in Seq(S) /\ Len(long) = Len(w) + 1
  BY <1>1, LongerIs
<1>3. long # <<>>
  BY <1>2
<1>4. /\ t \in Seq(S) /\ Len(t) = Len(long) - 1
      /\ \A i \in 1..Len(t) : t[i] = long[i + 1]
  BY <1>1, <1>2, <1>3, HeadTailProperties
<1>5. (Len(w) + 1) - 1 = Len(w)
  BY <1>2
<1> QED BY <1>1, <1>2, <1>4, <1>5

LEMMA LongerContains ==
  ASSUME NEW S, NEW w \in Seq(S), NEW x \in S, NEW t, t = Append(w, x)
  PROVE  \A e : Contains(t, e) <=> e = x \/ Contains(w, e)
<1>1. PICK n : n = Len(w)
  OBVIOUS
<1>2. /\ n \in Nat /\ Len(t) = n + 1 /\ t[n + 1] = x /\ \A i \in 1..n : t[i] = w[i]
  BY <1>1, LongerIs
<1>3. \A i : i \in 1..(n + 1) <=> i \in 1..n \/ i = n + 1
  BY <1>2
<1> QED BY <1>1, <1>2, <1>3 DEF Contains

\* What gives way is the first.
LEMMA SlidContains ==
  ASSUME NEW S, NEW w \in Seq(S), w # <<>>, NEW x \in S, NEW t, t = Tail(Append(w, x))
  PROVE  /\ \A e : Contains(t, e) => e = x \/ Contains(w, e)
         /\ \A e : e = x \/ Contains(w, e) => Contains(t, e) \/ e = Head(w)
         /\ Contains(t, x)
<1>1. PICK n : n = Len(w)
  OBVIOUS
<1>2. PICK long : long = Append(w, x)
  OBVIOUS
<1>3. /\ n \in Nat /\ Len(long) = n + 1 /\ long[n + 1] = x /\ \A i \in 1..n : long[i] = w[i]
  BY <1>1, <1>2, LongerIs
<1>4. n # 0 /\ Head(w) = w[1]
  BY <1>1, EmptySeq
<1>5. Len(t) = n /\ \A i \in 1..n : t[i] = long[i + 1]
  BY <1>1, <1>2, SlidIs
<1>6. \A i \in 1..n : i + 1 \in 1..n \/ i + 1 = n + 1
  BY <1>3
<1>7. \A i \in 1..n : i # 1 => i - 1 \in 1..n /\ (i - 1) + 1 = i
  BY <1>3
<1>8. n \in 1..n /\ 1 \in 1..n
  BY <1>3, <1>4
<1>9. ASSUME NEW i \in 1..n PROVE t[i] = x \/ \E j \in 1..n : w[j] = t[i]
  <2>1. t[i] = long[i + 1]
    BY <1>5
  <2>2. CASE i + 1 \in 1..n
    <3>1. t[i] = w[i + 1]
      BY <1>3, <2>1, <2>2
    <3> QED BY <2>2, <3>1
  <2>3. CASE i + 1 = n + 1
    BY <1>3, <2>1, <2>3
  <2> QED BY <1>6, <2>2, <2>3
<1>10. t[n] = x
  BY <1>3, <1>5, <1>8
<1>11. ASSUME NEW i \in 1..n PROVE w[i] = Head(w) \/ \E j \in 1..n : t[j] = w[i]
  <2>1. CASE i = 1
    BY <1>4, <2>1
  <2>2. CASE i # 1
    <3>1. i - 1 \in 1..n /\ t[i - 1] = long[(i - 1) + 1] /\ (i - 1) + 1 = i
      BY <1>5, <1>7, <2>2
    <3>2. t[i - 1] = w[i]
      BY <1>3, <3>1
    <3> QED BY <3>1, <3>2
  <2> QED BY <2>1, <2>2
<1>12. \A e : (\E i \in 1..n : t[i] = e) => e = x \/ \E j \in 1..n : w[j] = e
  BY <1>9
<1>13. \A e : e = x \/ (\E i \in 1..n : w[i] = e) => (\E j \in 1..n : t[j] = e) \/ e = Head(w)
  BY <1>8, <1>10, <1>11
<1>14. \A e : (Contains(t, e) <=> \E i \in 1..n : t[i] = e) /\ (Contains(w, e) <=> \E i \in 1..n : w[i] = e)
  BY <1>1, <1>5 DEF Contains
<1> QED BY <1>8, <1>10, <1>12, <1>13, <1>14

-----------------------------------------------------------------------------
(* The cache, the watermark and the stream of a phone.                     *)

LEMMA RememberedIs ==
  ASSUME NEW c \in Caches, NEW q \in Seqs, NEW t, t = Remembered(c, q)
  PROVE  t \in Caches /\ \A r : Contains(t, r) => r = q \/ Contains(c, r)
<1>1. MaxCachedEvents \in Nat /\ MaxCachedEvents # 0
  BY MobileEventsAssumption
<1>2. c \in Seq(Seqs) /\ Len(c) <= MaxCachedEvents /\ Len(c) \in Nat
  BY LenProperties DEF Caches
<1>3. CASE Contains(c, q)
  BY <1>3 DEF Remembered
<1>4. CASE ~Contains(c, q) /\ Len(c) < MaxCachedEvents
  <2>1. t = Append(c, q)
    BY <1>4 DEF Remembered
  <2>2. t \in Seq(Seqs) /\ Len(t) = Len(c) + 1
    BY <1>2, <2>1, LongerIs
  <2>3. \A r : Contains(t, r) => r = q \/ Contains(c, r)
    BY <1>2, <2>1, LongerContains
  <2>4. Len(t) <= MaxCachedEvents
    BY <1>1, <1>2, <1>4, <2>2
  <2> QED BY <2>2, <2>3, <2>4 DEF Caches
<1>5. CASE ~Contains(c, q) /\ ~(Len(c) < MaxCachedEvents)
  <2>1. t = Tail(Append(c, q))
    BY <1>5 DEF Remembered
  <2>2. t \in Seq(Seqs) /\ Len(t) = Len(c)
    BY <1>2, <2>1, SlidIs
  <2>3. Len(c) # 0
    BY <1>1, <1>2, <1>5
  <2>4. c # <<>>
    BY <2>3
  <2>5. \A r : Contains(t, r) => r = q \/ Contains(c, r)
    BY <1>2, <2>1, <2>4, SlidContains
  <2> QED BY <1>2, <2>2, <2>5 DEF Caches
<1> QED BY <1>3, <1>4, <1>5

LEMMA MarkedIs ==
  ASSUME NEW m \in Marks, m.source = "none" => m.last = 0, NEW q \in Seqs,
         NEW source \in {"mux", "history"}, NEW t, t = Marked(m, q, source)
  PROVE  /\ t \in Marks /\ t.source # "none"
         /\ t.last >= m.last /\ t.last >= q /\ t.last \in {m.last, q}
<1>1. m.last \in 0..MaxSeq /\ m.source \in {"none", "mux", "history"}
  BY DEF Marks
<1>2. q \in Nat /\ q # 0 /\ q \in 0..MaxSeq
  BY DEF Seqs
<1>3. CASE \/ m.source # "none" /\ q < m.last
           \/ m.source = "mux" /\ source = "history" /\ q = m.last
  <2>1. t = m
    BY <1>3 DEF Marked
  <2> QED BY <1>1, <1>2, <1>3, <2>1
<1>4. CASE ~(\/ m.source # "none" /\ q < m.last
             \/ m.source = "mux" /\ source = "history" /\ q = m.last)
  <2>1. t = [last |-> q, source |-> source]
    BY <1>4 DEF Marked
  <2>2. t.last = q /\ t.source = source
    BY <2>1
  <2>3. q >= m.last
    BY <1>1, <1>2, <1>4
  <2>4. t \in Marks
    BY <1>2, <2>1 DEF Marks
  <2> QED BY <1>2, <2>2, <2>3, <2>4
<1> QED BY <1>3, <1>4

LEMMA StreamHas ==
  ASSUME NEW st \in Streams
  PROVE  /\ st.on \in BOOLEAN /\ st.done \in BOOLEAN /\ st.scope \in Sessions \cup {AnySession}
         /\ st.since \in 0..MaxSeq /\ st.queue \in Queues /\ st.last \in [Sessions -> 0..MaxSeq]
         /\ st.opened \in 0..MaxStreams /\ st.from \in [Sessions -> 0..MaxSeq]
         /\ st.got \in SUBSET Item /\ st.told \in BOOLEAN /\ st.taken \in [Sessions -> 0..MaxSeq]
BY DEF Streams

LEMMA ControlsAreNone ==
  /\ Overflow \notin Item /\ BaselineRequired \notin Item /\ Overflow # BaselineRequired
<1>1. AnySession \notin Sessions
  BY MobileEventsAssumption
<1> QED BY <1>1 DEF Overflow, BaselineRequired, Item

\* A stream that fails has nothing but the overflow.
LEMMA FailedIs ==
  ASSUME NEW st \in Streams, NEW t, t = Failed(st), StreamInOrder(st)
  PROVE  /\ t \in Streams /\ SameReader(st, t) /\ StreamInOrder(t)
         /\ t.done /\ t.got = st.got /\ t.last = st.last /\ t.told = st.told
<1>1. PICK w : w = <<Overflow>>
  OBVIOUS
<1>2. Len(w) = 1 /\ w[1] = Overflow /\ w \in Seq(Item \cup {Overflow, BaselineRequired})
  BY <1>1
<1>3. 1 <= MaxSubscriberQueue
  BY MobileEventsAssumption
<1>4. w \in Queues
  BY <1>2, <1>3 DEF Queues
<1>5. t = [st EXCEPT !.queue = w, !.done = TRUE]
  BY <1>1 DEF Failed
<1>6. t = [on |-> st.on, done |-> TRUE, scope |-> st.scope, since |-> st.since, queue |-> w,
           last |-> st.last, opened |-> st.opened, from |-> st.from, got |-> st.got,
           told |-> st.told, taken |-> st.taken]
  BY <1>5 DEF Streams
<1>7. t \in Streams
  BY <1>4, <1>6, StreamHas DEF Streams
<1>8. /\ t.on = st.on /\ t.done = TRUE /\ t.scope = st.scope /\ t.since = st.since /\ t.queue = w
      /\ t.last = st.last /\ t.opened = st.opened /\ t.from = st.from /\ t.got = st.got
      /\ t.told = st.told /\ t.taken = st.taken
  BY <1>6
<1>9. \A j \in 1..Len(w) : w[j] \notin Item
  BY <1>2, ControlsAreNone
<1>10. StreamInOrder(t)
  BY <1>8, <1>9 DEF StreamInOrder, QueueInOrder
<1> QED BY <1>7, <1>8, <1>10 DEF SameReader

\* What is put at the end of a queue leaves it in order, if it is no event or a later one.
LEMMA QueueLonger ==
  ASSUME NEW w \in Queues, NEW last \in [Sessions -> 0..MaxSeq], NEW taken \in [Sessions -> 0..MaxSeq],
         QueueInOrder(w, last, taken), Len(w) < MaxSubscriberQueue,
         NEW e \in Item \cup {Overflow, BaselineRequired}, NEW later \in [Sessions -> 0..MaxSeq],
         \A s \in Sessions : later[s] >= last[s],
         e \in Item => e[2] > last[e[1]] /\ later[e[1]] = e[2],
         NEW t, t = Append(w, e)
  PROVE  t \in Queues /\ QueueInOrder(t, later, taken)
<1>1. w \in Seq(Item \cup {Overflow, BaselineRequired}) /\ MaxSubscriberQueue \in Nat
  BY MobileEventsAssumption DEF Queues
<1>2. PICK n : n = Len(w)
  OBVIOUS
<1>3. /\ n \in Nat /\ t \in Seq(Item \cup {Overflow, BaselineRequired}) /\ Len(t) = n + 1 /\ t[n + 1] = e
      /\ \A i \in 1..n : t[i] = w[i]
  BY <1>1, <1>2, LongerIs
<1>4. t \in Queues
  BY <1>1, <1>2, <1>3 DEF Queues
<1>5. ASSUME NEW s \in Sessions
      PROVE  last[s] \in Nat /\ taken[s] \in Nat /\ later[s] \in Nat /\ taken[s] <= last[s] /\ last[s] <= later[s]
  BY DEF QueueInOrder
<1>6. ASSUME NEW i \in Item PROVE i[1] \in Sessions /\ i[2] \in Nat
  BY DEF Item, Seqs
<1>7. ASSUME NEW j \in 1..n, w[j] \in Item
      PROVE  /\ taken[w[j][1]] < w[j][2] /\ w[j][2] <= last[w[j][1]]
             /\ \A k \in 1..(j - 1) : w[k][1] = w[j][1] => w[k][2] < w[j][2]
  BY <1>2, <1>7 DEF QueueInOrder
<1>8. ASSUME NEW j \in 1..(n + 1), t[j] \in Item
      PROVE  /\ taken[t[j][1]] < t[j][2] /\ t[j][2] <= later[t[j][1]]
             /\ \A k \in 1..(j - 1) : t[k][1] = t[j][1] => t[k][2] < t[j][2]
  <2>1. CASE j \in 1..n
    <3>1. t[j] = w[j] /\ w[j] \in Item
      BY <1>3, <1>8, <2>1
    <3>2. \A k \in 1..(j - 1) : k \in 1..n /\ t[k] = w[k]
      BY <1>3, <2>1
    <3>3. /\ taken[w[j][1]] < w[j][2] /\ w[j][2] <= last[w[j][1]]
          /\ \A k \in 1..(j - 1) : w[k][1] = w[j][1] => w[k][2] < w[j][2]
      BY <1>7, <2>1, <3>1
    <3>4. w[j][1] \in Sessions /\ w[j][2] \in Nat
      BY <1>6, <3>1
    <3>5. last[w[j][1]] \in Nat /\ later[w[j][1]] \in Nat /\ last[w[j][1]] <= later[w[j][1]]
      BY <1>5, <3>4
    <3>6. w[j][2] <= later[w[j][1]]
      BY <3>3, <3>4, <3>5
    <3> QED BY <3>1, <3>2, <3>3, <3>6
  <2>2. CASE j = n + 1
    <3>1. t[j] = e /\ e \in Item
      BY <1>3, <1>8, <2>2
    <3>2. e[1] \in Sessions /\ e[2] \in Nat /\ e[2] > last[e[1]] /\ later[e[1]] = e[2]
      BY <1>6, <3>1
    <3>3. taken[e[1]] < e[2]
      BY <1>5, <3>2
    <3>4. ASSUME NEW k \in 1..(j - 1), t[k][1] = e[1] PROVE t[k][2] < e[2]
      <4>1. k \in 1..n
        BY <1>3, <2>2
      <4>2. t[k] = w[k] /\ w[k] \in Item \cup {Overflow, BaselineRequired}
        BY <1>1, <1>2, <1>3, <4>1, ElementOfSeq
      <4>3. w[k][1] \in Sessions
        BY <3>2, <3>4, <4>2
      <4>4. w[k] \in Item
        <5>1. Overflow[1] \notin Sessions /\ BaselineRequired[1] \notin Sessions
          BY MobileEventsAssumption DEF Overflow, BaselineRequired
        <5> QED BY <4>2, <4>3, <5>1
      <4>5. w[k][2] <= last[e[1]] /\ w[k][2] \in Nat
        BY <1>6, <1>7, <3>4, <4>1, <4>2, <4>4
      <4>6. last[e[1]] \in Nat
        BY <1>5, <3>2
      <4> QED BY <3>2, <4>2, <4>5, <4>6
    <3>5. e[2] <= later[e[1]]
      BY <3>2
    <3>6. \A k \in 1..(j - 1) : t[k][1] = e[1] => t[k][2] < e[2]
      BY <3>4
    <3> QED BY <3>1, <3>3, <3>5, <3>6
  <2>3. j \in 1..n \/ j = n + 1
    BY <1>3
  <2> QED BY <2>1, <2>2, <2>3
<1>9. ASSUME NEW s \in Sessions PROVE taken[s] <= later[s]
  BY <1>5
<1> QED BY <1>3, <1>4, <1>8, <1>9 DEF QueueInOrder

LEMMA ControlIs ==
  ASSUME NEW st \in Streams, StreamInOrder(st), NEW t, t = Control(st, BaselineRequired)
  PROVE  /\ t \in Streams /\ SameReader(st, t) /\ StreamInOrder(t)
         /\ t.got = st.got /\ t.last = st.last /\ (t.done \/ t.told)
<1>1. CASE st.done
  <2>1. t = st
    BY <1>1 DEF Control
  <2> QED BY <1>1, <2>1 DEF SameReader
<1>2. CASE ~st.done /\ Len(st.queue) >= MaxSubscriberQueue
  <2>1. t = Failed(st)
    BY <1>2 DEF Control
  <2> QED BY <2>1, FailedIs
<1>3. CASE ~st.done /\ ~(Len(st.queue) >= MaxSubscriberQueue)
  <2>1. PICK w : w = Append(st.queue, BaselineRequired)
    OBVIOUS
  <2>2. t = [st EXCEPT !.queue = w, !.told = TRUE]
    BY <1>3, <2>1 DEF Control
  <2>3. st.queue \in Queues /\ st.last \in [Sessions -> 0..MaxSeq] /\ st.taken \in [Sessions -> 0..MaxSeq]
    BY StreamHas
  <2>4. Len(st.queue) \in Nat /\ MaxSubscriberQueue \in Nat
    BY <2>3, LenProperties, MobileEventsAssumption DEF Queues
  <2>5. Len(st.queue) < MaxSubscriberQueue
    BY <1>3, <2>4
  <2>6. \A s \in Sessions : st.last[s] >= st.last[s]
    BY <2>3
  <2>7. w \in Queues /\ QueueInOrder(w, st.last, st.taken)
    BY <2>1, <2>3, <2>5, <2>6, QueueLonger, ControlsAreNone DEF StreamInOrder
  <2>8. t = [on |-> st.on, done |-> st.done, scope |-> st.scope, since |-> st.since, queue |-> w,
             last |-> st.last, opened |-> st.opened, from |-> st.from, got |-> st.got,
             told |-> TRUE, taken |-> st.taken]
    BY <2>2 DEF Streams
  <2>9. t \in Streams
    BY <2>7, <2>8, StreamHas DEF Streams
  <2>10. /\ t.on = st.on /\ t.done = st.done /\ t.scope = st.scope /\ t.since = st.since /\ t.queue = w
         /\ t.last = st.last /\ t.opened = st.opened /\ t.from = st.from /\ t.got = st.got
         /\ t.told = TRUE /\ t.taken = st.taken
    BY <2>8
  <2> QED BY <2>7, <2>9, <2>10 DEF SameReader, StreamInOrder
<1> QED BY <1>1, <1>2, <1>3

LEMMA EnqueuedIs ==
  ASSUME NEW st \in Streams, StreamInOrder(st), NEW s \in Sessions, NEW q \in Seqs,
         NEW t, t = Enqueued(st, s, q)
  PROVE  /\ t \in Streams /\ SameReader(st, t) /\ StreamInOrder(t)
         /\ t.got \subseteq st.got \cup {<<s, q>>}
         /\ \A r \in Sessions : t.last[r] = st.last[r] \/ (r = s /\ t.last[r] = q)
         /\ ~t.done /\ q > st.last[s] /\ q > st.since => <<s, q>> \in t.got
         /\ t.told = st.told
<1>0. /\ st.queue \in Queues /\ st.last \in [Sessions -> 0..MaxSeq] /\ st.taken \in [Sessions -> 0..MaxSeq]
      /\ st.got \in SUBSET Item
  BY StreamHas
<1>1. CASE st.done \/ ~Later(st, s, q)
  <2>1. t = st
    BY <1>1 DEF Enqueued
  <2> QED BY <1>1, <2>1 DEF SameReader, Later
<1>2. CASE ~(st.done \/ ~Later(st, s, q)) /\ Len(st.queue) >= MaxSubscriberQueue
  <2>1. t = Failed(st)
    BY <1>2 DEF Enqueued
  <2> QED BY <2>1, FailedIs
<1>3. CASE ~(st.done \/ ~Later(st, s, q)) /\ ~(Len(st.queue) >= MaxSubscriberQueue)
  <2>1. PICK x : x = <<s, q>>
    OBVIOUS
  <2>2. x \in Item /\ x[1] = s /\ x[2] = q
    BY <2>1 DEF Item
  <2>3. PICK w : w = Append(st.queue, x)
    OBVIOUS
  <2>4. PICK l : l = [st.last EXCEPT ![s] = q]
    OBVIOUS
  <2>5. q \in 0..MaxSeq /\ q \in Nat
    BY DEF Seqs
  <2>6. l \in [Sessions -> 0..MaxSeq] /\ l[s] = q /\ \A r \in Sessions : r # s => l[r] = st.last[r]
    BY <1>0, <2>4, <2>5
  <2>7. q > st.last[s]
    BY <1>3 DEF Later
  <2>8. \A r \in Sessions : l[r] >= st.last[r]
    BY <1>0, <2>5, <2>6, <2>7
  <2>9. Len(st.queue) \in Nat /\ MaxSubscriberQueue \in Nat
    BY <1>0, LenProperties, MobileEventsAssumption DEF Queues
  <2>10. Len(st.queue) < MaxSubscriberQueue
    BY <1>3, <2>9
  <2>11. w \in Queues /\ QueueInOrder(w, l, st.taken)
    BY <1>0, <2>2, <2>3, <2>6, <2>7, <2>8, <2>10, QueueLonger DEF StreamInOrder
  <2>12. PICK g : g = st.got \cup {x}
    OBVIOUS
  <2>13. t = [st EXCEPT !.queue = w, !.last = l, !.got = g]
    <3>1. t = [st EXCEPT !.queue = Append(st.queue, <<s, q>>), !.last = [st.last EXCEPT ![s] = q],
                         !.got = st.got \cup {<<s, q>>}]
      BY <1>3 DEF Enqueued
    <3> QED BY <2>1, <2>3, <2>4, <2>12, <3>1
  <2>14. t = [on |-> st.on, done |-> st.done, scope |-> st.scope, since |-> st.since, queue |-> w,
              last |-> l, opened |-> st.opened, from |-> st.from, got |-> g,
              told |-> st.told, taken |-> st.taken]
    BY <2>13 DEF Streams
  <2>15. g \in SUBSET Item
    BY <1>0, <2>2, <2>12
  <2>16. t \in Streams
    BY <2>6, <2>11, <2>14, <2>15, StreamHas DEF Streams
  <2>17. /\ t.on = st.on /\ t.done = st.done /\ t.scope = st.scope /\ t.since = st.since /\ t.queue = w
         /\ t.last = l /\ t.opened = st.opened /\ t.from = st.from /\ t.got = g
         /\ t.told = st.told /\ t.taken = st.taken
    BY <2>14
  <2>18. SameReader(st, t) /\ StreamInOrder(t)
    BY <2>11, <2>12, <2>17 DEF SameReader, StreamInOrder
  <2> QED BY <2>1, <2>6, <2>12, <2>16, <2>17, <2>18
<1> QED BY <1>1, <1>2, <1>3

LEMMA SameReaderTwice ==
  ASSUME NEW a, NEW b, NEW c, SameReader(a, b), SameReader(b, c)
  PROVE  SameReader(a, c)
BY DEF SameReader

-----------------------------------------------------------------------------
(* The hub as a value.                                                     *)

LEMMA HubHas ==
  ASSUME NEW h \in EventHubs
  PROVE  /\ h.events \in [Sessions -> Caches] /\ h.watermark \in [Sessions -> Marks]
         /\ h.stream \in [Phones -> Streams] /\ h.skipped \in [Item -> Reasons]
         /\ h.pending \in Waiting /\ h.required \in BOOLEAN
BY DEF EventHubs

StreamsInOrder(h) == \A p \in Phones : StreamInOrder(h.stream[p])
MarksTrue(h) == \A s \in Sessions : h.watermark[s].source = "none" => h.watermark[s].last = 0

\* emit
LEMMA EmittedIs ==
  ASSUME NEW streams \in [Phones -> Streams], \A p \in Phones : StreamInOrder(streams[p]),
         NEW s \in Sessions, NEW q \in Seqs, NEW after, after = Emitted(streams, s, q)
  PROVE  /\ after \in [Phones -> Streams]
         /\ \A p \in Phones :
              /\ SameReader(streams[p], after[p]) /\ StreamInOrder(after[p])
              /\ after[p].got \subseteq streams[p].got \cup {<<s, q>>}
              /\ \A r \in Sessions : \/ after[p].last[r] = streams[p].last[r]
                                     \/ r = s /\ after[p].last[r] = q
              /\ /\ after[p].on /\ after[p].scope \in {s, AnySession} /\ ~after[p].done
                 /\ q > streams[p].last[s] /\ q > streams[p].since
                 => <<s, q>> \in after[p].got
              /\ after[p].told = streams[p].told
<1>1. after = [p \in Phones |-> IF streams[p].on /\ streams[p].scope \in {s, AnySession}
                                THEN Enqueued(streams[p], s, q) ELSE streams[p]]
  BY DEF Emitted
<1>2. ASSUME NEW p \in Phones
      PROVE  /\ after[p] \in Streams
             /\ SameReader(streams[p], after[p]) /\ StreamInOrder(after[p])
             /\ after[p].got \subseteq streams[p].got \cup {<<s, q>>}
             /\ \A r \in Sessions : \/ after[p].last[r] = streams[p].last[r]
                                    \/ r = s /\ after[p].last[r] = q
             /\ /\ after[p].on /\ after[p].scope \in {s, AnySession} /\ ~after[p].done
                /\ q > streams[p].last[s] /\ q > streams[p].since
                => <<s, q>> \in after[p].got
             /\ after[p].told = streams[p].told
  <2>1. PICK st \in Streams : st = streams[p]
    OBVIOUS
  <2>2. PICK t : t = after[p]
    OBVIOUS
  <2>3. StreamInOrder(st)
    BY <2>1
  <2>4. CASE st.on /\ st.scope \in {s, AnySession}
    <3>1. t = Enqueued(st, s, q)
      BY <1>1, <2>1, <2>2, <2>4
    <3>2. /\ t \in Streams /\ SameReader(st, t) /\ StreamInOrder(t)
          /\ t.got \subseteq st.got \cup {<<s, q>>}
          /\ \A r \in Sessions : t.last[r] = st.last[r] \/ (r = s /\ t.last[r] = q)
          /\ ~t.done /\ q > st.last[s] /\ q > st.since => <<s, q>> \in t.got
          /\ t.told = st.told
      BY <2>3, <3>1, EnqueuedIs
    <3> QED BY <2>1, <2>2, <3>2
  <2>5. CASE ~(st.on /\ st.scope \in {s, AnySession})
    <3>1. t = st
      BY <1>1, <2>1, <2>2, <2>5
    <3>2. SameReader(st, t)
      BY <3>1 DEF SameReader
    <3> QED BY <2>1, <2>2, <2>3, <2>5, <3>1, <3>2
  <2> QED BY <2>4, <2>5
<1> QED BY <1>1, <1>2

\* What a live event changes of the hub.
AppliedTo(h, g, archived, s, q) ==
  /\ g \in EventHubs /\ g.pending = h.pending /\ g.required = h.required
  /\ StreamsInOrder(g) /\ MarksTrue(g)
  /\ \A r \in Sessions : \A e : Contains(g.events[r], e) => Contains(h.events[r], e) \/ (r = s /\ e = q)
  /\ \A r \in Sessions : /\ g.watermark[r].last >= h.watermark[r].last
                         /\ g.watermark[r].last = h.watermark[r].last \/ (r = s /\ g.watermark[r].last = q)
  /\ s \notin archived /\ ~Contains(h.events[s], q) => g.watermark[s].last >= q
  /\ \A i \in Item : g.skipped[i] = IF s \in archived /\ i = <<s, q>> THEN "archived" ELSE h.skipped[i]
  /\ \A p \in Phones :
       /\ SameReader(h.stream[p], g.stream[p]) /\ g.stream[p].told = h.stream[p].told
       /\ g.stream[p].got \subseteq h.stream[p].got \cup IF s \in archived THEN {} ELSE {<<s, q>>}
       /\ \A r \in Sessions : \/ g.stream[p].last[r] = h.stream[p].last[r]
                              \/ r = s /\ s \notin archived /\ g.stream[p].last[r] = q
       /\ /\ s \notin archived /\ ~Contains(h.events[s], q)
          /\ g.stream[p].on /\ g.stream[p].scope \in {s, AnySession} /\ ~g.stream[p].done
          /\ q > h.stream[p].last[s] /\ q > h.stream[p].since
          => <<s, q>> \in g.stream[p].got

LEMMA AppliedIs ==
  ASSUME NEW h \in EventHubs, StreamsInOrder(h), MarksTrue(h), NEW archived,
         NEW s \in Sessions, NEW q \in Seqs, NEW g, g = Applied(h, archived, s, q)
  PROVE  AppliedTo(h, g, archived, s, q)
<1>0. /\ h.events \in [Sessions -> Caches] /\ h.watermark \in [Sessions -> Marks]
      /\ h.stream \in [Phones -> Streams] /\ h.skipped \in [Item -> Reasons]
      /\ h.pending \in Waiting /\ h.required \in BOOLEAN
  BY HubHas
<1>1. ASSUME NEW p \in Phones PROVE SameReader(h.stream[p], h.stream[p])
  BY DEF SameReader
<1>2. \A r \in Sessions : h.watermark[r].last \in Nat
  BY <1>0 DEF Marks
<1>3. <<s, q>> \in Item
  BY DEF Item
<1>4. CASE s \in archived
  <2>1. PICK k : k = [h.skipped EXCEPT ![<<s, q>>] = "archived"]
    OBVIOUS
  <2>2. g = [h EXCEPT !.skipped = k]
    BY <1>4, <2>1 DEF Applied
  <2>3. g = [events |-> h.events, watermark |-> h.watermark, stream |-> h.stream, skipped |-> k,
             pending |-> h.pending, required |-> h.required]
    BY <2>2 DEF EventHubs
  <2>4. k \in [Item -> Reasons] /\ \A i \in Item : k[i] = IF i = <<s, q>> THEN "archived" ELSE h.skipped[i]
    BY <1>0, <1>3, <2>1 DEF Reasons
  <2>5. g \in EventHubs
    BY <1>0, <2>3, <2>4 DEF EventHubs
  <2>6. /\ g.events = h.events /\ g.watermark = h.watermark /\ g.stream = h.stream /\ g.skipped = k
        /\ g.pending = h.pending /\ g.required = h.required
    BY <2>3
  <2>7. StreamsInOrder(g) /\ MarksTrue(g)
    BY <2>6 DEF StreamsInOrder, MarksTrue
  <2> QED BY <1>1, <1>2, <1>4, <2>4, <2>5, <2>6, <2>7 DEF AppliedTo
<1>5. CASE s \notin archived /\ Known(h, s, q)
  <2>1. g = h
    BY <1>5 DEF Applied
  <2>2. Contains(h.events[s], q)
    BY <1>5 DEF Known
  <2> QED BY <1>1, <1>2, <1>5, <2>1, <2>2 DEF AppliedTo
<1>6. CASE s \notin archived /\ ~Known(h, s, q)
  <2>1. PICK c : c = Remembered(h.events[s], q)
    OBVIOUS
  <2>2. PICK m : m = Marked(h.watermark[s], q, "mux")
    OBVIOUS
  <2>3. PICK after : after = Emitted(h.stream, s, q)
    OBVIOUS
  <2>4. h.events[s] \in Caches /\ h.watermark[s] \in Marks
        /\ (h.watermark[s].source = "none" => h.watermark[s].last = 0)
    BY <1>0 DEF MarksTrue
  <2>5. c \in Caches /\ \A r : Contains(c, r) => r = q \/ Contains(h.events[s], r)
    BY <2>1, <2>4, RememberedIs
  <2>6. /\ m \in Marks /\ m.source # "none" /\ m.last >= h.watermark[s].last /\ m.last >= q
        /\ m.last \in {h.watermark[s].last, q}
    BY <2>2, <2>4, MarkedIs
  <2>7. PICK ev : ev = [h.events EXCEPT ![s] = c]
    OBVIOUS
  <2>8. PICK wm : wm = [h.watermark EXCEPT ![s] = m]
    OBVIOUS
  <2>9. g = [h EXCEPT !.events = ev, !.stream = after, !.watermark = wm]
    <3>1. g = [h EXCEPT !.events = [h.events EXCEPT ![s] = Remembered(h.events[s], q)],
                        !.stream = Emitted(h.stream, s, q),
                        !.watermark = [h.watermark EXCEPT ![s] = Marked(h.watermark[s], q, "mux")]]
      BY <1>6 DEF Applied
    <3> QED BY <2>1, <2>2, <2>3, <2>7, <2>8, <3>1
  <2>10. g = [events |-> ev, watermark |-> wm, stream |-> after, skipped |-> h.skipped,
              pending |-> h.pending, required |-> h.required]
    BY <2>9 DEF EventHubs
  <2>11. /\ g.events = ev /\ g.watermark = wm /\ g.stream = after /\ g.skipped = h.skipped
         /\ g.pending = h.pending /\ g.required = h.required
    BY <2>10
  <2>12. ev \in [Sessions -> Caches] /\ ev[s] = c /\ \A r \in Sessions : r # s => ev[r] = h.events[r]
    BY <1>0, <2>5, <2>7
  <2>13. wm \in [Sessions -> Marks] /\ wm[s] = m /\ \A r \in Sessions : r # s => wm[r] = h.watermark[r]
    BY <1>0, <2>6, <2>8
  <2>14. /\ after \in [Phones -> Streams]
         /\ \A p \in Phones :
              /\ SameReader(h.stream[p], after[p]) /\ StreamInOrder(after[p])
              /\ after[p].got \subseteq h.stream[p].got \cup {<<s, q>>}
              /\ \A r \in Sessions : \/ after[p].last[r] = h.stream[p].last[r]
                                     \/ r = s /\ after[p].last[r] = q
              /\ /\ after[p].on /\ after[p].scope \in {s, AnySession} /\ ~after[p].done
                 /\ q > h.stream[p].last[s] /\ q > h.stream[p].since
                 => <<s, q>> \in after[p].got
              /\ after[p].told = h.stream[p].told
    BY <1>0, <2>3, EmittedIs DEF StreamsInOrder
  <2>15. g \in EventHubs
    BY <1>0, <2>10, <2>12, <2>13, <2>14 DEF EventHubs
  <2>16. StreamsInOrder(g)
    BY <2>11, <2>14 DEF StreamsInOrder
  <2>17. MarksTrue(g)
    BY <2>6, <2>11, <2>13 DEF MarksTrue
  <2>18. \A r \in Sessions : \A e : Contains(g.events[r], e) => Contains(h.events[r], e) \/ (r = s /\ e = q)
    BY <2>5, <2>11, <2>12
  <2>19. \A r \in Sessions :
            /\ g.watermark[r].last >= h.watermark[r].last
            /\ g.watermark[r].last = h.watermark[r].last \/ (r = s /\ g.watermark[r].last = q)
    <3> SUFFICES ASSUME NEW r \in Sessions
                 PROVE  /\ wm[r].last >= h.watermark[r].last
                        /\ wm[r].last = h.watermark[r].last \/ (r = s /\ wm[r].last = q)
      BY <2>11
    <3>1. CASE r = s
      BY <2>6, <2>13, <3>1
    <3>2. CASE r # s
      BY <1>2, <2>13, <3>2
    <3> QED BY <3>1, <3>2
  <2>20. g.watermark[s].last >= q
    BY <2>6, <2>11, <2>13
  <2>21. \A i \in Item : g.skipped[i] = IF s \in archived /\ i = <<s, q>> THEN "archived" ELSE h.skipped[i]
    BY <1>6, <2>11
  <2> QED BY <1>6, <2>11, <2>14, <2>15, <2>16, <2>17, <2>18, <2>19, <2>20, <2>21 DEF AppliedTo
<1> QED BY <1>4, <1>5, <1>6

-----------------------------------------------------------------------------
(* What holds of the hub, of logs that reach lg and are live from fl on.   *)

Logs == [Sessions -> 0..MaxSeq]
IsLive(i, lg, fl) == fl[i[1]] > 0 /\ fl[i[1]] <= i[2] /\ i[2] <= lg[i[1]]
Owing(st) == st.on /\ ~st.done
OwedBy(st, lg) ==
  {i \in Item : /\ st.scope \in {i[1], AnySession}
                /\ i[2] > st.from[i[1]] /\ i[2] <= lg[i[1]] /\ i[2] > st.since}

\* Nothing in the hub is ahead of the log, and only live events wait.
HubFits(h, lg, fl) ==
  /\ \A s \in Sessions : \A e \in Seqs : Contains(h.events[s], e) => e <= lg[s]
  /\ \A s \in Sessions : h.watermark[s].last <= lg[s]
  /\ \A i \in Item : Contains(h.pending, i) => IsLive(i, lg, fl)
  /\ \A p \in Phones : \A s \in Sessions : h.stream[p].from[s] <= lg[s] /\ h.stream[p].last[s] <= lg[s]

\* After an overflow of the buffer every open stream was told.
ToldWhy(h) ==
  /\ \A i \in Item : h.skipped[i] = "overflow" => h.required
  /\ h.required => \A p \in Phones : Owing(h.stream[p]) => h.stream[p].told

NothingLost(h, lg) ==
  \A p \in Phones : Owing(h.stream[p]) => \A i \in OwedBy(h.stream[p], lg) :
    i \in h.stream[p].got \/ Contains(h.pending, i) \/ h.skipped[i] # "no"

\* An event that waits behind a later one of its session waits before that one as well.
WaitsInOrder(w, skip) ==
  \A j, k \in 1..Len(w) : j < k /\ w[j][1] = w[k][1] /\ w[j][2] > w[k][2] =>
    skip[w[k]] # "no" \/ \E m \in 1..(j - 1) : w[m] = w[k]

\* While the archived sessions are not known, what is live waits, what a history read
\* brought first is marked, and no stream has been given anything live.
StillWaits(h, lg, fl) ==
  /\ \A i \in Item : IsLive(i, lg, fl) /\ h.skipped[i] = "no" => Contains(h.pending, i)
  /\ \A i \in Item : Contains(h.pending, i) /\ Contains(h.events[i[1]], i[2]) => h.skipped[i] # "no"
  /\ WaitsInOrder(h.pending, h.skipped)
  /\ \A p \in Phones : h.stream[p].on => \A s \in Sessions : h.stream[p].last[s] <= h.stream[p].from[s]

\* Afterwards nothing waits, and the watermark has reached what was live.
MarkKept(h, lg, fl) ==
  /\ h.pending = <<>>
  /\ \A i \in Item : IsLive(i, lg, fl) /\ h.skipped[i] = "no" => i[2] <= h.watermark[i[1]].last

HubIsSound(h, lg, fl, known) ==
  /\ h \in EventHubs /\ StreamsInOrder(h) /\ MarksTrue(h)
  /\ HubFits(h, lg, fl) /\ ToldWhy(h) /\ NothingLost(h, lg)
  /\ IF known THEN MarkKept(h, lg, fl) ELSE StillWaits(h, lg, fl)

\* The event x is told: one of the log, or the next of it.
Telling(x, lg, mg, fl, gl) ==
  /\ x \in Item /\ IsLive(x, mg, gl)
  /\ \A s \in Sessions : lg[s] <= mg[s]
  /\ \A i \in Item : IsLive(i, mg, gl) => IsLive(i, lg, fl) \/ i = x
  /\ \A i \in Item : IsLive(i, lg, fl) => IsLive(i, mg, gl)
  /\ \A i \in Item : i[2] <= mg[i[1]] => i[2] <= lg[i[1]] \/ i = x
  /\ IsLive(x, lg, fl) \/ x[2] > lg[x[1]]

LEMMA ItemHas ==
  ASSUME NEW i \in Item
  PROVE  i[1] \in Sessions /\ i[2] \in Seqs /\ i[2] \in Nat /\ i[2] > 0 /\ i = <<i[1], i[2]>>
BY DEF Item, Seqs

\* What a stream that stays is owed.
LEMMA OwedStays ==
  ASSUME NEW st, NEW t, SameReader(st, t), Owing(t), NEW lg, NEW mg,
         NEW i \in OwedBy(t, mg), i[2] <= lg[i[1]]
  PROVE  Owing(st) /\ i \in OwedBy(st, lg)
BY DEF SameReader, Owing, OwedBy

LEMMA AppliedKeeps ==
  ASSUME NEW h, NEW lg \in Logs, NEW mg \in Logs, NEW fl \in Logs, NEW gl \in Logs, NEW known,
         HubIsSound(h, lg, fl, known), NEW s \in Sessions, NEW q \in Seqs,
         Telling(<<s, q>>, lg, mg, fl, gl), NEW archived, known \/ s \in archived,
         NEW g, g = Applied(h, archived, s, q)
  PROVE  HubIsSound(g, mg, gl, known)
<1>1. /\ h \in EventHubs /\ StreamsInOrder(h) /\ MarksTrue(h) /\ HubFits(h, lg, fl) /\ ToldWhy(h)
      /\ NothingLost(h, lg) /\ IF known THEN MarkKept(h, lg, fl) ELSE StillWaits(h, lg, fl)
  BY DEF HubIsSound
<1>2. AppliedTo(h, g, archived, s, q)
  BY <1>1, AppliedIs
<1>3. PICK x : x = <<s, q>>
  OBVIOUS
<1>4. x \in Item /\ x[1] = s /\ x[2] = q /\ q \in Nat /\ Telling(x, lg, mg, fl, gl)
  BY <1>3 DEF Item, Seqs
<1>5. \A r \in Sessions : lg[r] \in Nat /\ mg[r] \in Nat /\ lg[r] <= mg[r]
  BY <1>4 DEF Logs, Telling
<1>6. q <= mg[s]
  BY <1>4 DEF Telling, IsLive
<1>7. \A i \in Item : g.skipped[i] = "no" => h.skipped[i] = "no" /\ ~(s \in archived /\ i = x)
  BY <1>2, <1>3 DEF AppliedTo
<1>8. \A p \in Phones : SameReader(h.stream[p], g.stream[p]) /\ g.stream[p].told = h.stream[p].told
  BY <1>2 DEF AppliedTo
<1>9. /\ h.stream \in [Phones -> Streams] /\ h.watermark \in [Sessions -> Marks]
      /\ g.watermark \in [Sessions -> Marks]
  BY <1>1, <1>2, HubHas DEF AppliedTo
<1>10. \A r \in Sessions : h.watermark[r].last \in Nat /\ g.watermark[r].last \in Nat
  BY <1>9 DEF Marks
<1>11. \A p \in Phones : \A r \in Sessions : h.stream[p].from[r] \in Nat /\ h.stream[p].last[r] \in Nat
  BY <1>9, StreamHas
<1>12. HubFits(g, mg, gl)
  <2>1. ASSUME NEW r \in Sessions, NEW e \in Seqs, Contains(g.events[r], e) PROVE e <= mg[r]
    <3>1. Contains(h.events[r], e) \/ (r = s /\ e = q)
      BY <1>2, <2>1 DEF AppliedTo
    <3>2. CASE Contains(h.events[r], e)
      <4>1. e <= lg[r] /\ e \in Nat
        BY <1>1, <3>2 DEF HubFits, Seqs
      <4> QED BY <1>5, <4>1
    <3> QED BY <1>6, <3>1, <3>2
  <2>2. ASSUME NEW r \in Sessions PROVE g.watermark[r].last <= mg[r]
    <3>1. g.watermark[r].last = h.watermark[r].last \/ (r = s /\ g.watermark[r].last = q)
      BY <1>2 DEF AppliedTo
    <3>2. h.watermark[r].last <= lg[r]
      BY <1>1 DEF HubFits
    <3> QED BY <1>5, <1>6, <1>10, <3>1, <3>2
  <2>3. ASSUME NEW i \in Item, Contains(g.pending, i) PROVE IsLive(i, mg, gl)
    <3>1. Contains(h.pending, i)
      BY <1>2, <2>3 DEF AppliedTo
    <3>2. IsLive(i, lg, fl)
      BY <1>1, <3>1 DEF HubFits
    <3> QED BY <1>4, <3>2 DEF Telling
  <2>4. ASSUME NEW p \in Phones, NEW r \in Sessions
        PROVE  g.stream[p].from[r] <= mg[r] /\ g.stream[p].last[r] <= mg[r]
    <3>1. h.stream[p].from[r] <= lg[r] /\ h.stream[p].last[r] <= lg[r]
      BY <1>1 DEF HubFits
    <3>2. g.stream[p].from = h.stream[p].from
      BY <1>8 DEF SameReader
    <3>3. g.stream[p].last[r] = h.stream[p].last[r] \/ (r = s /\ g.stream[p].last[r] = q)
      BY <1>2 DEF AppliedTo
    <3>4. h.stream[p].from[r] <= mg[r] /\ h.stream[p].last[r] <= mg[r]
      BY <1>5, <1>11, <3>1
    <3> QED BY <1>6, <3>2, <3>3, <3>4
  <2> QED BY <2>1, <2>2, <2>3, <2>4 DEF HubFits
<1>13. ToldWhy(g)
  <2>1. ASSUME NEW i \in Item, g.skipped[i] = "overflow" PROVE g.required
    <3>1. h.skipped[i] = "overflow"
      BY <1>2, <2>1 DEF AppliedTo
    <3> QED BY <1>1, <1>2, <3>1 DEF ToldWhy, AppliedTo
  <2>2. ASSUME g.required, NEW p \in Phones, Owing(g.stream[p]) PROVE g.stream[p].told
    <3>1. h.required /\ Owing(h.stream[p])
      BY <1>2, <1>8, <2>2 DEF AppliedTo, SameReader, Owing
    <3> QED BY <1>1, <1>8, <3>1 DEF ToldWhy
  <2> QED BY <2>1, <2>2 DEF ToldWhy
<1>14. NothingLost(g, mg)
  <2> SUFFICES ASSUME NEW p \in Phones, Owing(g.stream[p]), NEW i \in OwedBy(g.stream[p], mg)
               PROVE  i \in g.stream[p].got \/ Contains(g.pending, i) \/ g.skipped[i] # "no"
    BY DEF NothingLost
  <2>1. i \in Item /\ i[2] <= mg[i[1]]
    BY DEF OwedBy
  <2>2. CASE i[2] <= lg[i[1]]
    <3>1. Owing(h.stream[p]) /\ i \in OwedBy(h.stream[p], lg)
      BY <1>8, <2>2, OwedStays
    <3>2. i \in h.stream[p].got \/ Contains(h.pending, i) \/ h.skipped[i] # "no"
      BY <1>1, <3>1 DEF NothingLost
    <3>3. h.stream[p].got \subseteq g.stream[p].got /\ g.pending = h.pending
      BY <1>2, <1>8 DEF AppliedTo, SameReader
    <3> QED BY <1>7, <2>1, <3>2, <3>3
  <2>3. CASE ~(i[2] <= lg[i[1]])
    <3>1. i = x
      BY <1>4, <2>1, <2>3 DEF Telling
    <3>2. CASE s \in archived
      BY <1>7, <2>1, <3>1, <3>2
    <3>3. CASE s \notin archived
      <4>1. ~(q <= lg[s])
        BY <1>4, <2>3, <3>1
      <4>2. ~Contains(h.events[s], q)
        BY <1>1, <4>1 DEF HubFits
      <4>3. h.stream[p].last[s] <= lg[s] /\ h.stream[p].last[s] \in Nat /\ lg[s] \in Nat
        BY <1>1, <1>5, <1>11 DEF HubFits
      <4>4. q > h.stream[p].last[s]
        BY <1>4, <4>1, <4>3
      <4>5. /\ g.stream[p].scope \in {s, AnySession} /\ q > g.stream[p].since
            /\ g.stream[p].on /\ ~g.stream[p].done
        BY <1>4, <3>1 DEF OwedBy, Owing
      <4>6. q > h.stream[p].since
        BY <1>8, <4>5 DEF SameReader
      <4>7. <<s, q>> \in g.stream[p].got
        BY <1>2, <3>3, <4>2, <4>4, <4>5, <4>6 DEF AppliedTo
      <4> QED BY <1>3, <3>1, <4>7
    <3> QED BY <3>2, <3>3
  <2> QED BY <2>2, <2>3
<1>15. ASSUME known PROVE MarkKept(g, mg, gl)
  <2>1. MarkKept(h, lg, fl)
    BY <1>1, <1>15
  <2>2. g.pending = <<>>
    BY <1>2, <2>1 DEF MarkKept, AppliedTo
  <2>3. ASSUME NEW i \in Item, IsLive(i, mg, gl), g.skipped[i] = "no"
        PROVE  i[2] <= g.watermark[i[1]].last
    <3>1. h.skipped[i] = "no" /\ ~(s \in archived /\ i = x) /\ i[1] \in Sessions /\ i[2] \in Nat
      BY <1>7, <2>3, ItemHas
    <3>2. CASE IsLive(i, lg, fl)
      <4>1. i[2] <= h.watermark[i[1]].last
        BY <2>1, <3>1, <3>2 DEF MarkKept
      <4>2. h.watermark[i[1]].last <= g.watermark[i[1]].last
        BY <1>2, <1>10, <3>1 DEF AppliedTo
      <4> QED BY <1>10, <3>1, <4>1, <4>2
    <3>3. CASE ~IsLive(i, lg, fl)
      <4>1. i = x /\ ~(q <= lg[s])
        <5>1. i = x
          BY <1>4, <2>3, <3>3 DEF Telling
        <5>2. q > lg[s] /\ lg[s] \in Nat
          BY <1>4, <1>5, <3>3, <5>1 DEF Telling
        <5> QED BY <1>4, <5>1, <5>2
      <4>2. ~Contains(h.events[s], q) /\ s \notin archived
        BY <1>1, <3>1, <4>1 DEF HubFits
      <4>3. g.watermark[s].last >= q
        BY <1>2, <4>2 DEF AppliedTo
      <4> QED BY <1>4, <1>10, <4>1, <4>3
    <3> QED BY <3>2, <3>3
  <2> QED BY <2>2, <2>3 DEF MarkKept
<1>16. ASSUME ~known PROVE StillWaits(g, mg, gl)
  <2>1. StillWaits(h, lg, fl) /\ s \in archived
    BY <1>1, <1>16
  <2>2. g.pending = h.pending
    BY <1>2 DEF AppliedTo
  <2>3. g.skipped[x] = "archived"
    BY <1>2, <1>3, <1>4, <2>1 DEF AppliedTo
  <2>4. ASSUME NEW i \in Item, IsLive(i, mg, gl), g.skipped[i] = "no" PROVE Contains(g.pending, i)
    <3>1. h.skipped[i] = "no" /\ i # x
      BY <1>7, <2>1, <2>4
    <3>2. IsLive(i, lg, fl)
      BY <1>4, <2>4, <3>1 DEF Telling
    <3> QED BY <2>1, <2>2, <3>1, <3>2 DEF StillWaits
  <2>5. ASSUME NEW i \in Item, Contains(g.pending, i), Contains(g.events[i[1]], i[2])
        PROVE  g.skipped[i] # "no"
    <3>1. i[1] \in Sessions /\ i = <<i[1], i[2]>>
      BY ItemHas
    <3>2. Contains(h.events[i[1]], i[2]) \/ i = x
      BY <1>2, <1>3, <2>5, <3>1 DEF AppliedTo
    <3>3. CASE Contains(h.events[i[1]], i[2])
      BY <1>7, <2>1, <2>2, <2>5, <3>3 DEF StillWaits
    <3> QED BY <2>3, <3>2, <3>3
  <2>6. WaitsInOrder(g.pending, g.skipped)
    <3>1. h.pending \in Seq(Item)
      BY <1>1, HubHas DEF Waiting
    <3>2. \A k \in 1..Len(h.pending) : h.pending[k] \in Item
      BY <3>1, ElementOfSeq
    <3>3. WaitsInOrder(h.pending, h.skipped)
      BY <2>1 DEF StillWaits
    <3> QED BY <1>7, <2>2, <3>2, <3>3 DEF WaitsInOrder
  <2>7. ASSUME NEW p \in Phones, g.stream[p].on, NEW r \in Sessions
        PROVE  g.stream[p].last[r] <= g.stream[p].from[r]
    <3>1. h.stream[p].on /\ g.stream[p].from = h.stream[p].from
      BY <1>8, <2>7 DEF SameReader
    <3>2. g.stream[p].last[r] = h.stream[p].last[r]
      BY <1>2, <2>1 DEF AppliedTo
    <3> QED BY <2>1, <3>1, <3>2 DEF StillWaits
  <2> QED BY <2>4, <2>5, <2>6, <2>7 DEF StillWaits
<1>17. g \in EventHubs /\ StreamsInOrder(g) /\ MarksTrue(g)
  BY <1>2 DEF AppliedTo
<1>18. IF known THEN MarkKept(g, mg, gl) ELSE StillWaits(g, mg, gl)
  BY <1>15, <1>16
<1> QED BY <1>12, <1>13, <1>14, <1>17, <1>18 DEF HubIsSound

-----------------------------------------------------------------------------
(* An event that waits.                                                    *)

LEMMA ToldIs ==
  ASSUME NEW streams \in [Phones -> Streams], \A p \in Phones : StreamInOrder(streams[p]),
         NEW after, after = Told(streams)
  PROVE  /\ after \in [Phones -> Streams]
         /\ \A p \in Phones :
              /\ SameReader(streams[p], after[p]) /\ StreamInOrder(after[p])
              /\ after[p].got = streams[p].got /\ after[p].last = streams[p].last
              /\ Owing(after[p]) => after[p].told
<1>1. after = [p \in Phones |-> IF streams[p].on THEN Control(streams[p], BaselineRequired) ELSE streams[p]]
  BY DEF Told
<1>2. ASSUME NEW p \in Phones
      PROVE  /\ after[p] \in Streams
             /\ SameReader(streams[p], after[p]) /\ StreamInOrder(after[p])
             /\ after[p].got = streams[p].got /\ after[p].last = streams[p].last
             /\ Owing(after[p]) => after[p].told
  <2>1. PICK st \in Streams : st = streams[p]
    OBVIOUS
  <2>2. PICK t : t = after[p]
    OBVIOUS
  <2>3. StreamInOrder(st)
    BY <2>1
  <2>4. CASE st.on
    <3>1. t = Control(st, BaselineRequired)
      BY <1>1, <2>1, <2>2, <2>4
    <3>2. /\ t \in Streams /\ SameReader(st, t) /\ StreamInOrder(t)
          /\ t.got = st.got /\ t.last = st.last /\ (t.done \/ t.told)
      BY <2>3, <3>1, ControlIs
    <3> QED BY <2>1, <2>2, <3>2 DEF Owing
  <2>5. CASE ~st.on
    <3>1. t = st
      BY <1>1, <2>1, <2>2, <2>5
    <3>2. SameReader(st, t)
      BY <3>1 DEF SameReader
    <3> QED BY <2>1, <2>2, <2>3, <2>5, <3>1, <3>2 DEF Owing
  <2> QED BY <2>4, <2>5
<1> QED BY <1>1, <1>2

QueuedTo(h, g, x) ==
  /\ g \in EventHubs /\ StreamsInOrder(g) /\ g.events = h.events /\ g.watermark = h.watermark
  /\ Contains(g.pending, x)
  /\ \A i \in Item : Contains(g.pending, i) => i = x \/ Contains(h.pending, i)
  /\ \A i \in Item : Contains(h.pending, i) => Contains(g.pending, i) \/ g.skipped[i] # "no"
  /\ \A i \in Item : /\ g.skipped[i] = "no" => h.skipped[i] = "no"
                     /\ g.skipped[i] = "overflow" => h.skipped[i] = "overflow" \/ g.required
  /\ h.required => g.required
  /\ \A p \in Phones :
       /\ SameReader(h.stream[p], g.stream[p])
       /\ g.stream[p].got = h.stream[p].got /\ g.stream[p].last = h.stream[p].last
       /\ g.required /\ ~h.required => (Owing(g.stream[p]) => g.stream[p].told)
  /\ WaitsInOrder(Append(h.pending, x), h.skipped) => WaitsInOrder(g.pending, g.skipped)

\* The first of the buffer gives way: it is marked, so that the order of the rest stays.
LEMMA OrderSlides ==
  ASSUME NEW w \in Seq(Item), w # <<>>, NEW x \in Item, NEW skip, NEW mark,
         WaitsInOrder(Append(w, x), skip),
         \A i \in Item : mark[i] = "no" => skip[i] = "no" /\ i # Head(w)
  PROVE  WaitsInOrder(Tail(Append(w, x)), mark)
<1>1. PICK long : long = Append(w, x)
  OBVIOUS
<1>2. PICK t : t = Tail(Append(w, x))
  OBVIOUS
<1>3. PICK n : n = Len(w)
  OBVIOUS
<1>4. /\ n \in Nat /\ long \in Seq(Item) /\ Len(long) = n + 1 /\ \A i \in 1..n : long[i] = w[i]
  BY <1>1, <1>3, LongerIs
<1>5. t \in Seq(Item) /\ Len(t) = n /\ \A i \in 1..n : t[i] = long[i + 1]
  BY <1>1, <1>2, <1>3, SlidIs
<1>6. n # 0 /\ Head(w) = w[1] /\ 1 \in 1..n
  BY <1>3, <1>4, EmptySeq
<1>7. long[1] = Head(w)
  BY <1>4, <1>6
<1>a. \A j, k \in 1..(n + 1) : j < k /\ long[j][1] = long[k][1] /\ long[j][2] > long[k][2] =>
        skip[long[k]] # "no" \/ \E m \in 1..(j - 1) : long[m] = long[k]
  BY <1>1, <1>4 DEF WaitsInOrder
<1>8. ASSUME NEW j \in 1..n, NEW k \in 1..n, j < k, t[j][1] = t[k][1], t[j][2] > t[k][2], mark[t[k]] = "no"
      PROVE  \E m \in 1..(j - 1) : t[m] = t[k]
  <2>1. j + 1 \in 1..(n + 1) /\ k + 1 \in 1..(n + 1) /\ j + 1 < k + 1
    BY <1>4, <1>8
  <2>2. t[j] = long[j + 1] /\ t[k] = long[k + 1]
    BY <1>5
  <2>3. t[k] \in Item
    BY <1>5, ElementOfSeq
  <2>4. skip[t[k]] = "no" /\ t[k] # Head(w)
    BY <1>8, <2>3
  <2>5. PICK m \in 1..((j + 1) - 1) : long[m] = long[k + 1]
    BY <1>a, <1>8, <2>1, <2>2, <2>4
  <2>6. m # 1
    BY <1>7, <2>2, <2>4, <2>5
  <2>7. m - 1 \in 1..(j - 1) /\ m - 1 \in 1..n /\ (m - 1) + 1 = m
    BY <1>4, <2>5, <2>6
  <2>8. t[m - 1] = long[m]
    BY <1>5, <2>7
  <2> QED BY <2>2, <2>5, <2>7, <2>8
<1>9. \A j, k \in 1..n : j < k /\ t[j][1] = t[k][1] /\ t[j][2] > t[k][2] =>
        mark[t[k]] # "no" \/ \E m \in 1..(j - 1) : t[m] = t[k]
  BY <1>8
<1>10. Len(t) = n
  BY <1>5
<1>11. WaitsInOrder(t, mark)
  BY <1>9, <1>10 DEF WaitsInOrder
<1> QED BY <1>2, <1>11

LEMMA QueuedIs ==
  ASSUME NEW h \in EventHubs, StreamsInOrder(h), NEW s \in Sessions, NEW q \in Seqs,
         NEW g, g = Queued(h, s, q)
  PROVE  QueuedTo(h, g, <<s, q>>)
<1>0. /\ h.events \in [Sessions -> Caches] /\ h.watermark \in [Sessions -> Marks]
      /\ h.stream \in [Phones -> Streams] /\ h.skipped \in [Item -> Reasons]
      /\ h.pending \in Waiting /\ h.required \in BOOLEAN
  BY HubHas
<1>1. PICK x : x = <<s, q>>
  OBVIOUS
<1>2. x \in Item
  BY <1>1 DEF Item
<1>3. PICK w : w = h.pending
  OBVIOUS
<1>4. w \in Seq(Item) /\ Len(w) \in Nat /\ Len(w) <= MaxPendingGlobalEvents /\ MaxPendingGlobalEvents \in Nat
      /\ MaxPendingGlobalEvents # 0
  BY <1>0, <1>3, LenProperties, MobileEventsAssumption DEF Waiting
<1>5. \A p \in Phones : SameReader(h.stream[p], h.stream[p])
  BY DEF SameReader
<1>6. CASE Len(w) < MaxPendingGlobalEvents
  <2>1. PICK t : t = Append(w, x)
    OBVIOUS
  <2>2. g = [h EXCEPT !.pending = t]
    BY <1>1, <1>3, <1>6, <2>1 DEF Queued
  <2>3. g = [events |-> h.events, watermark |-> h.watermark, stream |-> h.stream, skipped |-> h.skipped,
             pending |-> t, required |-> h.required]
    BY <2>2 DEF EventHubs
  <2>4. t \in Seq(Item) /\ Len(t) = Len(w) + 1
    BY <1>2, <1>4, <2>1, LongerIs
  <2>5. t \in Waiting
    BY <1>4, <1>6, <2>4 DEF Waiting
  <2>6. g \in EventHubs
    BY <1>0, <2>3, <2>5 DEF EventHubs
  <2>7. /\ g.events = h.events /\ g.watermark = h.watermark /\ g.stream = h.stream /\ g.skipped = h.skipped
        /\ g.pending = t /\ g.required = h.required
    BY <2>3
  <2>8. \A e : Contains(t, e) <=> e = x \/ Contains(w, e)
    BY <1>2, <1>4, <2>1, LongerContains
  <2>9. StreamsInOrder(g)
    BY <2>7 DEF StreamsInOrder
  <2> QED BY <1>1, <1>3, <1>5, <2>1, <2>6, <2>7, <2>8, <2>9 DEF QueuedTo
<1>7. CASE ~(Len(w) < MaxPendingGlobalEvents)
  <2>1. PICK t : t = Tail(Append(w, x))
    OBVIOUS
  <2>2. PICK after : after = IF h.required THEN h.stream ELSE Told(h.stream)
    OBVIOUS
  <2>3. Len(w) # 0 /\ w # <<>>
    <3>1. Len(w) # 0
      BY <1>4, <1>7
    <3> QED BY <3>1
  <2>4. Head(w) \in Item
    <3>1. 1 \in 1..Len(w) /\ Head(w) = w[1]
      BY <1>4, <2>3
    <3> QED BY <1>4, <3>1, ElementOfSeq
  <2>5. PICK k : k = [h.skipped EXCEPT ![Head(w)] = IF h.skipped[Head(w)] = "no" THEN "overflow"
                                                      ELSE h.skipped[Head(w)]]
    OBVIOUS
  <2>6. g = [h EXCEPT !.pending = t, !.required = TRUE, !.stream = after, !.skipped = k]
    <3>1. g = [h EXCEPT !.pending = Tail(Append(w, <<s, q>>)), !.required = TRUE,
                        !.stream = IF h.required THEN h.stream ELSE Told(h.stream),
                        !.skipped = [h.skipped EXCEPT ![Head(w)] = IF h.skipped[Head(w)] = "no" THEN "overflow"
                                                                    ELSE h.skipped[Head(w)]]]
      BY <1>3, <1>7 DEF Queued
    <3> QED BY <1>1, <2>1, <2>2, <2>5, <3>1
  <2>7. g = [events |-> h.events, watermark |-> h.watermark, stream |-> after, skipped |-> k,
             pending |-> t, required |-> TRUE]
    BY <2>6 DEF EventHubs
  <2>8. t \in Seq(Item) /\ Len(t) = Len(w)
    BY <1>2, <1>4, <2>1, SlidIs
  <2>9. t \in Waiting
    BY <1>4, <2>8 DEF Waiting
  <2>10. /\ k \in [Item -> Reasons] /\ k[Head(w)] # "no"
         /\ \A i \in Item : i # Head(w) => k[i] = h.skipped[i]
         /\ h.skipped[Head(w)] # "no" => k[Head(w)] = h.skipped[Head(w)]
    BY <1>0, <2>4, <2>5 DEF Reasons
  <2>11. /\ after \in [Phones -> Streams]
         /\ \A p \in Phones :
              /\ SameReader(h.stream[p], after[p]) /\ StreamInOrder(after[p])
              /\ after[p].got = h.stream[p].got /\ after[p].last = h.stream[p].last
              /\ ~h.required => (Owing(after[p]) => after[p].told)
    <3>1. CASE h.required
      BY <1>0, <1>5, <2>2, <3>1 DEF StreamsInOrder
    <3>2. CASE ~h.required
      <4>1. after = Told(h.stream)
        BY <2>2, <3>2
      <4> QED BY <1>0, <4>1, ToldIs DEF StreamsInOrder
    <3> QED BY <3>1, <3>2
  <2>12. g \in EventHubs
    BY <1>0, <2>7, <2>9, <2>10, <2>11 DEF EventHubs
  <2>13. /\ g.events = h.events /\ g.watermark = h.watermark /\ g.stream = after /\ g.skipped = k
         /\ g.pending = t /\ g.required = TRUE
    BY <2>7
  <2>14. /\ \A e : Contains(t, e) => e = x \/ Contains(w, e)
         /\ \A e : e = x \/ Contains(w, e) => Contains(t, e) \/ e = Head(w)
         /\ Contains(t, x)
    BY <1>2, <1>4, <2>1, <2>3, SlidContains
  <2>15. StreamsInOrder(g)
    BY <2>11, <2>13 DEF StreamsInOrder
  <2>16. \A i \in Item : k[i] = "no" => h.skipped[i] = "no" /\ i # Head(w)
    BY <2>10
  <2>17. WaitsInOrder(Append(w, x), h.skipped) => WaitsInOrder(t, k)
    BY <1>2, <1>4, <2>1, <2>3, <2>16, OrderSlides
  <2>18. \A i \in Item : Contains(w, i) => Contains(t, i) \/ k[i] # "no"
    BY <2>10, <2>14
  <2> QED BY <1>1, <1>3, <2>11, <2>12, <2>13, <2>14, <2>15, <2>16, <2>17, <2>18 DEF QueuedTo
<1> QED BY <1>6, <1>7

LEMMA QueuedKeeps ==
  ASSUME NEW h, NEW lg \in Logs, NEW mg \in Logs, NEW fl \in Logs, NEW gl \in Logs,
         HubIsSound(h, lg, fl, FALSE), NEW s \in Sessions, NEW q \in Seqs,
         Telling(<<s, q>>, lg, mg, fl, gl), NEW g, g = Queued(h, s, q)
  PROVE  HubIsSound(g, mg, gl, FALSE)
<1>1. /\ h \in EventHubs /\ StreamsInOrder(h) /\ MarksTrue(h) /\ HubFits(h, lg, fl) /\ ToldWhy(h)
      /\ NothingLost(h, lg) /\ StillWaits(h, lg, fl)
  BY DEF HubIsSound
<1>2. PICK x : x = <<s, q>>
  OBVIOUS
<1>3. x \in Item /\ x[1] = s /\ x[2] = q /\ q \in Nat /\ Telling(x, lg, mg, fl, gl)
  BY <1>2 DEF Item, Seqs
<1>4. QueuedTo(h, g, x)
  BY <1>1, <1>2, QueuedIs
<1>5. \A r \in Sessions : lg[r] \in Nat /\ mg[r] \in Nat /\ lg[r] <= mg[r]
  BY <1>3 DEF Logs, Telling
<1>6. h.stream \in [Phones -> Streams] /\ h.watermark \in [Sessions -> Marks] /\ h.pending \in Seq(Item)
  BY <1>1, HubHas DEF Waiting
<1>7. \A r \in Sessions : h.watermark[r].last \in Nat
  BY <1>6 DEF Marks
<1>8. \A p \in Phones : \A r \in Sessions : h.stream[p].from[r] \in Nat /\ h.stream[p].last[r] \in Nat
  BY <1>6, StreamHas
<1>9. \A p \in Phones : SameReader(h.stream[p], g.stream[p]) /\ g.stream[p].last = h.stream[p].last
                        /\ g.stream[p].got = h.stream[p].got
  BY <1>4 DEF QueuedTo
<1>10. HubFits(g, mg, gl)
  <2>1. ASSUME NEW r \in Sessions, NEW e \in Seqs, Contains(g.events[r], e) PROVE e <= mg[r]
    <3>1. e <= lg[r] /\ e \in Nat
      BY <1>1, <1>4, <2>1 DEF HubFits, QueuedTo, Seqs
    <3> QED BY <1>5, <3>1
  <2>2. ASSUME NEW r \in Sessions PROVE g.watermark[r].last <= mg[r]
    <3>1. g.watermark[r].last = h.watermark[r].last /\ h.watermark[r].last <= lg[r]
      BY <1>1, <1>4 DEF HubFits, QueuedTo
    <3> QED BY <1>5, <1>7, <3>1
  <2>3. ASSUME NEW i \in Item, Contains(g.pending, i) PROVE IsLive(i, mg, gl)
    <3>1. i = x \/ Contains(h.pending, i)
      BY <1>4, <2>3 DEF QueuedTo
    <3>2. i = x \/ IsLive(i, lg, fl)
      BY <1>1, <3>1 DEF HubFits
    <3> QED BY <1>3, <3>2 DEF Telling
  <2>4. ASSUME NEW p \in Phones, NEW r \in Sessions
        PROVE  g.stream[p].from[r] <= mg[r] /\ g.stream[p].last[r] <= mg[r]
    <3>1. h.stream[p].from[r] <= lg[r] /\ h.stream[p].last[r] <= lg[r]
      BY <1>1 DEF HubFits
    <3>2. g.stream[p].from = h.stream[p].from /\ g.stream[p].last = h.stream[p].last
      BY <1>9 DEF SameReader
    <3>3. h.stream[p].from[r] <= mg[r] /\ h.stream[p].last[r] <= mg[r]
      BY <1>5, <1>8, <3>1
    <3> QED BY <3>2, <3>3
  <2> QED BY <2>1, <2>2, <2>3, <2>4 DEF HubFits
<1>11. ToldWhy(g)
  <2>1. ASSUME NEW i \in Item, g.skipped[i] = "overflow" PROVE g.required
    <3>1. h.skipped[i] = "overflow" \/ g.required
      BY <1>4, <2>1 DEF QueuedTo
    <3>2. h.required => g.required
      BY <1>4 DEF QueuedTo
    <3> QED BY <1>1, <3>1, <3>2 DEF ToldWhy
  <2>2. ASSUME g.required, NEW p \in Phones, Owing(g.stream[p]) PROVE g.stream[p].told
    <3>1. CASE h.required
      <4>1. Owing(h.stream[p])
        BY <1>9, <2>2 DEF SameReader, Owing
      <4>2. h.stream[p].told
        BY <1>1, <3>1, <4>1 DEF ToldWhy
      <4> QED BY <1>9, <4>2 DEF SameReader
    <3>2. CASE ~h.required
      BY <1>4, <2>2, <3>2 DEF QueuedTo
    <3> QED BY <3>1, <3>2
  <2> QED BY <2>1, <2>2 DEF ToldWhy
<1>12. NothingLost(g, mg)
  <2> SUFFICES ASSUME NEW p \in Phones, Owing(g.stream[p]), NEW i \in OwedBy(g.stream[p], mg)
               PROVE  i \in g.stream[p].got \/ Contains(g.pending, i) \/ g.skipped[i] # "no"
    BY DEF NothingLost
  <2>1. i \in Item /\ i[2] <= mg[i[1]]
    BY DEF OwedBy
  <2>2. CASE i[2] <= lg[i[1]]
    <3>1. Owing(h.stream[p]) /\ i \in OwedBy(h.stream[p], lg)
      BY <1>9, <2>2, OwedStays
    <3>2. i \in h.stream[p].got \/ Contains(h.pending, i) \/ h.skipped[i] # "no"
      BY <1>1, <3>1 DEF NothingLost
    <3>3. /\ Contains(h.pending, i) => Contains(g.pending, i) \/ g.skipped[i] # "no"
          /\ g.skipped[i] = "no" => h.skipped[i] = "no"
      BY <1>4, <2>1 DEF QueuedTo
    <3> QED BY <1>9, <3>2, <3>3
  <2>3. CASE ~(i[2] <= lg[i[1]])
    <3>1. i = x
      BY <1>3, <2>1, <2>3 DEF Telling
    <3> QED BY <1>4, <3>1 DEF QueuedTo
  <2> QED BY <2>2, <2>3
<1>13. \A i \in Item : g.skipped[i] = "no" => h.skipped[i] = "no"
  BY <1>4 DEF QueuedTo
<1>14. ASSUME NEW i \in Item, IsLive(i, mg, gl), g.skipped[i] = "no" PROVE Contains(g.pending, i)
  <2>1. i = x \/ IsLive(i, lg, fl)
    BY <1>3, <1>14 DEF Telling
  <2>2. CASE i = x
    BY <1>4, <2>2 DEF QueuedTo
  <2>3. CASE IsLive(i, lg, fl)
    <3>1. Contains(h.pending, i)
      BY <1>1, <1>13, <1>14, <2>3 DEF StillWaits
    <3> QED BY <1>4, <1>14, <3>1 DEF QueuedTo
  <2> QED BY <2>1, <2>2, <2>3
<1>15. h.skipped[x] # "no" \/ Contains(h.pending, x) \/ ~(q <= lg[s])
  <2>1. CASE IsLive(x, lg, fl)
    BY <1>1, <1>3, <2>1 DEF StillWaits
  <2>2. CASE q > lg[s]
    BY <1>3, <1>5, <2>2
  <2> QED BY <1>3, <2>1, <2>2 DEF Telling
<1>16. ASSUME NEW i \in Item, Contains(g.pending, i), Contains(g.events[i[1]], i[2]) PROVE g.skipped[i] # "no"
  <2>1. Contains(h.events[i[1]], i[2])
    BY <1>4, <1>16 DEF QueuedTo
  <2>2. i = x \/ Contains(h.pending, i)
    BY <1>4, <1>16 DEF QueuedTo
  <2>3. CASE Contains(h.pending, i)
    BY <1>1, <1>13, <2>1, <2>3 DEF StillWaits
  <2>4. CASE i = x /\ ~Contains(h.pending, x)
    <3>1. q <= lg[s]
      BY <1>1, <1>3, <2>1, <2>4 DEF HubFits
    <3>2. h.skipped[x] # "no"
      BY <1>15, <2>4, <3>1
    <3> QED BY <1>3, <1>13, <2>4, <3>2
  <2> QED BY <2>2, <2>3, <2>4
<1>17. WaitsInOrder(g.pending, g.skipped)
  <2>1. PICK w : w = h.pending
    OBVIOUS
  <2>2. PICK n : n = Len(w)
    OBVIOUS
  <2>3. PICK long : long = Append(w, x)
    OBVIOUS
  <2>4. /\ w \in Seq(Item) /\ n \in Nat /\ Len(long) = n + 1 /\ long[n + 1] = x
        /\ \A i \in 1..n : long[i] = w[i]
    BY <1>3, <1>6, <2>1, <2>2, <2>3, LongerIs
  <2>5. \A j, k \in 1..n : j < k /\ w[j][1] = w[k][1] /\ w[j][2] > w[k][2] =>
          h.skipped[w[k]] # "no" \/ \E m \in 1..(j - 1) : w[m] = w[k]
    BY <1>1, <2>1, <2>2 DEF StillWaits, WaitsInOrder
  <2>6. ASSUME NEW j \in 1..(n + 1), NEW k \in 1..(n + 1), j < k, long[j][1] = long[k][1],
               long[j][2] > long[k][2], h.skipped[long[k]] = "no"
        PROVE  \E m \in 1..(j - 1) : long[m] = long[k]
    <3>1. j \in 1..n /\ long[j] = w[j] /\ w[j] \in Item
      <4>1. j \in 1..n
        BY <2>4, <2>6
      <4> QED BY <2>2, <2>4, <4>1, ElementOfSeq
    <3>2. \A m \in 1..(j - 1) : m \in 1..n /\ long[m] = w[m]
      BY <2>4, <3>1
    <3>3. CASE k \in 1..n
      <4>1. long[k] = w[k]
        BY <2>4, <3>3
      <4>2. PICK m \in 1..(j - 1) : w[m] = w[k]
        BY <2>5, <2>6, <3>1, <3>3, <4>1
      <4> QED BY <3>2, <4>1, <4>2
    <3>4. CASE k = n + 1
      <4>1. long[k] = x /\ h.skipped[x] = "no" /\ w[j][1] = s /\ w[j][2] > q
        BY <1>3, <2>4, <2>6, <3>1, <3>4
      <4>2. Contains(w, w[j])
        BY <2>2, <3>1 DEF Contains
      <4>3. IsLive(w[j], lg, fl)
        BY <1>1, <2>1, <3>1, <4>2 DEF HubFits
      <4>4. w[j][2] <= lg[s] /\ w[j][2] \in Nat /\ lg[s] \in Nat
        BY <1>5, <3>1, <4>1, <4>3, ItemHas DEF IsLive
      <4>5. q <= lg[s]
        BY <1>3, <4>1, <4>4
      <4>6. Contains(w, x)
        BY <1>15, <2>1, <4>1, <4>5
      <4>7. PICK i \in 1..n : w[i] = x
        BY <2>2, <4>6 DEF Contains
      <4>8. i # j
        BY <1>3, <4>1, <4>4, <4>7
      <4>9. CASE i < j
        <5>1. i \in 1..(j - 1)
          BY <2>4, <3>1, <4>9
        <5> QED BY <3>2, <4>1, <4>7, <5>1
      <4>10. CASE j < i
        <5>1. PICK m \in 1..(j - 1) : w[m] = w[i]
          BY <1>3, <2>5, <3>1, <4>1, <4>7, <4>10
        <5> QED BY <3>2, <4>1, <4>7, <5>1
      <4> QED BY <2>4, <3>1, <4>8, <4>9, <4>10
    <3>5. k \in 1..n \/ k = n + 1
      BY <2>4
    <3> QED BY <3>3, <3>4, <3>5
  <2>7. WaitsInOrder(long, h.skipped)
    BY <2>4, <2>6 DEF WaitsInOrder
  <2> QED BY <1>4, <2>1, <2>3, <2>7 DEF QueuedTo
<1>18. ASSUME NEW p \in Phones, g.stream[p].on, NEW r \in Sessions
      PROVE  g.stream[p].last[r] <= g.stream[p].from[r]
  <2>1. h.stream[p].on /\ g.stream[p].from = h.stream[p].from /\ g.stream[p].last = h.stream[p].last
    BY <1>9, <1>18 DEF SameReader
  <2> QED BY <1>1, <2>1 DEF StillWaits
<1>19. StillWaits(g, mg, gl)
  BY <1>14, <1>16, <1>17, <1>18 DEF StillWaits
<1>20. g \in EventHubs /\ StreamsInOrder(g) /\ MarksTrue(g)
  BY <1>1, <1>4 DEF QueuedTo, MarksTrue
<1> QED BY <1>10, <1>11, <1>12, <1>19, <1>20 DEF HubIsSound

\* ingestGlobalSessionEvent, as the archived sessions and what is known of them are.
LEMMA IngestedKeeps ==
  ASSUME NEW h, NEW lg \in Logs, NEW mg \in Logs, NEW fl \in Logs, NEW gl \in Logs,
         workspaceBaselineKnown \in BOOLEAN,
         HubIsSound(h, lg, fl, workspaceBaselineKnown), NEW s \in Sessions, NEW q \in Seqs,
         Telling(<<s, q>>, lg, mg, fl, gl), NEW g, g = Ingested(h, s, q)
  PROVE  HubIsSound(g, mg, gl, workspaceBaselineKnown)
<1>1. CASE workspaceBaselineKnown \/ s \in archivedSessions
  <2>1. g = Applied(h, archivedSessions, s, q)
    BY <1>1 DEF Ingested
  <2> QED BY <1>1, <2>1, AppliedKeeps
<1>2. CASE ~(workspaceBaselineKnown \/ s \in archivedSessions)
  <2>1. g = Queued(h, s, q)
    BY <1>2 DEF Ingested
  <2>2. workspaceBaselineKnown = FALSE
    BY <1>2
  <2>3. HubIsSound(h, lg, fl, FALSE)
    BY <2>2
  <2>4. HubIsSound(g, mg, gl, FALSE)
    BY <2>1, <2>3, QueuedKeeps
  <2> QED BY <2>2, <2>4
<1> QED BY <1>1, <1>2

-----------------------------------------------------------------------------
(* The flush: what waits is told in turn, once the archived sessions are known. *)

OrderedHubs == {h \in EventHubs : StreamsInOrder(h) /\ MarksTrue(h)}

LEMMA AppliedOrdered ==
  ASSUME NEW h \in OrderedHubs, NEW archived, NEW i \in Item
  PROVE  Applied(h, archived, i[1], i[2]) \in OrderedHubs
<1>1. h \in EventHubs /\ StreamsInOrder(h) /\ MarksTrue(h) /\ i[1] \in Sessions /\ i[2] \in Seqs
  BY ItemHas DEF OrderedHubs
<1>2. AppliedTo(h, Applied(h, archived, i[1], i[2]), archived, i[1], i[2])
  BY <1>1, AppliedIs
<1> QED BY <1>2 DEF AppliedTo, OrderedHubs

AppliedInTurn(f, h, archived, w) ==
  f[0] = h /\ \A m \in 1..Len(w) : f[m] = Applied(f[m - 1], archived, w[m][1], w[m][2])

LEMMA AppliedAll ==
  ASSUME NEW all, NEW archived, NEW w \in Seq(Item), w = all.pending,
         NEW h \in OrderedHubs, h = [all EXCEPT !.pending = <<>>]
  PROVE  \E f : /\ AppliedInTurn(f, h, archived, w) /\ \A m \in 0..Len(w) : f[m] \in OrderedHubs
                /\ Flushed(all, archived) = f[Len(w)]
<1> DEFINE n == Len(w)
           step == [x \in OrderedHubs \X (1..n) |-> Applied(x[1], archived, w[x[2]][1], w[x[2]][2])]
           iter == CHOOSE g : g = [T \in SUBSET (DOMAIN w) |->
                      IF T = {} THEN h
                      ELSE Applied(g[T \ {Max(T)}], archived, w[Max(T)][1], w[Max(T)][2])]
<1>1. Flushed(all, archived) = iter[DOMAIN w]
  BY DEF Flushed, FoldLeft, MapThenFoldSet
<1>2. n \in Nat /\ DOMAIN w = 1..n
  BY LenProperties
<1>3. step \in [OrderedHubs \X (1..n) -> OrderedHubs]
  <2> SUFFICES ASSUME NEW x \in OrderedHubs \X (1..n)
               PROVE  Applied(x[1], archived, w[x[2]][1], w[x[2]][2]) \in OrderedHubs
    OBVIOUS
  <2>1. x[1] \in OrderedHubs /\ w[x[2]] \in Item
    BY ElementOfSeq
  <2> QED BY <2>1, AppliedOrdered
<1>4. \A z \in OrderedHubs, m \in 1..n : step[<<z, m>>] = Applied(z, archived, w[m][1], w[m][2])
  OBVIOUS
<1> HIDE DEF step
<1>5. PICK g \in [SUBSET (1..n) -> OrderedHubs] : Folded(g, h, step, n)
  BY <1>2, <1>3, FoldExists DEF HasFold
<1>6. \A T \in SUBSET (1..n) : T # {} => Max(T) \in 1..n
  BY <1>2, LastIn
<1>7. g = [T \in SUBSET (1..n) |->
             IF T = {} THEN h ELSE Applied(g[T \ {Max(T)}], archived, w[Max(T)][1], w[Max(T)][2])]
  <2> DEFINE e == [T \in SUBSET (1..n) |->
                     IF T = {} THEN h
                     ELSE Applied(g[T \ {Max(T)}], archived, w[Max(T)][1], w[Max(T)][2])]
  <2>1. ASSUME NEW T \in SUBSET (1..n) PROVE g[T] = e[T]
    <3>1. CASE T = {}
      BY <1>5, <3>1 DEF Folded
    <3>2. CASE T # {}
      <4>1. g[T] = step[<<g[T \ {Max(T)}], Max(T)>>]
        BY <1>5, <3>2 DEF Folded
      <4>2. T \ {Max(T)} \in SUBSET (1..n)
        OBVIOUS
      <4>3. g[T \ {Max(T)}] \in OrderedHubs /\ Max(T) \in 1..n
        BY <1>6, <3>2, <4>2
      <4>4. step[<<g[T \ {Max(T)}], Max(T)>>]
              = Applied(g[T \ {Max(T)}], archived, w[Max(T)][1], w[Max(T)][2])
        BY <1>4, <4>3
      <4> QED BY <3>2, <4>1, <4>4
    <3> QED BY <3>1, <3>2
  <2>2. g = e
    BY <2>1
  <2> QED BY <2>2
<1>8. /\ iter = [T \in SUBSET (1..n) |->
                   IF T = {} THEN h
                   ELSE Applied(iter[T \ {Max(T)}], archived, w[Max(T)][1], w[Max(T)][2])]
  BY <1>2, <1>7, ZenonT(60)
<1> HIDE DEF iter
<1> DEFINE f == [m \in 0..n |-> iter[1..m]]
<1>9. f[0] = h
  <2>1. 1..0 = {}
    OBVIOUS
  <2> QED BY <1>2, <1>8, <2>1
<1>10. ASSUME NEW m \in 1..n PROVE f[m] = Applied(f[m - 1], archived, w[m][1], w[m][2])
  <2>1. PICK k \in Nat : k + 1 = m
    <3>1. m - 1 \in Nat /\ (m - 1) + 1 = m
      BY <1>2
    <3> QED BY <3>1
  <2>2. 1..m \in SUBSET (1..(k + 1)) /\ k + 1 \in 1..m
    BY <2>1
  <2>3. Max(1..m) = m
    BY <2>1, <2>2, LastOf
  <2>4. (1..m) \ {m} = 1..(m - 1) /\ 1..m # {} /\ 1..m \in SUBSET (1..n) /\ m - 1 \in 0..n /\ m \in 0..n
    BY <1>2
  <2>5. iter[1..m] = Applied(iter[1..(m - 1)], archived, w[m][1], w[m][2])
    <3>1. \A T \in SUBSET (1..n) : T # {} =>
            iter[T] = Applied(iter[T \ {Max(T)}], archived, w[Max(T)][1], w[Max(T)][2])
      BY <1>8, Zenon
    <3>2. iter[1..m] = Applied(iter[(1..m) \ {m}], archived, w[m][1], w[m][2])
      BY <2>3, <2>4, <3>1, Zenon
    <3> QED BY <2>4, <3>2
  <2>6. \A l \in 0..n : f[l] = iter[1..l]
    OBVIOUS
  <2> HIDE DEF f
  <2>7. f[m] = iter[1..m] /\ f[m - 1] = iter[1..(m - 1)]
    BY <2>4, <2>6
  <2> QED BY <2>5, <2>7
<1>11. f[n] = iter[1..n]
  BY <1>2
<1> HIDE DEF f
<1>12. AppliedInTurn(f, h, archived, w)
  BY <1>9, <1>10 DEF AppliedInTurn
<1>13. \A m \in 0..n : f[m] \in OrderedHubs
  <2> DEFINE Good == {m \in Nat : m <= n => f[m] \in OrderedHubs}
  <2>1. 0 \in Good
    BY <1>9
  <2>2. ASSUME NEW m \in Nat, m \in Good PROVE m + 1 \in Good
    <3> SUFFICES ASSUME m + 1 <= n PROVE f[m + 1] \in OrderedHubs
      OBVIOUS
    <3>1. m + 1 \in 1..n /\ (m + 1) - 1 = m /\ f[m] \in OrderedHubs
      BY <1>2, <2>2
    <3>2. f[m + 1] = Applied(f[m], archived, w[m + 1][1], w[m + 1][2])
      BY <1>10, <3>1
    <3>3. w[m + 1] \in Item
      BY <3>1, ElementOfSeq
    <3>4. Applied(f[m], archived, w[m + 1][1], w[m + 1][2]) \in OrderedHubs
      BY <3>1, <3>3, AppliedOrdered
    <3> QED BY <3>2, <3>4
  <2> HIDE DEF Good
  <2>3. Nat \subseteq Good
    BY <2>1, <2>2, NumbersInductive
  <2> QED BY <1>2, <2>3 DEF Good
<1> QED BY <1>1, <1>2, <1>11, <1>12, <1>13

\* The first m events that waited were told.
DoneOf(w, m) == {w[j] : j \in 1..m}

FlushedSoFar(h, g, w, m, archived, lg) ==
  /\ g.pending = <<>> /\ g.required = h.required
  /\ \A s \in Sessions : \A e \in Seqs :
       Contains(g.events[s], e) => Contains(h.events[s], e) \/ <<s, e>> \in DoneOf(w, m)
  /\ \A s \in Sessions : g.watermark[s].last <= lg[s]
  /\ \A i \in Item : /\ g.skipped[i] = "no" => h.skipped[i] = "no"
                     /\ g.skipped[i] = "overflow" => h.skipped[i] = "overflow"
                     /\ g.skipped[i] = "no" /\ i \in DoneOf(w, m) => i[2] <= g.watermark[i[1]].last
                     /\ h.skipped[i] # "no" => g.skipped[i] # "no"
  /\ \A p \in Phones :
       /\ SameReader(h.stream[p], g.stream[p]) /\ g.stream[p].told = h.stream[p].told
       /\ \A s \in Sessions : \/ g.stream[p].last[s] = h.stream[p].last[s]
                              \/ <<s, g.stream[p].last[s]>> \in DoneOf(w, m)
       /\ \A i \in g.stream[p].got \ h.stream[p].got : i[1] \notin archived
       /\ Owing(g.stream[p]) => \A i \in OwedBy(g.stream[p], lg) \cap DoneOf(w, m) :
            i \in g.stream[p].got \/ g.skipped[i] # "no"

LEMMA FlushStep ==
  ASSUME NEW h, NEW lg \in Logs, NEW fl \in Logs, HubIsSound(h, lg, fl, FALSE), NEW w, w = h.pending,
         NEW m \in Nat, m + 1 \in 1..Len(w), NEW archived, NEW g \in OrderedHubs,
         FlushedSoFar(h, g, w, m, archived, lg),
         NEW k, k = Applied(g, archived, w[m + 1][1], w[m + 1][2])
  PROVE  FlushedSoFar(h, k, w, m + 1, archived, lg)
<1>1. /\ h \in EventHubs /\ HubFits(h, lg, fl) /\ StillWaits(h, lg, fl)
  BY DEF HubIsSound
<1>2. PICK x : x = w[m + 1]
  OBVIOUS
<1>3. w \in Seq(Item) /\ Len(w) \in Nat
  BY <1>1, HubHas, LenProperties DEF Waiting
<1>4. x \in Item
  BY <1>2, <1>3, ElementOfSeq
<1>5. PICK s, q : s = x[1] /\ q = x[2]
  OBVIOUS
<1>6. s \in Sessions /\ q \in Seqs /\ q \in Nat /\ x = <<s, q>>
  BY <1>4, <1>5, ItemHas
<1>7. g \in EventHubs /\ StreamsInOrder(g) /\ MarksTrue(g)
  BY DEF OrderedHubs
<1>8. k = Applied(g, archived, s, q)
  BY <1>2, <1>5
<1>9. AppliedTo(g, k, archived, s, q)
  BY <1>6, <1>7, <1>8, AppliedIs
<1>10. \A e : e \in DoneOf(w, m + 1) <=> e \in DoneOf(w, m) \/ e = x
  <2>1. \A j : j \in 1..(m + 1) <=> j \in 1..m \/ j = m + 1
    OBVIOUS
  <2> QED BY <1>2, <2>1 DEF DoneOf
<1>11. Contains(w, x) /\ IsLive(x, lg, fl)
  <2>1. Contains(h.pending, x)
    BY <1>2 DEF Contains
  <2> QED BY <1>1, <1>4, <2>1 DEF HubFits
<1>12. q <= lg[s]
  BY <1>5, <1>11 DEF IsLive
<1>13. \A r \in Sessions : lg[r] \in Nat
  BY DEF Logs
<1>14. /\ g.watermark \in [Sessions -> Marks] /\ k.watermark \in [Sessions -> Marks]
       /\ h.stream \in [Phones -> Streams] /\ g.stream \in [Phones -> Streams]
  BY <1>1, <1>7, <1>9, HubHas DEF AppliedTo
<1>15. \A r \in Sessions : g.watermark[r].last \in Nat /\ k.watermark[r].last \in Nat
  BY <1>14 DEF Marks
<1>16. \A p \in Phones : \A r \in Sessions :
         g.stream[p].last[r] \in Nat /\ h.stream[p].last[r] \in Nat /\ h.stream[p].from[r] \in Nat
  BY <1>14, StreamHas
<1>17. \A i \in Item : k.skipped[i] = IF s \in archived /\ i = x THEN "archived" ELSE g.skipped[i]
  BY <1>6, <1>9 DEF AppliedTo
<1>18. k.pending = <<>> /\ k.required = h.required
  BY <1>9 DEF AppliedTo, FlushedSoFar
<1>19. ASSUME NEW r \in Sessions, NEW e \in Seqs, Contains(k.events[r], e)
       PROVE  Contains(h.events[r], e) \/ <<r, e>> \in DoneOf(w, m + 1)
  <2>0. \A b \in Sessions : \A d : Contains(k.events[b], d) => Contains(g.events[b], d) \/ (b = s /\ d = q)
    BY <1>9 DEF AppliedTo
  <2>1. Contains(g.events[r], e) \/ (r = s /\ e = q)
    BY <1>19, <2>0
  <2>2. Contains(h.events[r], e) \/ <<r, e>> \in DoneOf(w, m) \/ <<r, e>> = x
    BY <1>6, <2>1 DEF FlushedSoFar
  <2> QED BY <1>10, <2>2
<1>20. ASSUME NEW r \in Sessions PROVE k.watermark[r].last <= lg[r]
  <2>1. k.watermark[r].last = g.watermark[r].last \/ (r = s /\ k.watermark[r].last = q)
    BY <1>9 DEF AppliedTo
  <2>2. g.watermark[r].last <= lg[r]
    BY DEF FlushedSoFar
  <2> QED BY <1>12, <2>1, <2>2
\* Of x: when it is told for the first time and not skipped, the cache does not know it.
<1>21. ASSUME x \notin DoneOf(w, m), k.skipped[x] = "no"
       PROVE  s \notin archived /\ ~Contains(g.events[s], q) /\ h.skipped[x] = "no"
  <2>1. s \notin archived /\ g.skipped[x] = "no"
    BY <1>4, <1>17, <1>21
  <2>2. h.skipped[x] = "no"
    BY <1>4, <2>1 DEF FlushedSoFar
  <2>3. ~Contains(h.events[s], q)
    BY <1>1, <1>4, <1>5, <1>11, <2>2 DEF StillWaits
  <2>4. ~Contains(g.events[s], q)
    BY <1>6, <1>21, <2>3 DEF FlushedSoFar
  <2> QED BY <2>1, <2>2, <2>4
<1>22. ASSUME NEW i \in Item
       PROVE  /\ k.skipped[i] = "no" => h.skipped[i] = "no"
              /\ k.skipped[i] = "overflow" => h.skipped[i] = "overflow"
              /\ k.skipped[i] = "no" /\ i \in DoneOf(w, m + 1) => i[2] <= k.watermark[i[1]].last
              /\ h.skipped[i] # "no" => k.skipped[i] # "no"
  <2>1. /\ g.skipped[i] = "no" => h.skipped[i] = "no"
        /\ g.skipped[i] = "overflow" => h.skipped[i] = "overflow"
        /\ g.skipped[i] = "no" /\ i \in DoneOf(w, m) => i[2] <= g.watermark[i[1]].last
        /\ h.skipped[i] # "no" => g.skipped[i] # "no"
    BY DEF FlushedSoFar
  <2>2. ASSUME k.skipped[i] = "no", i \in DoneOf(w, m + 1) PROVE i[2] <= k.watermark[i[1]].last
    <3>1. CASE i \in DoneOf(w, m)
      <4>1. g.skipped[i] = "no"
        BY <1>17, <2>2
      <4>2. i[1] \in Sessions /\ i[2] \in Nat
        BY ItemHas
      <4>3. i[2] <= g.watermark[i[1]].last /\ g.watermark[i[1]].last <= k.watermark[i[1]].last
        BY <1>9, <1>15, <2>1, <3>1, <4>1, <4>2 DEF AppliedTo
      <4>4. PICK a, b : a = g.watermark[i[1]].last /\ b = k.watermark[i[1]].last
        OBVIOUS
      <4>5. a \in Nat /\ b \in Nat /\ i[2] <= a /\ a <= b
        BY <1>15, <4>2, <4>3, <4>4
      <4>6. i[2] <= b
        BY <4>2, <4>5
      <4> QED BY <4>4, <4>6
    <3>2. CASE i \notin DoneOf(w, m)
      <4>1. i = x
        BY <1>10, <2>2, <3>2
      <4>2. k.watermark[s].last >= q
        BY <1>9, <1>21, <2>2, <3>2, <4>1 DEF AppliedTo
      <4> QED BY <1>5, <1>6, <1>15, <4>1, <4>2
    <3> QED BY <3>1, <3>2
  <2> QED BY <1>17, <2>1, <2>2
<1>23. ASSUME NEW p \in Phones
       PROVE  /\ SameReader(h.stream[p], k.stream[p]) /\ k.stream[p].told = h.stream[p].told
              /\ \A r \in Sessions : \/ k.stream[p].last[r] = h.stream[p].last[r]
                                     \/ <<r, k.stream[p].last[r]>> \in DoneOf(w, m + 1)
              /\ \A i \in k.stream[p].got \ h.stream[p].got : i[1] \notin archived
              /\ Owing(k.stream[p]) => \A i \in OwedBy(k.stream[p], lg) \cap DoneOf(w, m + 1) :
                   i \in k.stream[p].got \/ k.skipped[i] # "no"
  <2>1. /\ SameReader(h.stream[p], g.stream[p]) /\ g.stream[p].told = h.stream[p].told
        /\ \A r \in Sessions : \/ g.stream[p].last[r] = h.stream[p].last[r]
                               \/ <<r, g.stream[p].last[r]>> \in DoneOf(w, m)
        /\ \A i \in g.stream[p].got \ h.stream[p].got : i[1] \notin archived
        /\ Owing(g.stream[p]) => \A i \in OwedBy(g.stream[p], lg) \cap DoneOf(w, m) :
             i \in g.stream[p].got \/ g.skipped[i] # "no"
    BY DEF FlushedSoFar
  <2>2. /\ SameReader(g.stream[p], k.stream[p]) /\ k.stream[p].told = g.stream[p].told
        /\ k.stream[p].got \subseteq g.stream[p].got \cup IF s \in archived THEN {} ELSE {<<s, q>>}
        /\ \A r \in Sessions : \/ k.stream[p].last[r] = g.stream[p].last[r]
                               \/ r = s /\ s \notin archived /\ k.stream[p].last[r] = q
        /\ /\ s \notin archived /\ ~Contains(g.events[s], q)
           /\ k.stream[p].on /\ k.stream[p].scope \in {s, AnySession} /\ ~k.stream[p].done
           /\ q > g.stream[p].last[s] /\ q > g.stream[p].since
           => <<s, q>> \in k.stream[p].got
    BY <1>9 DEF AppliedTo
  <2>3. SameReader(h.stream[p], k.stream[p]) /\ k.stream[p].told = h.stream[p].told
    BY <2>1, <2>2, SameReaderTwice
  <2>4. ASSUME NEW r \in Sessions
        PROVE  \/ k.stream[p].last[r] = h.stream[p].last[r]
               \/ <<r, k.stream[p].last[r]>> \in DoneOf(w, m + 1)
    BY <1>6, <1>10, <2>1, <2>2
  <2>5. ASSUME NEW i \in k.stream[p].got \ h.stream[p].got PROVE i[1] \notin archived
    <3>1. CASE i \in g.stream[p].got
      BY <2>1, <2>5, <3>1
    <3>2. CASE i \notin g.stream[p].got
      <4>1. s \notin archived /\ i = <<s, q>>
        BY <2>2, <2>5, <3>2
      <4> QED BY <4>1
    <3> QED BY <3>1, <3>2
  <2>6. ASSUME Owing(k.stream[p]), NEW i \in OwedBy(k.stream[p], lg) \cap DoneOf(w, m + 1),
               k.skipped[i] = "no"
        PROVE  i \in k.stream[p].got
    <3>1. i \in Item /\ i[2] <= lg[i[1]]
      BY DEF OwedBy
    <3>2. Owing(g.stream[p]) /\ i \in OwedBy(g.stream[p], lg)
      <4>1. SameReader(g.stream[p], k.stream[p]) /\ i \in OwedBy(k.stream[p], lg)
        BY <2>2, <2>6
      <4> QED BY <2>6, <3>1, <4>1, OwedStays
    <3>3. Owing(h.stream[p]) /\ i \in OwedBy(h.stream[p], lg)
      <4>1. SameReader(h.stream[p], g.stream[p])
        BY <2>1
      <4> QED BY <3>1, <3>2, <4>1, OwedStays
    <3>4. CASE i \in DoneOf(w, m)
      <4>1. g.skipped[i] = "no"
        BY <1>17, <2>6, <3>1
      <4>2. i \in g.stream[p].got
        BY <2>1, <3>2, <3>4, <4>1
      <4> QED BY <2>2, <4>2 DEF SameReader
    <3>5. CASE i \notin DoneOf(w, m)
      <4>1. i = x
        BY <1>10, <2>6, <3>5
      <4>2. s \notin archived /\ ~Contains(g.events[s], q) /\ h.skipped[x] = "no"
        BY <1>21, <2>6, <3>5, <4>1
      <4>3. /\ k.stream[p].on /\ ~k.stream[p].done /\ k.stream[p].scope \in {s, AnySession}
            /\ q > h.stream[p].from[s] /\ q > g.stream[p].since /\ h.stream[p].on
        BY <1>5, <2>6, <3>2, <3>3, <4>1 DEF Owing, OwedBy
      <4>4. q > g.stream[p].last[s]
        <5>1. CASE g.stream[p].last[s] = h.stream[p].last[s]
          <6>1. h.stream[p].last[s] <= h.stream[p].from[s]
            BY <1>1, <1>6, <4>3 DEF StillWaits
          <6>2. h.stream[p].last[s] \in Nat /\ h.stream[p].from[s] \in Nat
            BY <1>6, <1>16
          <6>3. q > h.stream[p].from[s]
            BY <4>3
          <6>4. PICK a, b : a = h.stream[p].last[s] /\ b = h.stream[p].from[s]
            OBVIOUS
          <6>5. a \in Nat /\ b \in Nat /\ a <= b /\ q > b /\ q \in Nat
            BY <1>6, <6>1, <6>2, <6>3, <6>4
          <6>6. q > a
            BY <6>5
          <6> QED BY <5>1, <6>4, <6>6
        <5>2. CASE <<s, g.stream[p].last[s]>> \in DoneOf(w, m)
          <6>1. PICK j \in 1..m : w[j] = <<s, g.stream[p].last[s]>>
            BY <5>2 DEF DoneOf
          <6>2. w[j][1] = s /\ w[j][2] = g.stream[p].last[s]
            BY <6>1
          <6>3. j \in 1..Len(w) /\ j < m + 1
            BY <1>3
          <6>4. ~(w[j][2] > w[m + 1][2])
            <7>1. SUFFICES ASSUME w[j][2] > w[m + 1][2] PROVE FALSE
              OBVIOUS
            <7>2. h.skipped[w[m + 1]] # "no" \/ \E e \in 1..(j - 1) : w[e] = w[m + 1]
              BY <1>1, <1>2, <1>5, <6>2, <6>3, <7>1 DEF StillWaits, WaitsInOrder
            <7>3. PICK e \in 1..(j - 1) : w[e] = x
              BY <1>2, <4>2, <7>2
            <7>4. e \in 1..m
              OBVIOUS
            <7> QED BY <3>5, <4>1, <7>3, <7>4 DEF DoneOf
          <6>5. g.stream[p].last[s] # q
            BY <1>6, <3>5, <4>1, <5>2
          <6>6. PICK a : a = g.stream[p].last[s]
            OBVIOUS
          <6>7. a \in Nat /\ ~(a > q) /\ a # q
            BY <1>2, <1>5, <1>6, <1>16, <6>2, <6>4, <6>5, <6>6
          <6>8. q > a
            BY <1>6, <6>7
          <6> QED BY <6>6, <6>8
        <5> QED BY <1>6, <2>1, <5>1, <5>2
      <4> QED BY <1>6, <2>2, <4>1, <4>2, <4>3, <4>4
    <3> QED BY <3>4, <3>5
  <2> QED BY <2>3, <2>4, <2>5, <2>6
<1> QED BY <1>18, <1>19, <1>20, <1>22, <1>23 DEF FlushedSoFar

LEMMA FlushKeeps ==
  ASSUME NEW h, NEW lg \in Logs, NEW fl \in Logs, workspaceBaselineKnown \in BOOLEAN,
         HubIsSound(h, lg, fl, workspaceBaselineKnown), NEW archived, NEW g, g = Flushed(h, archived)
  PROVE  /\ HubIsSound(g, lg, fl, TRUE)
         /\ \A p \in Phones : \A i \in g.stream[p].got \ h.stream[p].got : i[1] \notin archived
<1>1. /\ h \in EventHubs /\ StreamsInOrder(h) /\ MarksTrue(h) /\ HubFits(h, lg, fl) /\ ToldWhy(h)
      /\ NothingLost(h, lg) /\ IF workspaceBaselineKnown THEN MarkKept(h, lg, fl) ELSE StillWaits(h, lg, fl)
  BY DEF HubIsSound
<1>2. PICK w : w = h.pending
  OBVIOUS
<1>3. PICK b : b = [h EXCEPT !.pending = <<>>]
  OBVIOUS
<1>5. w \in Seq(Item) /\ Len(w) \in Nat
  BY <1>1, <1>2, HubHas, LenProperties DEF Waiting
<1>6. b = [events |-> h.events, watermark |-> h.watermark, stream |-> h.stream, skipped |-> h.skipped,
           pending |-> <<>>, required |-> h.required]
  BY <1>1, <1>3 DEF EventHubs
<1>7. /\ b.events = h.events /\ b.watermark = h.watermark /\ b.stream = h.stream /\ b.skipped = h.skipped
      /\ b.pending = <<>> /\ b.required = h.required
  BY <1>6
<1>8. b \in OrderedHubs
  <2>1. <<>> \in Waiting
    <3>1. <<>> \in Seq(Item) /\ Len(<<>>) = 0 /\ 0 <= MaxPendingGlobalEvents
      BY MobileEventsAssumption
    <3> QED BY <3>1 DEF Waiting
  <2>2. b \in EventHubs
    BY <1>1, <1>6, <2>1, HubHas DEF EventHubs
  <2>3. StreamsInOrder(b) /\ MarksTrue(b)
    BY <1>1, <1>7 DEF StreamsInOrder, MarksTrue
  <2> QED BY <2>2, <2>3 DEF OrderedHubs
<1>9. PICK f : /\ AppliedInTurn(f, b, archived, w) /\ \A m \in 0..Len(w) : f[m] \in OrderedHubs
               /\ Flushed(h, archived) = f[Len(w)]
  BY <1>2, <1>3, <1>5, <1>8, AppliedAll
<1>10. g = f[Len(w)] /\ f[Len(w)] \in OrderedHubs
  BY <1>5, <1>9
<1>11. f[0] = b /\ \A m \in 1..Len(w) : f[m] = Applied(f[m - 1], archived, w[m][1], w[m][2])
  BY <1>9 DEF AppliedInTurn
<1>12. CASE workspaceBaselineKnown
  <2>1. w = <<>> /\ MarkKept(h, lg, fl)
    BY <1>1, <1>2, <1>12 DEF MarkKept
  <2>2. Len(w) = 0
    BY <2>1
  <2>3. g = b
    BY <1>10, <1>11, <2>2
  <2>4. b = h
    <3>1. h.pending = <<>>
      BY <1>2, <2>1
    <3> QED BY <1>1, <1>6, <3>1 DEF EventHubs
  <2>5. HubIsSound(g, lg, fl, TRUE)
    BY <1>1, <2>1, <2>3, <2>4 DEF HubIsSound
  <2> QED BY <2>3, <2>4, <2>5
<1>13. CASE ~workspaceBaselineKnown
  <2>1. StillWaits(h, lg, fl) /\ HubIsSound(h, lg, fl, FALSE)
    BY <1>1, <1>13 DEF HubIsSound
  <2>2. DoneOf(w, 0) = {}
    BY DEF DoneOf
  <2>3. FlushedSoFar(h, b, w, 0, archived, lg)
    <3>1. \A p \in Phones : SameReader(h.stream[p], b.stream[p])
      BY <1>7 DEF SameReader
    <3>2. \A s \in Sessions : b.watermark[s].last <= lg[s]
      BY <1>1, <1>7 DEF HubFits
    <3> QED BY <1>7, <2>2, <3>1, <3>2 DEF FlushedSoFar
  <2> DEFINE Good == {m \in Nat : m <= Len(w) => FlushedSoFar(h, f[m], w, m, archived, lg)}
  <2>4. 0 \in Good
    BY <1>11, <2>3
  <2>5. ASSUME NEW m \in Nat, m \in Good PROVE m + 1 \in Good
    <3> SUFFICES ASSUME m + 1 <= Len(w) PROVE FlushedSoFar(h, f[m + 1], w, m + 1, archived, lg)
      OBVIOUS
    <3>1. m + 1 \in 1..Len(w) /\ m \in 0..Len(w) /\ (m + 1) - 1 = m
      BY <1>5
    <3>2. FlushedSoFar(h, f[m], w, m, archived, lg)
      BY <1>5, <2>5, <3>1
    <3>3. f[m + 1] = Applied(f[m], archived, w[m + 1][1], w[m + 1][2]) /\ f[m] \in OrderedHubs
      BY <1>9, <1>11, <3>1
    <3> HIDE DEF Good
    <3> QED BY <1>2, <2>1, <3>1, <3>2, <3>3, FlushStep
  <2> HIDE DEF Good
  <2>6. Len(w) \in Good
    BY <1>5, <2>4, <2>5, NumbersInductive
  <2>7. FlushedSoFar(h, g, w, Len(w), archived, lg)
    BY <1>5, <1>10, <2>6 DEF Good
  <2>8. g \in EventHubs /\ StreamsInOrder(g) /\ MarksTrue(g)
    BY <1>10 DEF OrderedHubs
  <2>9. \A i : i \in DoneOf(w, Len(w)) <=> Contains(w, i)
    BY DEF DoneOf, Contains
  <2>10. /\ h.stream \in [Phones -> Streams] /\ g.stream \in [Phones -> Streams]
    BY <1>1, <2>8, HubHas
  <2>11. HubFits(g, lg, fl)
    <3>1. ASSUME NEW s \in Sessions, NEW e \in Seqs, Contains(g.events[s], e) PROVE e <= lg[s]
      <4>1. Contains(h.events[s], e) \/ Contains(w, <<s, e>>)
        BY <2>7, <2>9, <3>1 DEF FlushedSoFar
      <4>2. CASE Contains(h.events[s], e)
        BY <1>1, <4>2 DEF HubFits
      <4>3. CASE Contains(w, <<s, e>>)
        <5>1. <<s, e>> \in Item
          BY DEF Item
        <5>2. IsLive(<<s, e>>, lg, fl)
          BY <1>1, <1>2, <4>3, <5>1 DEF HubFits
        <5> QED BY <5>2 DEF IsLive
      <4> QED BY <4>1, <4>2, <4>3
    <3>2. ASSUME NEW s \in Sessions PROVE g.watermark[s].last <= lg[s]
      BY <2>7 DEF FlushedSoFar
    <3>3. \A i \in Item : ~Contains(g.pending, i)
      <4>1. g.pending = <<>>
        BY <2>7 DEF FlushedSoFar
      <4> QED BY <4>1 DEF Contains
    <3>4. ASSUME NEW p \in Phones, NEW s \in Sessions
          PROVE  g.stream[p].from[s] <= lg[s] /\ g.stream[p].last[s] <= lg[s]
      <4>1. h.stream[p].from[s] <= lg[s] /\ h.stream[p].last[s] <= lg[s]
        BY <1>1 DEF HubFits
      <4>2. /\ g.stream[p].from = h.stream[p].from
            /\ \/ g.stream[p].last[s] = h.stream[p].last[s]
               \/ Contains(w, <<s, g.stream[p].last[s]>>)
        BY <2>7, <2>9 DEF FlushedSoFar, SameReader
      <4>3. CASE Contains(w, <<s, g.stream[p].last[s]>>)
        <5>1. PICK j \in 1..Len(w) : w[j] = <<s, g.stream[p].last[s]>>
          BY <4>3 DEF Contains
        <5>2. w[j] \in Item /\ w[j][1] = s /\ w[j][2] = g.stream[p].last[s]
          BY <1>5, <5>1, ElementOfSeq
        <5>3. IsLive(w[j], lg, fl)
          BY <1>1, <1>2, <4>3, <5>1, <5>2 DEF HubFits
        <5>4. g.stream[p].last[s] <= lg[s]
          BY <5>2, <5>3 DEF IsLive
        <5> QED BY <4>1, <4>2, <5>4
      <4> QED BY <4>1, <4>2, <4>3
    <3> QED BY <3>1, <3>2, <3>3, <3>4 DEF HubFits
  <2>12. ToldWhy(g)
    <3>1. ASSUME NEW i \in Item, g.skipped[i] = "overflow" PROVE g.required
      <4>1. h.skipped[i] = "overflow" /\ g.required = h.required
        BY <2>7, <3>1 DEF FlushedSoFar
      <4> QED BY <1>1, <4>1 DEF ToldWhy
    <3>2. ASSUME g.required, NEW p \in Phones, Owing(g.stream[p]) PROVE g.stream[p].told
      <4>1. h.required /\ SameReader(h.stream[p], g.stream[p]) /\ g.stream[p].told = h.stream[p].told
        BY <2>7, <3>2 DEF FlushedSoFar
      <4>2. Owing(h.stream[p])
        BY <3>2, <4>1 DEF SameReader, Owing
      <4> QED BY <1>1, <4>1, <4>2 DEF ToldWhy
    <3> QED BY <3>1, <3>2 DEF ToldWhy
  <2>13. NothingLost(g, lg)
    <3> SUFFICES ASSUME NEW p \in Phones, Owing(g.stream[p]), NEW i \in OwedBy(g.stream[p], lg)
                 PROVE  i \in g.stream[p].got \/ Contains(g.pending, i) \/ g.skipped[i] # "no"
      BY DEF NothingLost
    <3>1. i \in Item /\ i[2] <= lg[i[1]]
      BY DEF OwedBy
    <3>2. SameReader(h.stream[p], g.stream[p])
      BY <2>7 DEF FlushedSoFar
    <3>3. Owing(h.stream[p]) /\ i \in OwedBy(h.stream[p], lg)
      BY <3>1, <3>2, OwedStays
    <3>4. i \in h.stream[p].got \/ Contains(w, i) \/ h.skipped[i] # "no"
      BY <1>1, <1>2, <3>3 DEF NothingLost
    <3>5. Contains(w, i) => i \in g.stream[p].got \/ g.skipped[i] # "no"
      BY <2>7, <2>9 DEF FlushedSoFar
    <3>6. h.skipped[i] # "no" => g.skipped[i] # "no"
      BY <2>7, <3>1 DEF FlushedSoFar
    <3> QED BY <3>2, <3>4, <3>5, <3>6 DEF SameReader
  <2>14. MarkKept(g, lg, fl)
    <3>1. ASSUME NEW i \in Item, IsLive(i, lg, fl), g.skipped[i] = "no"
          PROVE  i[2] <= g.watermark[i[1]].last
      <4>1. h.skipped[i] = "no"
        BY <2>7, <3>1 DEF FlushedSoFar
      <4>2. Contains(w, i)
        BY <1>2, <2>1, <3>1, <4>1 DEF StillWaits
      <4> QED BY <2>7, <2>9, <3>1, <4>2 DEF FlushedSoFar
    <3>2. g.pending = <<>>
      BY <2>7 DEF FlushedSoFar
    <3> QED BY <3>1, <3>2 DEF MarkKept
  <2>15. \A p \in Phones : \A i \in g.stream[p].got \ h.stream[p].got : i[1] \notin archived
    BY <2>7 DEF FlushedSoFar
  <2> QED BY <2>8, <2>11, <2>12, <2>13, <2>14, <2>15 DEF HubIsSound
<1> QED BY <1>12, <1>13

-----------------------------------------------------------------------------
(* The invariant, and the actions that tell events.                        *)

ReadsFit ==
  /\ log \in Logs /\ firstLiveSeq \in Logs /\ reading \in Logs
  /\ reads \in [Sessions -> 0..MaxReads]
  /\ \A s \in Sessions : firstLiveSeq[s] <= log[s] /\ reading[s] <= log[s]

EventsIInv ==
  /\ ReadsFit
  /\ archivedSessions \in SUBSET Sessions /\ workspaceBaselineKnown \in BOOLEAN
  /\ HubIsSound(Hub, log, firstLiveSeq, workspaceBaselineKnown)

\* What is given to a stream that goes on is not of an archived session.
QuietFor(h, g, archived) ==
  \A p \in Phones : \A i \in g.stream[p].got \ h.stream[p].got : i[1] \notin archived

LEMMA HubFields ==
  /\ Hub.events = events /\ Hub.watermark = watermark /\ Hub.stream = stream /\ Hub.skipped = skipped
  /\ Hub.pending = pendingGlobalEvents /\ Hub.required = globalBaselineRequired
BY DEF Hub

LEMMA BecomesIs ==
  ASSUME NEW h \in EventHubs, Becomes(h)
  PROVE  Hub' = h /\ stream' = h.stream
BY DEF Becomes, Hub, EventHubs

LEMMA IngestedQuiet ==
  ASSUME NEW h, NEW lg, NEW fl, NEW known, HubIsSound(h, lg, fl, known),
         NEW s \in Sessions, NEW q \in Seqs, NEW g, g = Ingested(h, s, q)
  PROVE  QuietFor(h, g, archivedSessions)
<1>0. h \in EventHubs /\ StreamsInOrder(h) /\ MarksTrue(h)
  BY DEF HubIsSound
<1>1. CASE workspaceBaselineKnown \/ s \in archivedSessions
  <2>1. g = Applied(h, archivedSessions, s, q)
    BY <1>1 DEF Ingested
  <2>2. AppliedTo(h, g, archivedSessions, s, q)
    BY <1>0, <2>1, AppliedIs
  <2>3. \A p \in Phones :
          g.stream[p].got \subseteq h.stream[p].got \cup IF s \in archivedSessions THEN {} ELSE {<<s, q>>}
    BY <2>2 DEF AppliedTo
  <2>4. ASSUME NEW p \in Phones, NEW i \in g.stream[p].got \ h.stream[p].got
        PROVE  i[1] \notin archivedSessions
    <3>1. s \notin archivedSessions /\ i = <<s, q>>
      BY <2>3
    <3> QED BY <3>1
  <2> QED BY <2>4 DEF QuietFor
<1>2. CASE ~(workspaceBaselineKnown \/ s \in archivedSessions)
  <2>1. g = Queued(h, s, q)
    BY <1>2 DEF Ingested
  <2>2. QueuedTo(h, g, <<s, q>>)
    BY <1>0, <2>1, QueuedIs
  <2>3. \A p \in Phones : g.stream[p].got = h.stream[p].got
    BY <2>2 DEF QueuedTo
  <2> QED BY <2>3 DEF QuietFor
<1> QED BY <1>1, <1>2

\* An event that is told again, and the next of a session that is live or becomes it.
LEMMA TellingAgain ==
  ASSUME NEW lg \in Logs, NEW fl \in Logs, NEW s \in Sessions, NEW q \in Seqs,
         fl[s] > 0, fl[s] <= q, q <= lg[s]
  PROVE  Telling(<<s, q>>, lg, lg, fl, fl)
<1>1. <<s, q>> \in Item /\ IsLive(<<s, q>>, lg, fl)
  BY DEF Item, IsLive
<1>2. \A r \in Sessions : lg[r] <= lg[r]
  BY DEF Logs
<1> QED BY <1>1, <1>2 DEF Telling

LEMMA TellingNext ==
  ASSUME NEW lg \in Logs, NEW fl \in Logs, NEW s \in Sessions, NEW mg, NEW gl, NEW q,
         lg[s] < MaxSeq, q = lg[s] + 1, mg = [lg EXCEPT ![s] = q], fl[s] <= lg[s],
         gl = IF fl[s] > 0 THEN fl ELSE [fl EXCEPT ![s] = q]
  PROVE  /\ q \in Seqs /\ mg \in Logs /\ gl \in Logs
         /\ \A r \in Sessions : fl[r] <= lg[r] => gl[r] <= mg[r]
         /\ Telling(<<s, q>>, lg, mg, fl, gl)
<1>1. MaxSeq \in Nat /\ lg \in [Sessions -> 0..MaxSeq] /\ fl \in [Sessions -> 0..MaxSeq]
  BY MobileEventsAssumption DEF Logs
<1>2. lg[s] \in Nat /\ q \in Nat /\ q \in Seqs /\ q \in 0..MaxSeq /\ fl[s] \in Nat
  BY <1>1 DEF Seqs
<1>3. mg \in Logs /\ mg[s] = q /\ \A r \in Sessions : r # s => mg[r] = lg[r]
  BY <1>1, <1>2 DEF Logs
<1>4. /\ gl \in Logs /\ \A r \in Sessions : r # s => gl[r] = fl[r]
      /\ (fl[s] > 0 /\ gl[s] = fl[s]) \/ (fl[s] = 0 /\ gl[s] = q)
  <2>1. CASE fl[s] > 0
    BY <1>1, <2>1 DEF Logs
  <2>2. CASE ~(fl[s] > 0)
    BY <1>1, <1>2, <2>2 DEF Logs
  <2> QED BY <2>1, <2>2
<1>5. \A r \in Sessions : lg[r] \in Nat /\ fl[r] \in Nat /\ lg[r] <= mg[r]
  BY <1>1, <1>2, <1>3
<1>6. ASSUME NEW r \in Sessions, fl[r] <= lg[r] PROVE gl[r] <= mg[r]
  <2>1. CASE r = s
    BY <1>2, <1>3, <1>4, <1>6, <2>1
  <2>2. CASE r # s
    BY <1>3, <1>4, <1>6, <2>2
  <2> QED BY <2>1, <2>2
<1>7. PICK x : x = <<s, q>>
  OBVIOUS
<1>8. x \in Item /\ x[1] = s /\ x[2] = q
  BY <1>2, <1>7 DEF Item
<1>9. IsLive(x, mg, gl)
  BY <1>2, <1>3, <1>4, <1>8 DEF IsLive
<1>10. ASSUME NEW i \in Item, i # x, i[2] <= mg[i[1]] PROVE i[2] <= lg[i[1]]
  <2>1. i[1] \in Sessions /\ i[2] \in Nat /\ i = <<i[1], i[2]>>
    BY ItemHas
  <2>2. CASE i[1] = s
    <3>1. i[2] # q
      BY <1>7, <1>10, <2>1, <2>2
    <3> QED BY <1>2, <1>3, <1>10, <2>1, <2>2, <3>1
  <2>3. CASE i[1] # s
    BY <1>3, <1>10, <2>1, <2>3
  <2> QED BY <2>2, <2>3
<1>11. ASSUME NEW i \in Item, i # x, IsLive(i, mg, gl) PROVE IsLive(i, lg, fl)
  <2>1. i[1] \in Sessions /\ i[2] \in Nat
    BY ItemHas
  <2>2. i[2] <= lg[i[1]] /\ gl[i[1]] > 0 /\ gl[i[1]] <= i[2]
    BY <1>10, <1>11 DEF IsLive
  <2>3. CASE i[1] = s
    BY <1>2, <1>4, <2>1, <2>2, <2>3 DEF IsLive
  <2>4. CASE i[1] # s
    BY <1>4, <2>1, <2>2, <2>4 DEF IsLive
  <2> QED BY <2>3, <2>4
<1>12. ASSUME NEW i \in Item, IsLive(i, lg, fl) PROVE IsLive(i, mg, gl)
  <2>1. i[1] \in Sessions /\ i[2] \in Nat
    BY ItemHas
  <2>2. i[2] <= lg[i[1]] /\ fl[i[1]] > 0 /\ fl[i[1]] <= i[2]
    BY <1>12 DEF IsLive
  <2>3. i[2] <= mg[i[1]]
    <3>1. lg[i[1]] \in Nat /\ mg[i[1]] \in Nat /\ lg[i[1]] <= mg[i[1]]
      BY <1>3, <1>5, <2>1 DEF Logs
    <3> QED BY <2>1, <2>2, <3>1
  <2>4. gl[i[1]] = fl[i[1]]
    BY <1>4, <2>1, <2>2
  <2> QED BY <2>2, <2>3, <2>4 DEF IsLive
<1>13. x[2] > lg[x[1]]
  BY <1>2, <1>8
<1>14. Telling(x, lg, mg, fl, gl)
  BY <1>5, <1>8, <1>9, <1>10, <1>11, <1>12, <1>13 DEF Telling
<1> QED BY <1>2, <1>3, <1>4, <1>6, <1>7, <1>14

-----------------------------------------------------------------------------
(* A live event, and the events of a session one after the other.          *)

LEMMA LiveKeeps ==
  ASSUME EventsIInv, NEW s \in Sessions, log[s] < MaxSeq, NEW q, q = log[s] + 1,
         log' = [log EXCEPT ![s] = q],
         firstLiveSeq' = IF firstLiveSeq[s] > 0 THEN firstLiveSeq ELSE [firstLiveSeq EXCEPT ![s] = q],
         NEW g, g = Ingested(Hub, s, q), Becomes(g),
         UNCHANGED <<reading, reads, archivedSessions, workspaceBaselineKnown>>
  PROVE  EventsIInv' /\ QuietFor(Hub, Hub', archivedSessions)
<1>1. /\ ReadsFit /\ archivedSessions \in SUBSET Sessions /\ workspaceBaselineKnown \in BOOLEAN
      /\ HubIsSound(Hub, log, firstLiveSeq, workspaceBaselineKnown)
  BY DEF EventsIInv
<1>2. /\ log \in Logs /\ firstLiveSeq \in Logs /\ reading \in Logs /\ reads \in [Sessions -> 0..MaxReads]
      /\ \A r \in Sessions : firstLiveSeq[r] <= log[r] /\ reading[r] <= log[r]
  BY <1>1 DEF ReadsFit
<1>3. /\ q \in Seqs /\ log' \in Logs /\ firstLiveSeq' \in Logs
      /\ \A r \in Sessions : firstLiveSeq[r] <= log[r] => firstLiveSeq'[r] <= log'[r]
      /\ Telling(<<s, q>>, log, log', firstLiveSeq, firstLiveSeq')
  <2>1. PICK mg : mg = log'
    OBVIOUS
  <2>2. PICK gl : gl = firstLiveSeq'
    OBVIOUS
  <2>3. PICK lg : lg = log
    OBVIOUS
  <2>4. PICK fl : fl = firstLiveSeq
    OBVIOUS
  <2>5. /\ lg \in Logs /\ fl \in Logs /\ fl[s] <= lg[s] /\ lg[s] < MaxSeq /\ q = lg[s] + 1
    BY <1>2, <2>3, <2>4
  <2>6. mg = [lg EXCEPT ![s] = q]
    BY <2>1, <2>3
  <2>7. gl = IF fl[s] > 0 THEN fl ELSE [fl EXCEPT ![s] = q]
    BY <2>2, <2>4
  <2>8. /\ q \in Seqs /\ mg \in Logs /\ gl \in Logs
        /\ \A r \in Sessions : fl[r] <= lg[r] => gl[r] <= mg[r]
        /\ Telling(<<s, q>>, lg, mg, fl, gl)
    BY <2>5, <2>6, <2>7, TellingNext
  <2> QED BY <2>1, <2>2, <2>3, <2>4, <2>8
<1>4. HubIsSound(g, log', firstLiveSeq', workspaceBaselineKnown)
  BY <1>1, <1>2, <1>3, IngestedKeeps
<1>5. QuietFor(Hub, g, archivedSessions)
  BY <1>1, <1>3, IngestedQuiet
<1>6. g \in EventHubs
  BY <1>4 DEF HubIsSound
<1>7. Hub' = g
  BY <1>6, BecomesIs
<1>8. ReadsFit'
  <2>1. \A r \in Sessions : log[r] <= log'[r]
    BY <1>3 DEF Telling
  <2>2. \A r \in Sessions : log[r] \in Nat /\ log'[r] \in Nat /\ reading[r] \in Nat
    BY <1>2, <1>3 DEF Logs
  <2>3. \A r \in Sessions : firstLiveSeq'[r] <= log'[r] /\ reading[r] <= log'[r]
    BY <1>2, <1>3, <2>1, <2>2
  <2> QED BY <1>2, <1>3, <2>3 DEF ReadsFit, Logs
<1>9. HubIsSound(Hub, log, firstLiveSeq, workspaceBaselineKnown)'
  BY <1>4, <1>7
<1> QED BY <1>1, <1>5, <1>7, <1>8, <1>9 DEF EventsIInv

LEMMA IngestedOrdered ==
  ASSUME NEW h \in OrderedHubs, NEW s \in Sessions, NEW q \in Seqs
  PROVE  Ingested(h, s, q) \in OrderedHubs
<1>1. h \in EventHubs /\ StreamsInOrder(h) /\ MarksTrue(h)
  BY DEF OrderedHubs
<1>2. CASE workspaceBaselineKnown \/ s \in archivedSessions
  <2>1. PICK i : i = <<s, q>>
    OBVIOUS
  <2>2. i \in Item /\ i[1] = s /\ i[2] = q
    BY <2>1 DEF Item
  <2>3. Applied(h, archivedSessions, i[1], i[2]) \in OrderedHubs
    BY <2>2, AppliedOrdered
  <2> QED BY <1>2, <2>2, <2>3 DEF Ingested
<1>3. CASE ~(workspaceBaselineKnown \/ s \in archivedSessions)
  <2>1. PICK g : g = Queued(h, s, q)
    OBVIOUS
  <2>2. QueuedTo(h, g, <<s, q>>)
    BY <1>1, <2>1, QueuedIs
  <2>3. g \in EventHubs /\ StreamsInOrder(g) /\ g.watermark = h.watermark
    BY <2>2 DEF QueuedTo
  <2>4. MarksTrue(g)
    BY <1>1, <2>3 DEF MarksTrue
  <2>5. g \in OrderedHubs
    BY <2>3, <2>4 DEF OrderedHubs
  <2>6. Ingested(h, s, q) = g
    BY <1>3, <2>1 DEF Ingested
  <2> QED BY <2>5, <2>6
<1> QED BY <1>2, <1>3

EventsInTurn(f, h, s, w) ==
  f[0] = h /\ \A m \in 1..Len(w) : f[m] = Ingested(f[m - 1], s, w[m])

LEMMA EventsIngestedAll ==
  ASSUME NEW s \in Sessions, NEW w \in Seq(Seqs), NEW h \in OrderedHubs
  PROVE  \E f : EventsInTurn(f, h, s, w) /\ IngestedEach(h, s, w) = f[Len(w)]
<1> DEFINE n == Len(w)
           step == [x \in OrderedHubs \X (1..n) |-> Ingested(x[1], s, w[x[2]])]
           iter == CHOOSE g : g = [T \in SUBSET (DOMAIN w) |->
                      IF T = {} THEN h ELSE Ingested(g[T \ {Max(T)}], s, w[Max(T)])]
<1>1. IngestedEach(h, s, w) = iter[DOMAIN w]
  BY DEF IngestedEach, FoldLeft, MapThenFoldSet
<1>2. n \in Nat /\ DOMAIN w = 1..n
  BY LenProperties
<1>3. step \in [OrderedHubs \X (1..n) -> OrderedHubs]
  <2> SUFFICES ASSUME NEW x \in OrderedHubs \X (1..n)
               PROVE  Ingested(x[1], s, w[x[2]]) \in OrderedHubs
    OBVIOUS
  <2>1. x[1] \in OrderedHubs /\ w[x[2]] \in Seqs
    BY ElementOfSeq
  <2> QED BY <2>1, IngestedOrdered
<1>4. \A z \in OrderedHubs, m \in 1..n : step[<<z, m>>] = Ingested(z, s, w[m])
  OBVIOUS
<1> HIDE DEF step
<1>5. PICK g \in [SUBSET (1..n) -> OrderedHubs] : Folded(g, h, step, n)
  BY <1>2, <1>3, FoldExists DEF HasFold
<1>6. \A T \in SUBSET (1..n) : T # {} => Max(T) \in 1..n
  BY <1>2, LastIn
<1>7. g = [T \in SUBSET (1..n) |->
             IF T = {} THEN h ELSE Ingested(g[T \ {Max(T)}], s, w[Max(T)])]
  <2> DEFINE e == [T \in SUBSET (1..n) |->
                     IF T = {} THEN h ELSE Ingested(g[T \ {Max(T)}], s, w[Max(T)])]
  <2>1. ASSUME NEW T \in SUBSET (1..n) PROVE g[T] = e[T]
    <3>1. CASE T = {}
      BY <1>5, <3>1 DEF Folded
    <3>2. CASE T # {}
      <4>1. g[T] = step[<<g[T \ {Max(T)}], Max(T)>>]
        BY <1>5, <3>2 DEF Folded
      <4>2. T \ {Max(T)} \in SUBSET (1..n)
        OBVIOUS
      <4>3. g[T \ {Max(T)}] \in OrderedHubs /\ Max(T) \in 1..n
        BY <1>6, <3>2, <4>2
      <4>4. step[<<g[T \ {Max(T)}], Max(T)>>] = Ingested(g[T \ {Max(T)}], s, w[Max(T)])
        BY <1>4, <4>3
      <4> QED BY <3>2, <4>1, <4>4
    <3> QED BY <3>1, <3>2
  <2>2. g = e
    BY <2>1
  <2> QED BY <2>2
<1>8. iter = [T \in SUBSET (1..n) |->
                IF T = {} THEN h ELSE Ingested(iter[T \ {Max(T)}], s, w[Max(T)])]
  BY <1>2, <1>7
<1> HIDE DEF iter
<1> DEFINE f == [m \in 0..n |-> iter[1..m]]
<1>9. f[0] = h
  <2>1. 1..0 = {}
    OBVIOUS
  <2> QED BY <1>2, <1>8, <2>1
<1>10. ASSUME NEW m \in 1..n PROVE f[m] = Ingested(f[m - 1], s, w[m])
  <2>1. PICK k \in Nat : k + 1 = m
    <3>1. m - 1 \in Nat /\ (m - 1) + 1 = m
      BY <1>2
    <3> QED BY <3>1
  <2>2. 1..m \in SUBSET (1..(k + 1)) /\ k + 1 \in 1..m
    BY <2>1
  <2>3. Max(1..m) = m
    BY <2>1, <2>2, LastOf
  <2>4. (1..m) \ {m} = 1..(m - 1) /\ 1..m # {} /\ 1..m \in SUBSET (1..n) /\ m - 1 \in 0..n /\ m \in 0..n
    BY <1>2
  <2>5. iter[1..m] = Ingested(iter[1..(m - 1)], s, w[m])
    BY <1>8, <2>3, <2>4
  <2> QED BY <2>4, <2>5
<1>11. f[n] = iter[1..n]
  BY <1>2
<1> HIDE DEF f
<1>12. EventsInTurn(f, h, s, w)
  BY <1>9, <1>10 DEF EventsInTurn
<1> QED BY <1>1, <1>2, <1>11, <1>12

\* A session that is told again: each of the events is live.
LEMMA EachAgain ==
  ASSUME NEW h, NEW lg \in Logs, NEW fl \in Logs, workspaceBaselineKnown \in BOOLEAN,
         HubIsSound(h, lg, fl, workspaceBaselineKnown), NEW s \in Sessions, fl[s] > 0,
         NEW w \in Seq(Seqs), \A i \in 1..Len(w) : fl[s] <= w[i] /\ w[i] <= lg[s],
         NEW g, g = IngestedEach(h, s, w)
  PROVE  HubIsSound(g, lg, fl, workspaceBaselineKnown) /\ QuietFor(h, g, archivedSessions)
<1>1. h \in OrderedHubs
  BY DEF HubIsSound, OrderedHubs
<1>2. PICK f : EventsInTurn(f, h, s, w) /\ IngestedEach(h, s, w) = f[Len(w)]
  BY <1>1, EventsIngestedAll
<1>3. f[0] = h /\ \A m \in 1..Len(w) : f[m] = Ingested(f[m - 1], s, w[m])
  BY <1>2 DEF EventsInTurn
<1>4. Len(w) \in Nat
  BY LenProperties
<1> DEFINE Good == {m \in Nat : m <= Len(w) =>
                      /\ HubIsSound(f[m], lg, fl, workspaceBaselineKnown)
                      /\ QuietFor(h, f[m], archivedSessions)}
<1>5. 0 \in Good
  BY <1>3 DEF QuietFor
<1>6. ASSUME NEW m \in Nat, m \in Good PROVE m + 1 \in Good
  <2> SUFFICES ASSUME m + 1 <= Len(w)
               PROVE  /\ HubIsSound(f[m + 1], lg, fl, workspaceBaselineKnown)
                      /\ QuietFor(h, f[m + 1], archivedSessions)
    OBVIOUS
  <2>1. /\ HubIsSound(f[m], lg, fl, workspaceBaselineKnown)
        /\ QuietFor(h, f[m], archivedSessions)
    BY <1>4, <1>6
  <2> HIDE DEF Good
  <2>2. m + 1 \in 1..Len(w) /\ (m + 1) - 1 = m
    BY <1>4
  <2>3. f[m + 1] = Ingested(f[m], s, w[m + 1]) /\ w[m + 1] \in Seqs
    BY <1>3, <2>2, ElementOfSeq
  <2>4. fl[s] <= w[m + 1] /\ w[m + 1] <= lg[s]
    BY <2>2
  <2>5. Telling(<<s, w[m + 1]>>, lg, lg, fl, fl)
    BY <2>3, <2>4, TellingAgain
  <2>6. HubIsSound(f[m + 1], lg, fl, workspaceBaselineKnown)
    BY <2>1, <2>3, <2>5, IngestedKeeps
  <2>7. QuietFor(f[m], f[m + 1], archivedSessions)
    BY <2>1, <2>3, IngestedQuiet
  <2>8. QuietFor(h, f[m + 1], archivedSessions)
    BY <2>1, <2>7 DEF QuietFor
  <2> QED BY <2>6, <2>8
<1> HIDE DEF Good
<1>7. Len(w) \in Good
  BY <1>4, <1>5, <1>6, NumbersInductive
<1>8. /\ HubIsSound(f[Len(w)], lg, fl, workspaceBaselineKnown)
      /\ QuietFor(h, f[Len(w)], archivedSessions)
  BY <1>4, <1>7 DEF Good
<1> QED BY <1>2, <1>8

LEMMA EachOne ==
  ASSUME NEW h, NEW lg, NEW fl, NEW known, HubIsSound(h, lg, fl, known), NEW s \in Sessions,
         NEW w \in Seq(Seqs)
  PROVE  /\ Len(w) = 0 => IngestedEach(h, s, w) = h
         /\ Len(w) = 1 => IngestedEach(h, s, w) = Ingested(h, s, w[1])
<1>1. h \in OrderedHubs
  BY DEF HubIsSound, OrderedHubs
<1>2. PICK f : EventsInTurn(f, h, s, w) /\ IngestedEach(h, s, w) = f[Len(w)]
  BY <1>1, EventsIngestedAll
<1>3. f[0] = h /\ \A m \in 1..Len(w) : f[m] = Ingested(f[m - 1], s, w[m])
  BY <1>2 DEF EventsInTurn
<1>4. CASE Len(w) = 0
  BY <1>2, <1>3, <1>4
<1>5. CASE Len(w) = 1
  <2>1. 1 \in 1..Len(w) /\ 1 - 1 = 0
    BY <1>5
  <2>2. f[1] = Ingested(f[0], s, w[1])
    BY <1>3, <2>1
  <2> QED BY <1>2, <1>3, <1>5, <2>2
<1> QED BY <1>4, <1>5

LEMMA IntervalIs ==
  ASSUME NEW lo \in Nat, lo # 0, NEW hi \in Nat, hi <= MaxSeq, NEW w, w = Interval(lo, hi)
  PROVE  /\ w \in Seq(Seqs) /\ (lo = hi => Len(w) = 1)
         /\ \A i \in 1..Len(w) : w[i] = lo + i - 1 /\ lo <= w[i] /\ w[i] <= hi
<1>1. PICK n : n = IF lo <= hi THEN hi - lo + 1 ELSE 0
  OBVIOUS
<1>2. n \in Nat /\ hi \in Nat /\ MaxSeq \in Nat /\ hi <= MaxSeq
  BY <1>1, MobileEventsAssumption
<1>3. w = [i \in 1..n |-> lo + i - 1]
  BY <1>1 DEF Interval
<1>4. ASSUME NEW i \in 1..n PROVE w[i] = lo + i - 1 /\ lo <= w[i] /\ w[i] <= hi /\ w[i] \in 1..MaxSeq
  <2>1. w[i] = lo + i - 1 /\ i \in Nat /\ i >= 1 /\ i <= n
    BY <1>2, <1>3
  <2>2. lo <= hi /\ n = hi - lo + 1
    BY <1>1, <1>2, <2>1
  <2> QED BY <1>2, <2>1, <2>2
<1>5. w \in [1..n -> Seqs]
  <2>1. \A i \in 1..n : lo + i - 1 \in Seqs
    BY <1>3, <1>4 DEF Seqs
  <2> QED BY <1>3, <2>1
<1>6. w \in Seq(Seqs)
  BY <1>2, <1>5
<1>7. DOMAIN w = 1..n
  BY <1>3
<1>8. Len(w) = n
  BY <1>2, <1>6, <1>7, LenProperties
<1> QED BY <1>1, <1>4, <1>6, <1>8

-----------------------------------------------------------------------------
(* The steps that tell events.                                             *)

LEMMA AppendKeeps ==
  ASSUME EventsIInv, NEW s \in Sessions, AppendLive(s)
  PROVE  EventsIInv' /\ QuietFor(Hub, Hub', archivedSessions) /\ archivedSessions' = archivedSessions
<1>1. PICK q : q = log[s] + 1
  OBVIOUS
<1>2. PICK g : g = Ingested(Hub, s, q)
  OBVIOUS
<1>3. /\ firstLiveSeq[s] > 0 /\ log[s] < MaxSeq /\ log' = [log EXCEPT ![s] = q]
      /\ Becomes(g)
      /\ UNCHANGED <<firstLiveSeq, reading, reads, archivedSessions, workspaceBaselineKnown>>
  BY <1>1, <1>2 DEF AppendLive
<1>4. firstLiveSeq' = IF firstLiveSeq[s] > 0 THEN firstLiveSeq ELSE [firstLiveSeq EXCEPT ![s] = q]
  BY <1>3
<1> QED BY <1>1, <1>2, <1>3, <1>4, LiveKeeps

LEMMA CreatedKeeps ==
  ASSUME EventsIInv, NEW s \in Sessions, Created(s)
  PROVE  EventsIInv' /\ QuietFor(Hub, Hub', archivedSessions) /\ archivedSessions' = archivedSessions
<1>1. /\ ReadsFit /\ archivedSessions \in SUBSET Sessions /\ workspaceBaselineKnown \in BOOLEAN
      /\ HubIsSound(Hub, log, firstLiveSeq, workspaceBaselineKnown)
  BY DEF EventsIInv
<1>2. /\ log \in Logs /\ firstLiveSeq \in Logs
      /\ \A r \in Sessions : firstLiveSeq[r] <= log[r]
  BY <1>1 DEF ReadsFit
<1>3. /\ log[s] \in Nat /\ firstLiveSeq[s] \in Nat /\ MaxSeq \in Nat /\ log[s] \in 0..MaxSeq
      /\ firstLiveSeq[s] <= log[s]
  BY <1>2, MobileEventsAssumption DEF Logs
<1>4. PICK first : first = IF firstLiveSeq[s] > 0 THEN firstLiveSeq[s] ELSE log[s] + 1
  OBVIOUS
<1>5. PICK end : end = IF firstLiveSeq[s] > 0 THEN log[s] ELSE log[s] + 1
  OBVIOUS
<1>6. PICK start : start = IF watermark[s].source = "none" THEN first ELSE watermark[s].last + 1
  OBVIOUS
<1>7. PICK from : from = IF start > first THEN start ELSE first
  OBVIOUS
<1>8. PICK w : w = IF s \in archivedSessions THEN <<>> ELSE Interval(from, end)
  OBVIOUS
<1>9. PICK u : u = IF s \in archivedSessions /\ firstLiveSeq[s] = 0
                   THEN [Hub EXCEPT !.skipped[<<s, end>>] = "archived"] ELSE Hub
  OBVIOUS
<1>10. PICK g : g = IngestedEach(u, s, w)
  OBVIOUS
<1>11. /\ firstLiveSeq' = [firstLiveSeq EXCEPT ![s] = IF firstLiveSeq[s] > 0 THEN firstLiveSeq[s] ELSE log[s] + 1]
       /\ log' = [log EXCEPT ![s] = IF firstLiveSeq[s] > 0 THEN log[s] ELSE log[s] + 1]
       /\ firstLiveSeq[s] > 0 \/ log[s] < MaxSeq
       /\ UNCHANGED <<reading, reads, archivedSessions, workspaceBaselineKnown>>
  BY DEF Created
<1>12. firstLiveSeq'[s] = first /\ log'[s] = end
  BY <1>2, <1>4, <1>5, <1>11 DEF Logs
<1>13. Becomes(g)
  <2>1. \E h \in {IngestedEach(
            IF s \in archivedSessions /\ firstLiveSeq[s] = 0
            THEN [Hub EXCEPT !.skipped[<<s, log'[s]>>] = "archived"] ELSE Hub, s,
            IF s \in archivedSessions THEN <<>>
            ELSE Interval(IF (IF watermark[s].source = "none" THEN firstLiveSeq'[s]
                              ELSE watermark[s].last + 1) > firstLiveSeq'[s]
                          THEN (IF watermark[s].source = "none" THEN firstLiveSeq'[s]
                                ELSE watermark[s].last + 1) ELSE firstLiveSeq'[s], log'[s]))} : Becomes(h)
    BY DEF Created
  <2>2. \E h \in {IngestedEach(u, s, w)} : Becomes(h)
    BY <1>6, <1>7, <1>8, <1>9, <1>12, <2>1
  <2> QED BY <1>10, <2>2
<1>14. /\ watermark[s].last \in Nat /\ watermark[s].last <= log[s]
  <2>1. HubFits(Hub, log, firstLiveSeq) /\ Hub \in EventHubs
    BY <1>1 DEF HubIsSound
  <2>2. Hub.watermark[s].last <= log[s] /\ Hub.watermark[s] \in Marks
    BY <2>1, HubHas DEF HubFits
  <2> QED BY <2>2, HubFields DEF Marks
<1>15. first \in Nat \ {0} /\ from \in Nat \ {0} /\ first <= from
  BY <1>3, <1>4, <1>6, <1>7, <1>14
<1>16. CASE firstLiveSeq[s] > 0
  <2>1. u = Hub /\ end = log[s] /\ first = firstLiveSeq[s]
    BY <1>4, <1>5, <1>9, <1>16
  <2>2. w \in Seq(Seqs) /\ \A i \in 1..Len(w) : firstLiveSeq[s] <= w[i] /\ w[i] <= log[s]
    <3>1. CASE s \in archivedSessions
      <4>1. w = <<>>
        BY <1>8, <3>1
      <4>2. w \in Seq(Seqs) /\ Len(w) = 0
        BY <4>1
      <4> QED BY <4>2
    <3>2. CASE s \notin archivedSessions
      <4>1. w = Interval(from, log[s])
        BY <1>8, <2>1, <3>2
      <4>0. PICK hi \in Nat : hi = log[s]
        BY <1>3
      <4>a. hi <= MaxSeq /\ from \in Nat /\ from # 0 /\ w = Interval(from, hi)
        BY <1>3, <1>15, <4>0, <4>1
      <4>b. /\ w \in Seq(Seqs)
            /\ \A i \in 1..Len(w) : w[i] = from + i - 1 /\ from <= w[i] /\ w[i] <= hi
        BY <4>a, IntervalIs
      <4>2. w \in Seq(Seqs) /\ \A i \in 1..Len(w) : from <= w[i] /\ w[i] <= log[s]
        BY <4>0, <4>b
      <4>3. ASSUME NEW i \in 1..Len(w) PROVE firstLiveSeq[s] <= w[i] /\ w[i] <= log[s]
        <5>0. w[i] \in Seqs
          BY <4>2, ElementOfSeq
        <5>1. from <= w[i] /\ w[i] <= log[s] /\ w[i] \in Nat
          BY <4>2, <5>0 DEF Seqs
        <5> QED BY <1>3, <1>15, <2>1, <5>1
      <4> QED BY <4>2, <4>3
    <3> QED BY <3>1, <3>2
  <2>3. /\ HubIsSound(g, log, firstLiveSeq, workspaceBaselineKnown)
        /\ QuietFor(Hub, g, archivedSessions)
    BY <1>1, <1>2, <1>10, <1>16, <2>1, <2>2, EachAgain
  <2>4. log' = log /\ firstLiveSeq' = firstLiveSeq
    BY <1>2, <1>11, <1>16 DEF Logs
  <2>5. Hub' = g
    BY <1>13, <2>3, BecomesIs DEF HubIsSound
  <2>6. ReadsFit'
    BY <1>1, <1>11, <2>4 DEF ReadsFit, Logs
  <2>7. HubIsSound(Hub, log, firstLiveSeq, workspaceBaselineKnown)'
    BY <1>11, <2>3, <2>4, <2>5
  <2> QED BY <1>1, <1>11, <2>3, <2>5, <2>6, <2>7 DEF EventsIInv
<1>17. CASE ~(firstLiveSeq[s] > 0)
  <2>1. firstLiveSeq[s] = 0 /\ log[s] < MaxSeq
    BY <1>3, <1>11, <1>17
  <2>2. PICK q : q = log[s] + 1
    OBVIOUS
  <2>3. first = q /\ end = q /\ q \in 0..MaxSeq /\ q \in Nat \ {0}
    BY <1>3, <1>4, <1>5, <2>1, <2>2
  <2>4. /\ log' = [log EXCEPT ![s] = q]
        /\ firstLiveSeq' = IF firstLiveSeq[s] > 0 THEN firstLiveSeq ELSE [firstLiveSeq EXCEPT ![s] = q]
    BY <1>11, <1>17, <2>2
  <2>5. g = Ingested(Hub, s, q)
    <3>1. CASE s \in archivedSessions
      <4>1. w = <<>> /\ u = [Hub EXCEPT !.skipped[<<s, q>>] = "archived"]
        BY <1>8, <1>9, <2>1, <2>3, <3>1
      <4>2. u = Ingested(Hub, s, q)
        BY <3>1, <4>1 DEF Ingested, Applied
      <4>3. q \in Seqs
        BY <2>3 DEF Seqs
      <4>4. u \in OrderedHubs
        <5>1. Hub \in OrderedHubs
          BY <1>1 DEF HubIsSound, OrderedHubs
        <5> QED BY <4>2, <4>3, <5>1, IngestedOrdered
      <4>5. w \in Seq(Seqs) /\ Len(w) = 0
        BY <4>1
      <4>6. PICK f : EventsInTurn(f, u, s, w) /\ IngestedEach(u, s, w) = f[Len(w)]
        BY <4>4, <4>5, EventsIngestedAll
      <4>7. IngestedEach(u, s, w) = u
        BY <4>5, <4>6 DEF EventsInTurn
      <4> QED BY <1>10, <4>2, <4>7
    <3>2. CASE s \notin archivedSessions
      <4>1. u = Hub
        BY <1>9, <3>2
      <4>2. from = q
        BY <1>3, <1>6, <1>7, <1>14, <2>2, <2>3
      <4>3. w = Interval(q, q)
        BY <1>8, <2>3, <3>2, <4>2
      <4>4. w \in Seq(Seqs) /\ Len(w) = 1 /\ w[1] = q
        <5>0. q \in Nat /\ q # 0 /\ q <= MaxSeq
          BY <1>3, <2>3
        <5>a. PICK hi : hi = q
          OBVIOUS
        <5>b. hi \in Nat /\ hi <= MaxSeq /\ w = Interval(q, hi)
          BY <4>3, <5>0, <5>a
        <5>1. /\ w \in Seq(Seqs) /\ Len(w) = 1
              /\ \A i \in 1..Len(w) : w[i] = q + i - 1 /\ q <= w[i] /\ w[i] <= hi
          BY <5>0, <5>a, <5>b, IntervalIs
        <5>2. Len(w) = 1
          BY <2>3, <5>1, <5>a
        <5>3. w[1] = q + 1 - 1
          BY <5>1, <5>2
        <5> QED BY <2>3, <5>1, <5>2, <5>3
      <4>5. IngestedEach(Hub, s, w) = Ingested(Hub, s, w[1])
        BY <1>1, <4>4, EachOne
      <4> QED BY <1>10, <4>1, <4>4, <4>5
    <3> QED BY <3>1, <3>2
  <2> QED BY <1>11, <1>13, <2>1, <2>2, <2>4, <2>5, LiveKeeps
<1> QED BY <1>16, <1>17

LEMMA BaselineKeeps ==
  ASSUME EventsIInv, NEW archived \in SUBSET Sessions, WorkspaceBaseline(archived)
  PROVE  EventsIInv' /\ QuietFor(Hub, Hub', archivedSessions')
<1>1. /\ ReadsFit /\ archivedSessions \in SUBSET Sessions /\ workspaceBaselineKnown \in BOOLEAN
      /\ HubIsSound(Hub, log, firstLiveSeq, workspaceBaselineKnown)
  BY DEF EventsIInv
<1>2. log \in Logs /\ firstLiveSeq \in Logs
  BY <1>1 DEF ReadsFit
<1>3. PICK g : g = Flushed(Hub, archived)
  OBVIOUS
<1>4. /\ archivedSessions' = archived /\ workspaceBaselineKnown' = TRUE /\ Becomes(g)
      /\ UNCHANGED <<log, firstLiveSeq, reading, reads>>
  BY <1>3 DEF WorkspaceBaseline
<1>5. /\ HubIsSound(g, log, firstLiveSeq, TRUE)
      /\ \A p \in Phones : \A i \in g.stream[p].got \ Hub.stream[p].got : i[1] \notin archived
  <2>1. PICK h : h = Hub
    OBVIOUS
  <2>3. HubIsSound(h, log, firstLiveSeq, workspaceBaselineKnown) /\ g = Flushed(h, archived)
    BY <1>1, <1>3, <2>1
  <2>4. /\ HubIsSound(g, log, firstLiveSeq, TRUE)
        /\ \A p \in Phones : \A i \in g.stream[p].got \ h.stream[p].got : i[1] \notin archived
    BY <1>1, <1>2, <2>3, FlushKeeps
  <2> QED BY <2>1, <2>4
<1>6. Hub' = g
  BY <1>4, <1>5, BecomesIs DEF HubIsSound
<1>7. ReadsFit'
  BY <1>1, <1>4 DEF ReadsFit, Logs
<1>8. HubIsSound(Hub, log, firstLiveSeq, workspaceBaselineKnown)'
  BY <1>4, <1>5, <1>6
<1>9. QuietFor(Hub, Hub', archivedSessions')
  BY <1>4, <1>5, <1>6 DEF QuietFor
<1> QED BY <1>4, <1>7, <1>8, <1>9 DEF EventsIInv

-----------------------------------------------------------------------------
(* A history read.                                                         *)

LEMMA BroughtIs ==
  ASSUME NEW cache \in Caches, NEW lo \in Nat, lo # 0, NEW hi \in Nat, hi <= MaxSeq,
         NEW t, t = Brought(cache, lo, hi)
  PROVE  /\ t \in Caches
         /\ \A r : Contains(t, r) => Contains(cache, r) \/ r \in lo..hi
<1> DEFINE w == Interval(lo, hi)
           n == Len(w)
           V == {c \in Caches : \A r : Contains(c, r) => Contains(cache, r) \/ r \in lo..hi}
           step == [x \in V \X (1..n) |-> Remembered(x[1], w[x[2]])]
           iter == CHOOSE g : g = [T \in SUBSET (DOMAIN w) |->
                      IF T = {} THEN cache ELSE Remembered(g[T \ {Max(T)}], w[Max(T)])]
<1>1. Brought(cache, lo, hi) = iter[DOMAIN w]
  BY DEF Brought, FoldLeft, MapThenFoldSet
<1>2. /\ w \in Seq(Seqs) /\ \A i \in 1..n : w[i] \in lo..hi
  <2>1. /\ w \in Seq(Seqs) /\ \A i \in 1..n : w[i] = lo + i - 1 /\ lo <= w[i] /\ w[i] <= hi
    BY IntervalIs
  <2>2. ASSUME NEW i \in 1..n PROVE w[i] \in lo..hi
    <3>1. w[i] \in Seqs
      BY <2>1, ElementOfSeq
    <3>2. w[i] \in Nat
      BY <3>1 DEF Seqs
    <3>3. lo <= w[i] /\ w[i] <= hi
      BY <2>1
    <3> QED BY <3>2, <3>3
  <2> QED BY <2>1, <2>2
<1> HIDE DEF w
<1>3. n \in Nat /\ DOMAIN w = 1..n
  BY <1>2, LenProperties
<1>4. ASSUME NEW c \in V, NEW m \in 1..n PROVE Remembered(c, w[m]) \in V
  <2>1. PICK q \in Seqs : q = w[m]
    BY <1>2, ElementOfSeq
  <2>2. PICK k : k = Remembered(c, q)
    OBVIOUS
  <2>3. c \in Caches /\ \A r : Contains(c, r) => Contains(cache, r) \/ r \in lo..hi
    OBVIOUS
  <2>4. k \in Caches /\ \A r : Contains(k, r) => r = q \/ Contains(c, r)
    BY <2>2, <2>3, RememberedIs
  <2>5. q \in lo..hi
    BY <1>2, <2>1
  <2>6. \A r : Contains(k, r) => Contains(cache, r) \/ r \in lo..hi
    BY <2>3, <2>4, <2>5
  <2>7. k \in V
    BY <2>4, <2>6
  <2> QED BY <2>1, <2>2, <2>7
<1>5. cache \in V
  OBVIOUS
<1>a. ASSUME NEW c \in V PROVE c \in Caches /\ \A r : Contains(c, r) => Contains(cache, r) \/ r \in lo..hi
  OBVIOUS
<1> HIDE DEF V
<1>6. step \in [V \X (1..n) -> V]
  BY <1>4
<1>7. \A c \in V, m \in 1..n : step[<<c, m>>] = Remembered(c, w[m])
  OBVIOUS
<1> HIDE DEF step
<1>8. PICK g \in [SUBSET (1..n) -> V] : Folded(g, cache, step, n)
  BY <1>3, <1>5, <1>6, FoldExists DEF HasFold
<1>9. \A T \in SUBSET (1..n) : T # {} => Max(T) \in 1..n
  BY <1>3, LastIn
<1>10. g = [T \in SUBSET (1..n) |->
              IF T = {} THEN cache ELSE Remembered(g[T \ {Max(T)}], w[Max(T)])]
  <2> DEFINE e == [T \in SUBSET (1..n) |->
                     IF T = {} THEN cache ELSE Remembered(g[T \ {Max(T)}], w[Max(T)])]
  <2>1. ASSUME NEW T \in SUBSET (1..n) PROVE g[T] = e[T]
    <3>1. CASE T = {}
      BY <1>8, <3>1 DEF Folded
    <3>2. CASE T # {}
      <4>1. g[T] = step[<<g[T \ {Max(T)}], Max(T)>>]
        BY <1>8, <3>2 DEF Folded
      <4>2. T \ {Max(T)} \in SUBSET (1..n)
        OBVIOUS
      <4>3. g[T \ {Max(T)}] \in V /\ Max(T) \in 1..n
        BY <1>9, <3>2, <4>2
      <4>4. step[<<g[T \ {Max(T)}], Max(T)>>] = Remembered(g[T \ {Max(T)}], w[Max(T)])
        BY <1>7, <4>3
      <4> QED BY <3>2, <4>1, <4>4
    <3> QED BY <3>1, <3>2
  <2>2. g = e
    BY <2>1
  <2> QED BY <2>2
<1>11. iter = [T \in SUBSET (1..n) |->
                 IF T = {} THEN cache ELSE Remembered(iter[T \ {Max(T)}], w[Max(T)])]
  BY <1>3, <1>10
<1> HIDE DEF iter
<1> DEFINE Good == {m \in Nat : m <= n => iter[1..m] \in V}
<1>12. 0 \in Good
  <2>1. 1..0 = {}
    OBVIOUS
  <2>2. iter[1..0] = cache
    BY <1>3, <1>11, <2>1
  <2> QED BY <1>5, <2>2
<1>13. ASSUME NEW m \in Nat, m \in Good PROVE m + 1 \in Good
  <2> SUFFICES ASSUME m + 1 <= n PROVE iter[1..(m + 1)] \in V
    OBVIOUS
  <2>1. iter[1..m] \in V
    BY <1>3, <1>13
  <2> HIDE DEF Good
  <2>2. 1..(m + 1) \in SUBSET (1..(m + 1)) /\ m + 1 \in 1..(m + 1) /\ m + 1 \in 1..n
    BY <1>3
  <2>3. Max(1..(m + 1)) = m + 1
    BY <2>2, LastOf
  <2>4. (1..(m + 1)) \ {m + 1} = 1..m /\ 1..(m + 1) # {} /\ 1..(m + 1) \in SUBSET (1..n)
    BY <1>3
  <2>5. iter[1..(m + 1)] = Remembered(iter[1..m], w[m + 1])
    BY <1>11, <2>3, <2>4
  <2> QED BY <1>4, <2>1, <2>2, <2>5
<1> HIDE DEF Good
<1>14. n \in Good
  BY <1>3, <1>12, <1>13, NumbersInductive
<1>15. iter[1..n] \in V
  BY <1>3, <1>14 DEF Good
<1>16. t \in V
  BY <1>1, <1>3, <1>15
<1> QED BY <1>a, <1>16

LEMMA ReadEndsKeeps ==
  ASSUME EventsIInv, NEW s \in Sessions, NEW lo \in Seqs, NEW hi \in Seqs, NEW head,
         ReadEnds(s, lo, hi, head)
  PROVE  EventsIInv' /\ stream' = stream /\ archivedSessions' = archivedSessions
<1>1. /\ ReadsFit /\ archivedSessions \in SUBSET Sessions /\ workspaceBaselineKnown \in BOOLEAN
      /\ HubIsSound(Hub, log, firstLiveSeq, workspaceBaselineKnown)
  BY DEF EventsIInv
<1>2. /\ log \in Logs /\ firstLiveSeq \in Logs /\ reading \in Logs
      /\ \A r \in Sessions : firstLiveSeq[r] <= log[r] /\ reading[r] <= log[r]
  BY <1>1 DEF ReadsFit
<1>3. /\ Hub \in EventHubs /\ StreamsInOrder(Hub) /\ MarksTrue(Hub)
      /\ HubFits(Hub, log, firstLiveSeq) /\ ToldWhy(Hub) /\ NothingLost(Hub, log)
      /\ IF workspaceBaselineKnown THEN MarkKept(Hub, log, firstLiveSeq)
         ELSE StillWaits(Hub, log, firstLiveSeq)
  BY <1>1 DEF HubIsSound
<1>4. /\ events \in [Sessions -> Caches] /\ watermark \in [Sessions -> Marks]
      /\ stream \in [Phones -> Streams] /\ skipped \in [Item -> Reasons]
      /\ pendingGlobalEvents \in Waiting /\ globalBaselineRequired \in BOOLEAN
  BY <1>3, HubHas, HubFields
<1>5. PICK c : c = Brought(events[s], lo, hi)
  OBVIOUS
<1>6. PICK mark : mark = Marked(watermark[s], reading[s], "history")
  OBVIOUS
<1>7. PICK k : k = LeftToRead(s, lo, hi)
  OBVIOUS
<1>8. /\ reading[s] > 0 /\ lo <= hi /\ hi <= reading[s] /\ reading' = [reading EXCEPT ![s] = 0]
      /\ events' = [events EXCEPT ![s] = c]
      /\ watermark' = IF head THEN [watermark EXCEPT ![s] = mark] ELSE watermark
      /\ skipped' = k
      /\ UNCHANGED <<log, firstLiveSeq, reads, archivedSessions, workspaceBaselineKnown,
                     pendingGlobalEvents, globalBaselineRequired, stream>>
  BY <1>5, <1>6, <1>7 DEF ReadEnds
<1>9. /\ lo \in Nat /\ lo # 0 /\ hi \in Nat /\ hi <= MaxSeq /\ reading[s] \in Seqs
      /\ reading[s] \in Nat /\ log[s] \in Nat /\ reading[s] <= log[s]
  BY <1>2, <1>8, MobileEventsAssumption DEF Seqs, Logs
<1>10. c \in Caches /\ \A r : Contains(c, r) => Contains(events[s], r) \/ r \in lo..hi
  <2>1. events[s] \in Caches
    BY <1>4
  <2> QED BY <1>5, <1>9, <2>1, BroughtIs
<1>11. /\ events' \in [Sessions -> Caches]
       /\ \A r \in Sessions : \A e \in Seqs :
            Contains(events'[r], e) => Contains(events[r], e) \/ (r = s /\ e \in lo..hi)
  BY <1>4, <1>8, <1>10
<1>12. /\ mark \in Marks /\ mark.source # "none" /\ mark.last >= watermark[s].last
       /\ mark.last \in {watermark[s].last, reading[s]}
  <2>1. watermark[s] \in Marks /\ (watermark[s].source = "none" => watermark[s].last = 0)
    BY <1>3, <1>4, HubFields DEF MarksTrue
  <2> QED BY <1>6, <1>9, <2>1, MarkedIs
<1>13. \A r \in Sessions : watermark[r].last \in Nat /\ watermark[r].last <= log[r] /\ log[r] \in Nat
  <2>1. \A r \in Sessions : watermark[r].last <= log[r]
    BY <1>3, HubFields DEF HubFits
  <2> QED BY <1>2, <1>4, <2>1 DEF Marks, Logs
<1>14. /\ watermark' \in [Sessions -> Marks]
       /\ \A r \in Sessions :
            /\ watermark'[r].last >= watermark[r].last /\ watermark'[r].last <= log[r]
            /\ watermark'[r].source = "none" => watermark'[r].last = 0
  <2>0. \A r \in Sessions : watermark[r].source = "none" => watermark[r].last = 0
    BY <1>3, HubFields DEF MarksTrue
  <2>1. CASE head
    <3>1. watermark' = [watermark EXCEPT ![s] = mark]
      BY <1>8, <2>1
    <3>2. watermark' \in [Sessions -> Marks] /\ watermark'[s] = mark
          /\ \A r \in Sessions : r # s => watermark'[r] = watermark[r]
      BY <1>4, <1>12, <3>1
    <3>3. mark.last <= log[s]
      BY <1>9, <1>12, <1>13
    <3>4. ASSUME NEW r \in Sessions
          PROVE  /\ watermark'[r].last >= watermark[r].last /\ watermark'[r].last <= log[r]
                 /\ watermark'[r].source = "none" => watermark'[r].last = 0
      <4>1. CASE r = s
        BY <1>12, <3>2, <3>3, <4>1
      <4>2. CASE r # s
        BY <1>13, <2>0, <3>2, <4>2
      <4> QED BY <4>1, <4>2
    <3> QED BY <3>2, <3>4
  <2>2. CASE ~head
    <3>1. watermark' = watermark
      BY <1>8, <2>2
    <3> QED BY <1>4, <1>13, <2>0, <3>1
  <2> QED BY <2>1, <2>2
<1>15. /\ k \in [Item -> Reasons]
       /\ \A i \in Item : k[i] = IF i[1] = s /\ i[2] \in lo..hi /\ skipped[i] = "no"
                                    /\ ~Contains(events[s], i[2]) /\ Contains(pendingGlobalEvents, i)
                                 THEN "cached" ELSE skipped[i]
  BY <1>4, <1>7 DEF LeftToRead, Reasons
<1>16. PICK g : g = [events |-> events', watermark |-> watermark', stream |-> stream, skipped |-> k,
                     pending |-> pendingGlobalEvents, required |-> globalBaselineRequired]
  OBVIOUS
<1>17. Hub' = g
  BY <1>8, <1>16 DEF Hub
<1>18. /\ g.events = events' /\ g.watermark = watermark' /\ g.stream = stream /\ g.skipped = k
       /\ g.pending = pendingGlobalEvents /\ g.required = globalBaselineRequired
  BY <1>16
<1>19. g \in EventHubs
  BY <1>4, <1>11, <1>14, <1>15, <1>16 DEF EventHubs
<1>20. StreamsInOrder(g) /\ MarksTrue(g)
  BY <1>3, <1>14, <1>18, HubFields DEF StreamsInOrder, MarksTrue
<1>21. HubFits(g, log, firstLiveSeq)
  <2>1. ASSUME NEW r \in Sessions, NEW e \in Seqs, Contains(g.events[r], e) PROVE e <= log[r]
    <3>1. Contains(events[r], e) \/ (r = s /\ e \in lo..hi)
      BY <1>11, <1>18, <2>1
    <3>2. CASE Contains(events[r], e)
      BY <1>3, <3>2, HubFields DEF HubFits
    <3>3. CASE r = s /\ e \in lo..hi
      BY <1>8, <1>9, <3>3
    <3> QED BY <3>1, <3>2, <3>3
  <2>2. \A r \in Sessions : g.watermark[r].last <= log[r]
    BY <1>14, <1>18
  <2>3. \A i \in Item : Contains(g.pending, i) => IsLive(i, log, firstLiveSeq)
    BY <1>3, <1>18, HubFields DEF HubFits
  <2>4. \A p \in Phones : \A r \in Sessions : g.stream[p].from[r] <= log[r] /\ g.stream[p].last[r] <= log[r]
    BY <1>3, <1>18, HubFields DEF HubFits
  <2> QED BY <2>1, <2>2, <2>3, <2>4 DEF HubFits
<1>22. \A i \in Item : /\ k[i] = "no" => skipped[i] = "no"
                       /\ k[i] = "overflow" => skipped[i] = "overflow"
  BY <1>15
<1>23. ToldWhy(g)
  <2>1. \A i \in Item : g.skipped[i] = "overflow" => g.required
    BY <1>3, <1>18, <1>22, HubFields DEF ToldWhy
  <2>2. g.required => \A p \in Phones : Owing(g.stream[p]) => g.stream[p].told
    BY <1>3, <1>18, HubFields DEF ToldWhy
  <2> QED BY <2>1, <2>2 DEF ToldWhy
<1>24. NothingLost(g, log)
  <2>1. \A p \in Phones : Owing(stream[p]) => \A i \in OwedBy(stream[p], log) :
          i \in stream[p].got \/ Contains(pendingGlobalEvents, i) \/ skipped[i] # "no"
    BY <1>3, HubFields DEF NothingLost
  <2>2. \A p \in Phones : \A i \in OwedBy(stream[p], log) : i \in Item
    BY DEF OwedBy
  <2> QED BY <1>18, <1>22, <2>1, <2>2 DEF NothingLost
<1>25. ASSUME workspaceBaselineKnown PROVE MarkKept(g, log, firstLiveSeq)
  <2>1. MarkKept(Hub, log, firstLiveSeq)
    BY <1>3, <1>25
  <2>2. ASSUME NEW i \in Item, IsLive(i, log, firstLiveSeq), g.skipped[i] = "no"
        PROVE  i[2] <= g.watermark[i[1]].last
    <3>1. i[2] <= watermark[i[1]].last
      BY <1>18, <1>22, <2>1, <2>2, HubFields DEF MarkKept
    <3>2. i[1] \in Sessions /\ i[2] \in Nat
      BY ItemHas
    <3>3. watermark'[i[1]].last >= watermark[i[1]].last /\ watermark'[i[1]].last \in Nat
      BY <1>14, <3>2 DEF Marks
    <3> QED BY <1>13, <1>18, <3>1, <3>2, <3>3
  <2>3. g.pending = <<>>
    BY <1>18, <2>1, HubFields DEF MarkKept
  <2> QED BY <2>2, <2>3 DEF MarkKept
<1>26. ASSUME ~workspaceBaselineKnown PROVE StillWaits(g, log, firstLiveSeq)
  <2>1. StillWaits(Hub, log, firstLiveSeq)
    BY <1>3, <1>26
  <2>2. ASSUME NEW i \in Item, IsLive(i, log, firstLiveSeq), g.skipped[i] = "no"
        PROVE  Contains(g.pending, i)
    BY <1>18, <1>22, <2>1, <2>2, HubFields DEF StillWaits
  <2>3. ASSUME NEW i \in Item, Contains(g.pending, i), Contains(g.events[i[1]], i[2])
        PROVE  g.skipped[i] # "no"
    <3>0. i[1] \in Sessions /\ i[2] \in Seqs
      BY ItemHas
    <3>1. Contains(events[i[1]], i[2]) \/ (i[1] = s /\ i[2] \in lo..hi)
      BY <1>11, <1>18, <2>3, <3>0
    <3>2. CASE Contains(events[i[1]], i[2])
      <4>1. skipped[i] # "no"
        BY <1>18, <2>1, <2>3, <3>2, HubFields DEF StillWaits
      <4> QED BY <1>18, <1>22, <4>1
    <3>3. CASE ~Contains(events[i[1]], i[2]) /\ i[1] = s /\ i[2] \in lo..hi
      <4>1. Contains(pendingGlobalEvents, i)
        BY <1>18, <2>3
      <4>2. CASE skipped[i] = "no"
        <5>1. k[i] = "cached"
          BY <1>15, <3>3, <4>1, <4>2
        <5> QED BY <1>18, <5>1
      <4>3. CASE skipped[i] # "no"
        BY <1>18, <1>22, <4>3
      <4> QED BY <4>2, <4>3
    <3> QED BY <3>1, <3>2, <3>3
  <2>4. WaitsInOrder(g.pending, g.skipped)
    <3>1. \A j \in 1..Len(pendingGlobalEvents) : pendingGlobalEvents[j] \in Item
      BY <1>4, ElementOfSeq DEF Waiting
    <3>2. WaitsInOrder(pendingGlobalEvents, skipped)
      BY <2>1, HubFields DEF StillWaits
    <3>3. WaitsInOrder(pendingGlobalEvents, k)
      BY <1>22, <3>1, <3>2 DEF WaitsInOrder
    <3> QED BY <1>18, <3>3
  <2>5. \A p \in Phones : g.stream[p].on => \A r \in Sessions : g.stream[p].last[r] <= g.stream[p].from[r]
    BY <1>18, <2>1, HubFields DEF StillWaits
  <2> QED BY <2>2, <2>3, <2>4, <2>5 DEF StillWaits
<1>27. HubIsSound(g, log, firstLiveSeq, workspaceBaselineKnown)
  BY <1>19, <1>20, <1>21, <1>23, <1>24, <1>25, <1>26 DEF HubIsSound
<1>28. HubIsSound(Hub, log, firstLiveSeq, workspaceBaselineKnown)'
  BY <1>8, <1>17, <1>27
<1>29. ReadsFit'
  <2>1. 0 \in 0..MaxSeq
    BY MobileEventsAssumption
  <2>2. reading' \in Logs
    BY <1>2, <1>8, <2>1 DEF Logs
  <2>3. \A r \in Sessions : reading'[r] <= log[r]
    BY <1>2, <1>8, <1>9 DEF Logs
  <2> QED BY <1>1, <1>8, <2>2, <2>3 DEF ReadsFit, Logs
<1> QED BY <1>1, <1>8, <1>28, <1>29 DEF EventsIInv

-----------------------------------------------------------------------------
(* The steps of one phone.                                                 *)

\* What the stream t of a phone must be.
StreamFits(t) ==
  /\ t \in Streams /\ StreamInOrder(t)
  /\ \A s \in Sessions : t.from[s] <= log[s] /\ t.last[s] <= log[s]
  /\ globalBaselineRequired /\ Owing(t) => t.told
  /\ Owing(t) => \A i \in OwedBy(t, log) :
       i \in t.got \/ Contains(pendingGlobalEvents, i) \/ skipped[i] # "no"
  /\ ~workspaceBaselineKnown /\ t.on => \A s \in Sessions : t.last[s] <= t.from[s]

LEMMA StreamFitsNow ==
  ASSUME EventsIInv, NEW p \in Phones
  PROVE  StreamFits(stream[p])
<1>1. HubIsSound(Hub, log, firstLiveSeq, workspaceBaselineKnown)
  BY DEF EventsIInv
<1>2. /\ Hub \in EventHubs /\ StreamsInOrder(Hub)
      /\ HubFits(Hub, log, firstLiveSeq) /\ ToldWhy(Hub) /\ NothingLost(Hub, log)
      /\ IF workspaceBaselineKnown THEN MarkKept(Hub, log, firstLiveSeq)
         ELSE StillWaits(Hub, log, firstLiveSeq)
  BY <1>1 DEF HubIsSound
<1>3. stream[p] \in Streams /\ StreamInOrder(stream[p])
  BY <1>2, HubHas, HubFields DEF StreamsInOrder
<1>4. \A s \in Sessions : stream[p].from[s] <= log[s] /\ stream[p].last[s] <= log[s]
  BY <1>2, HubFields DEF HubFits
<1>5. globalBaselineRequired /\ Owing(stream[p]) => stream[p].told
  BY <1>2, HubFields DEF ToldWhy
<1>6. Owing(stream[p]) => \A i \in OwedBy(stream[p], log) :
        i \in stream[p].got \/ Contains(pendingGlobalEvents, i) \/ skipped[i] # "no"
  BY <1>2, HubFields DEF NothingLost
<1>7. ASSUME ~workspaceBaselineKnown, stream[p].on
      PROVE  \A s \in Sessions : stream[p].last[s] <= stream[p].from[s]
  <2>1. StillWaits(Hub, log, firstLiveSeq)
    BY <1>2, <1>7
  <2> QED BY <1>7, <2>1, HubFields DEF StillWaits
<1> QED BY <1>3, <1>4, <1>5, <1>6, <1>7 DEF StreamFits

LEMMA OneStreamMoves ==
  ASSUME EventsIInv, NEW p \in Phones, NEW t, StreamFits(t), stream' = [stream EXCEPT ![p] = t],
         UNCHANGED <<log, firstLiveSeq, reading, reads, events, watermark, archivedSessions,
                     workspaceBaselineKnown, pendingGlobalEvents, globalBaselineRequired, skipped>>
  PROVE  EventsIInv'
<1>1. /\ ReadsFit /\ archivedSessions \in SUBSET Sessions /\ workspaceBaselineKnown \in BOOLEAN
      /\ HubIsSound(Hub, log, firstLiveSeq, workspaceBaselineKnown)
  BY DEF EventsIInv
<1>2. /\ Hub \in EventHubs /\ StreamsInOrder(Hub) /\ MarksTrue(Hub)
      /\ HubFits(Hub, log, firstLiveSeq) /\ ToldWhy(Hub) /\ NothingLost(Hub, log)
      /\ IF workspaceBaselineKnown THEN MarkKept(Hub, log, firstLiveSeq)
         ELSE StillWaits(Hub, log, firstLiveSeq)
  BY <1>1 DEF HubIsSound
<1>3. /\ events \in [Sessions -> Caches] /\ watermark \in [Sessions -> Marks]
      /\ stream \in [Phones -> Streams] /\ skipped \in [Item -> Reasons]
      /\ pendingGlobalEvents \in Waiting /\ globalBaselineRequired \in BOOLEAN
  BY <1>2, HubHas, HubFields
<1>4. PICK a : a = [stream EXCEPT ![p] = t]
  OBVIOUS
<1>5. t \in Streams
  BY DEF StreamFits
<1>6. a \in [Phones -> Streams] /\ a[p] = t /\ \A r \in Phones : r # p => a[r] = stream[r]
  BY <1>3, <1>4, <1>5
<1>7. \A r \in Phones : StreamFits(a[r])
  BY <1>6, StreamFitsNow
<1>8. PICK g : g = [events |-> events, watermark |-> watermark, stream |-> a, skipped |-> skipped,
                    pending |-> pendingGlobalEvents, required |-> globalBaselineRequired]
  OBVIOUS
<1>9. Hub' = g
  BY <1>4, <1>8 DEF Hub
<1>10. /\ g.events = Hub.events /\ g.watermark = Hub.watermark /\ g.stream = a
       /\ g.skipped = Hub.skipped /\ g.pending = Hub.pending /\ g.required = Hub.required
  BY <1>8, HubFields
<1>11. g \in EventHubs
  BY <1>3, <1>6, <1>8 DEF EventHubs
<1>12. StreamsInOrder(g) /\ MarksTrue(g)
  <2>1. MarksTrue(g)
    BY <1>2, <1>10 DEF MarksTrue
  <2>2. \A r \in Phones : StreamInOrder(a[r])
    BY <1>7 DEF StreamFits
  <2> QED BY <1>10, <2>1, <2>2 DEF StreamsInOrder
<1>13. HubFits(g, log, firstLiveSeq)
  <2>1. \A r \in Phones : \A s \in Sessions : a[r].from[s] <= log[s] /\ a[r].last[s] <= log[s]
    BY <1>7 DEF StreamFits
  <2> QED BY <1>2, <1>10, <2>1 DEF HubFits
<1>14. ToldWhy(g)
  <2>1. \A r \in Phones : globalBaselineRequired /\ Owing(a[r]) => a[r].told
    BY <1>7 DEF StreamFits
  <2> QED BY <1>2, <1>10, <2>1, HubFields DEF ToldWhy
<1>15. NothingLost(g, log)
  <2>1. \A r \in Phones : Owing(a[r]) => \A i \in OwedBy(a[r], log) :
          i \in a[r].got \/ Contains(pendingGlobalEvents, i) \/ skipped[i] # "no"
    BY <1>7 DEF StreamFits
  <2> QED BY <1>10, <2>1, HubFields DEF NothingLost
<1>16. ASSUME workspaceBaselineKnown PROVE MarkKept(g, log, firstLiveSeq)
  BY <1>2, <1>10, <1>16 DEF MarkKept
<1>17. ASSUME ~workspaceBaselineKnown PROVE StillWaits(g, log, firstLiveSeq)
  <2>1. StillWaits(Hub, log, firstLiveSeq)
    BY <1>2, <1>17
  <2>2. \A r \in Phones : a[r].on => \A s \in Sessions : a[r].last[s] <= a[r].from[s]
    BY <1>7, <1>17 DEF StreamFits
  <2> QED BY <1>10, <2>1, <2>2 DEF StillWaits
<1>18. HubIsSound(g, log, firstLiveSeq, workspaceBaselineKnown)
  BY <1>11, <1>12, <1>13, <1>14, <1>15, <1>16, <1>17 DEF HubIsSound
<1>19. HubIsSound(Hub, log, firstLiveSeq, workspaceBaselineKnown)'
  BY <1>9, <1>18
<1>20. ReadsFit'
  BY <1>1 DEF ReadsFit, Logs
<1> QED BY <1>1, <1>19, <1>20 DEF EventsIInv

QueueMoved(st, on, rest, taken) == [st EXCEPT !.queue = rest, !.on = on, !.taken = taken]

LEMMA QueueMovedIs ==
  ASSUME NEW st \in Streams, NEW on, NEW rest, NEW taken
  PROVE  QueueMoved(st, on, rest, taken)
         = [on |-> on, done |-> st.done, scope |-> st.scope, since |-> st.since,
            queue |-> rest, last |-> st.last, opened |-> st.opened, from |-> st.from,
            got |-> st.got, told |-> st.told, taken |-> taken]
<1>1. PICK a : a = [st EXCEPT !.queue = rest]
  OBVIOUS
<1>2. a = [on |-> st.on, done |-> st.done, scope |-> st.scope, since |-> st.since,
            queue |-> rest, last |-> st.last, opened |-> st.opened, from |-> st.from,
            got |-> st.got, told |-> st.told, taken |-> st.taken]
  BY <1>1 DEF Streams
<1>3. PICK b : b = [a EXCEPT !.on = on]
  OBVIOUS
<1>4. b = [on |-> on, done |-> st.done, scope |-> st.scope, since |-> st.since,
            queue |-> rest, last |-> st.last, opened |-> st.opened, from |-> st.from,
            got |-> st.got, told |-> st.told, taken |-> st.taken]
  BY <1>2, <1>3
<1>5. [b EXCEPT !.taken = taken] = [on |-> on, done |-> st.done, scope |-> st.scope, since |-> st.since,
            queue |-> rest, last |-> st.last, opened |-> st.opened, from |-> st.from,
            got |-> st.got, told |-> st.told, taken |-> taken]
  BY <1>4
<1>6. [st EXCEPT !.queue = rest, !.on = on, !.taken = taken] = [b EXCEPT !.taken = taken]
  BY <1>1, <1>3
<1>7. QueueMoved(st, on, rest, taken) = [st EXCEPT !.queue = rest, !.on = on, !.taken = taken]
  BY DEF QueueMoved
<1> QED BY <1>5, <1>6, <1>7

LEMMA TakeEventKeeps ==
  ASSUME EventsIInv, NEW p \in Phones, TakeQueued(p)
  PROVE  EventsIInv' /\ archivedSessions' = archivedSessions
         /\ \A r \in Phones : stream'[r].got = stream[r].got
<1>1. PICK st : st = stream[p]
  OBVIOUS
<1>2. StreamFits(st)
  BY <1>1, StreamFitsNow
<1>3. /\ st \in Streams /\ StreamInOrder(st)
      /\ \A s \in Sessions : st.from[s] <= log[s] /\ st.last[s] <= log[s]
      /\ globalBaselineRequired /\ Owing(st) => st.told
      /\ Owing(st) => \A i \in OwedBy(st, log) :
           i \in st.got \/ Contains(pendingGlobalEvents, i) \/ skipped[i] # "no"
      /\ ~workspaceBaselineKnown /\ st.on => \A s \in Sessions : st.last[s] <= st.from[s]
  BY <1>2 DEF StreamFits
<1>4. PICK w : w = st.queue
  OBVIOUS
<1>5. PICK e : e = Head(w)
  OBVIOUS
<1>6. PICK taken : taken = IF e \in Item THEN [st.taken EXCEPT ![e[1]] = e[2]] ELSE st.taken
  OBVIOUS
<1>7. PICK rest : rest = Tail(w)
  OBVIOUS
<1>8. PICK on : on = (e # Overflow)
  OBVIOUS
<1>9. PICK t : t = [on |-> on, done |-> st.done, scope |-> st.scope, since |-> st.since,
                    queue |-> rest, last |-> st.last, opened |-> st.opened, from |-> st.from,
                    got |-> st.got, told |-> st.told, taken |-> taken]
  OBVIOUS
<1>10. /\ st.on /\ w # <<>>
       /\ UNCHANGED <<log, firstLiveSeq, reading, reads, events, watermark, archivedSessions,
                      workspaceBaselineKnown, pendingGlobalEvents, globalBaselineRequired, skipped>>
  BY <1>1, <1>4 DEF TakeQueued
<1>11. stream \in [Phones -> Streams]
  BY HubHas, HubFields DEF EventsIInv, HubIsSound
<1>12. stream' = [stream EXCEPT ![p] = t]
  <2>1. stream' = [stream EXCEPT ![p] = Taken(st)]
    BY <1>1 DEF TakeQueued
  <2>2. Taken(st) = QueueMoved(st, on, rest, taken)
    BY <1>4, <1>5, <1>6, <1>7, <1>8 DEF Taken, QueueMoved
  <2>3. QueueMoved(st, on, rest, taken)
          = [on |-> on, done |-> st.done, scope |-> st.scope, since |-> st.since,
             queue |-> rest, last |-> st.last, opened |-> st.opened, from |-> st.from,
             got |-> st.got, told |-> st.told, taken |-> taken]
    BY <1>3, QueueMovedIs
  <2> QED BY <1>9, <2>1, <2>2, <2>3
<1>13. /\ st.queue \in Queues /\ st.last \in [Sessions -> 0..MaxSeq] /\ st.taken \in [Sessions -> 0..MaxSeq]
  BY <1>3, StreamHas
<1>14. /\ w \in Seq(Item \cup {Overflow, BaselineRequired}) /\ Len(w) <= MaxSubscriberQueue
  BY <1>4, <1>13 DEF Queues
<1>15. PICK n : n = Len(w)
  OBVIOUS
<1>16. /\ n \in Nat /\ n # 0 /\ e = w[1] /\ 1 \in 1..n
  BY <1>5, <1>10, <1>14, <1>15, EmptySeq
<1>17. /\ rest \in Seq(Item \cup {Overflow, BaselineRequired}) /\ Len(rest) = n - 1
       /\ \A i \in 1..Len(rest) : rest[i] = w[i + 1]
  BY <1>7, <1>10, <1>14, <1>15, HeadTailProperties
<1>18. rest \in Queues
  <2>1. Len(rest) <= MaxSubscriberQueue
    BY <1>14, <1>15, <1>16, <1>17, MobileEventsAssumption
  <2> QED BY <1>17, <2>1 DEF Queues
<1>19. /\ \A s \in Sessions : st.taken[s] <= st.last[s]
       /\ \A j \in 1..n : w[j] \in Item =>
            /\ st.taken[w[j][1]] < w[j][2] /\ w[j][2] <= st.last[w[j][1]]
            /\ \A k \in 1..(j - 1) : w[k][1] = w[j][1] => w[k][2] < w[j][2]
  BY <1>3, <1>4, <1>15 DEF StreamInOrder, QueueInOrder
<1>20. /\ taken \in [Sessions -> 0..MaxSeq]
       /\ \A s \in Sessions : taken[s] = IF e \in Item /\ e[1] = s THEN e[2] ELSE st.taken[s]
  <2>1. CASE e \in Item
    <3>1. e[1] \in Sessions /\ e[2] \in 0..MaxSeq
      BY <2>1, ItemHas DEF Seqs
    <3> QED BY <1>6, <1>13, <2>1, <3>1
  <2>2. CASE e \notin Item
    BY <1>6, <1>13, <2>2
  <2> QED BY <2>1, <2>2
<1>21. \A s \in Sessions : taken[s] <= st.last[s]
  BY <1>16, <1>19, <1>20
<1>22. ASSUME NEW j \in 1..Len(rest), rest[j] \in Item
       PROVE  /\ taken[rest[j][1]] < rest[j][2] /\ rest[j][2] <= st.last[rest[j][1]]
              /\ \A k \in 1..(j - 1) : rest[k][1] = rest[j][1] => rest[k][2] < rest[j][2]
  <2>1. /\ j + 1 \in 1..n /\ rest[j] = w[j + 1] /\ 1 \in 1..((j + 1) - 1)
    BY <1>16, <1>17
  <2>2. /\ st.taken[w[j + 1][1]] < w[j + 1][2] /\ w[j + 1][2] <= st.last[w[j + 1][1]]
        /\ \A k \in 1..((j + 1) - 1) : w[k][1] = w[j + 1][1] => w[k][2] < w[j + 1][2]
    BY <1>19, <1>22, <2>1
  <2>3. rest[j][1] \in Sessions
    BY <1>22, ItemHas
  <2>4. taken[rest[j][1]] < rest[j][2]
    <3>1. CASE e \in Item /\ e[1] = rest[j][1]
      <4>1. w[1][2] < w[j + 1][2]
        BY <1>16, <2>1, <2>2, <3>1
      <4> QED BY <1>16, <1>20, <2>1, <2>3, <3>1, <4>1
    <3>2. CASE ~(e \in Item /\ e[1] = rest[j][1])
      BY <1>20, <2>1, <2>2, <2>3, <3>2
    <3> QED BY <3>1, <3>2
  <2>5. ASSUME NEW k \in 1..(j - 1), rest[k][1] = rest[j][1] PROVE rest[k][2] < rest[j][2]
    <3>1. k \in 1..Len(rest) /\ k + 1 \in 1..((j + 1) - 1)
      BY <1>16, <1>17
    <3>2. rest[k] = w[k + 1]
      BY <1>17, <3>1
    <3> QED BY <2>1, <2>2, <2>5, <3>1, <3>2
  <2> QED BY <2>1, <2>2, <2>4, <2>5
<1>23. QueueInOrder(rest, st.last, taken)
  BY <1>21, <1>22 DEF QueueInOrder
<1>24. /\ t.on = on /\ t.done = st.done /\ t.scope = st.scope /\ t.since = st.since
       /\ t.queue = rest /\ t.last = st.last /\ t.opened = st.opened /\ t.from = st.from
       /\ t.got = st.got /\ t.told = st.told /\ t.taken = taken
  BY <1>9
<1>25. on \in BOOLEAN
  BY <1>8
<1>26. t \in Streams
  BY <1>3, <1>9, <1>18, <1>20, <1>25, StreamHas DEF Streams
<1>27. StreamInOrder(t)
  BY <1>23, <1>24 DEF StreamInOrder
<1>28. Owing(t) => Owing(st)
  BY <1>10, <1>24 DEF Owing
<1>29. OwedBy(t, log) = OwedBy(st, log)
  BY <1>24 DEF OwedBy
<1>30. StreamFits(t)
  BY <1>3, <1>10, <1>24, <1>26, <1>27, <1>28, <1>29 DEF StreamFits
<1>31. EventsIInv'
  BY <1>10, <1>12, <1>30, OneStreamMoves
<1>32. \A r \in Phones : stream'[r].got = stream[r].got
  BY <1>1, <1>11, <1>12, <1>24
<1> QED BY <1>10, <1>31, <1>32

Unopened(n) == [NoStream EXCEPT !.opened = n]

LEMMA NoStreamIs ==
  ASSUME NEW n \in Nat, n <= MaxStreams, NEW t, t = Unopened(n)
  PROVE  /\ t \in Streams /\ StreamInOrder(t) /\ ~t.on /\ t.got = {} /\ t.opened = n
         /\ \A s \in Sessions : t.from[s] = 0 /\ t.last[s] = 0
<1>1. t = [on |-> FALSE, done |-> TRUE, scope |-> AnySession, since |-> 0, queue |-> <<>>,
           last |-> [s \in Sessions |-> 0], opened |-> n, from |-> [s \in Sessions |-> 0],
           got |-> {}, told |-> FALSE, taken |-> [s \in Sessions |-> 0]]
  BY DEF NoStream, Unopened
<1>2. 0 \in 0..MaxSeq
  BY MobileEventsAssumption
<1>3. <<>> \in Queues
  <2>1. <<>> \in Seq(Item \cup {Overflow, BaselineRequired}) /\ Len(<<>>) = 0 /\ 0 <= MaxSubscriberQueue
    BY MobileEventsAssumption
  <2> QED BY <2>1 DEF Queues
<1>4. t \in Streams
  <2>1. PICK z : z = [s \in Sessions |-> 0]
    OBVIOUS
  <2>2. z \in [Sessions -> 0..MaxSeq]
    BY <1>2, <2>1
  <2>3. t = [on |-> FALSE, done |-> TRUE, scope |-> AnySession, since |-> 0, queue |-> <<>>,
             last |-> z, opened |-> n, from |-> z, got |-> {}, told |-> FALSE, taken |-> z]
    BY <1>1, <2>1
  <2>4. n \in 0..MaxStreams
    BY MobileEventsAssumption
  <2>5. PICK none \in SUBSET Item : none = {}
    OBVIOUS
  <2>6. PICK w \in Queues : w = <<>>
    BY <1>3
  <2>7. AnySession \in Sessions \cup {AnySession}
    OBVIOUS
  <2>8. [on |-> FALSE, done |-> TRUE, scope |-> AnySession, since |-> 0, queue |-> w,
         last |-> z, opened |-> n, from |-> z, got |-> none, told |-> FALSE, taken |-> z] \in Streams
    BY <1>2, <2>2, <2>4, <2>7 DEF Streams
  <2> QED BY <2>3, <2>5, <2>6, <2>8
<1>5. /\ ~t.on /\ t.got = {} /\ t.opened = n /\ t.queue = <<>>
      /\ t.last = [s \in Sessions |-> 0] /\ t.from = [s \in Sessions |-> 0]
      /\ t.taken = [s \in Sessions |-> 0]
  BY <1>1
<1>6. StreamInOrder(t)
  <2>1. Len(<<>>) = 0 /\ 1..0 = {}
    OBVIOUS
  <2>2. \A s \in Sessions : t.taken[s] <= t.last[s]
    BY <1>5
  <2> QED BY <1>5, <2>1, <2>2 DEF StreamInOrder, QueueInOrder
<1> QED BY <1>4, <1>5, <1>6

LEMMA CloseStreamKeeps ==
  ASSUME EventsIInv, NEW p \in Phones, CloseSubscriber(p)
  PROVE  EventsIInv' /\ archivedSessions' = archivedSessions
         /\ \A r \in Phones : stream'[r].got \subseteq stream[r].got
<1>1. /\ stream' = [stream EXCEPT ![p] = [NoStream EXCEPT !.opened = stream[p].opened]]
      /\ UNCHANGED <<log, firstLiveSeq, reading, reads, events, watermark, archivedSessions,
                     workspaceBaselineKnown, pendingGlobalEvents, globalBaselineRequired, skipped>>
  BY DEF CloseSubscriber
<1>2. stream \in [Phones -> Streams] /\ log \in Logs
  BY HubHas, HubFields DEF EventsIInv, HubIsSound, ReadsFit
<1>a. stream[p].opened \in 0..MaxStreams
  BY <1>2, StreamHas
<1>3. PICK n \in Nat : n = stream[p].opened /\ n <= MaxStreams
  BY <1>a, MobileEventsAssumption
<1>4. PICK t : t = Unopened(n)
  OBVIOUS
<1>5. /\ t \in Streams /\ StreamInOrder(t) /\ ~t.on /\ t.got = {} /\ t.opened = n
      /\ \A s \in Sessions : t.from[s] = 0 /\ t.last[s] = 0
  BY <1>3, <1>4, NoStreamIs
<1>6. \A s \in Sessions : t.from[s] <= log[s] /\ t.last[s] <= log[s]
  BY <1>2, <1>5 DEF Logs
<1>7. StreamFits(t)
  BY <1>5, <1>6 DEF StreamFits, Owing
<1>8. stream' = [stream EXCEPT ![p] = t]
  BY <1>1, <1>3, <1>4 DEF Unopened
<1>9. EventsIInv'
  BY <1>1, <1>7, <1>8, OneStreamMoves
<1>10. \A r \in Phones : stream'[r].got \subseteq stream[r].got
  BY <1>2, <1>5, <1>8
<1> QED BY <1>1, <1>9, <1>10

\* The replay that a new stream begins with.
ReplayedNext(t, scope, replayed, q) == IF q \in replayed THEN Enqueued(t, scope, q) ELSE t

LEMMA WithReplayIs ==
  ASSUME NEW st \in Streams, StreamInOrder(st), NEW scope, NEW replayed \in SUBSET Seqs,
         replayed # {} => scope \in Sessions, NEW lg, \A s \in Sessions : st.last[s] <= lg[s],
         \A q \in replayed : q <= lg[scope], NEW t, t = WithReplay(st, scope, replayed)
  PROVE  /\ t \in Streams /\ StreamInOrder(t) /\ SameReader(st, t)
         /\ \A s \in Sessions : t.last[s] <= lg[s]
<1> DEFINE w == Interval(1, MaxSeq)
           n == Len(w)
           V == {z \in Streams : /\ StreamInOrder(z) /\ SameReader(st, z)
                                 /\ \A s \in Sessions : z.last[s] <= lg[s]}
           step == [x \in V \X (1..n) |-> ReplayedNext(x[1], scope, replayed, w[x[2]])]
           iter == CHOOSE g : g = [T \in SUBSET (DOMAIN w) |->
                      IF T = {} THEN st ELSE ReplayedNext(g[T \ {Max(T)}], scope, replayed, w[Max(T)])]
<1>1. WithReplay(st, scope, replayed) = iter[DOMAIN w]
  BY DEF WithReplay, ReplayedNext, FoldLeft, MapThenFoldSet
<1>2. w \in Seq(Seqs)
  <2>1. PICK lo : lo = 1
    OBVIOUS
  <2>2. lo \in Nat /\ lo # 0 /\ MaxSeq \in Nat /\ MaxSeq <= MaxSeq /\ w = Interval(lo, MaxSeq)
    BY <2>1, MobileEventsAssumption
  <2> HIDE DEF w
  <2> QED BY <2>2, IntervalIs
<1> HIDE DEF w
<1>3. n \in Nat /\ DOMAIN w = 1..n
  BY <1>2, LenProperties
<1>4. ASSUME NEW z \in V, NEW m \in 1..n PROVE ReplayedNext(z, scope, replayed, w[m]) \in V
  <2>1. PICK q \in Seqs : q = w[m]
    BY <1>2, ElementOfSeq
  <2>2. z \in Streams /\ StreamInOrder(z) /\ SameReader(st, z) /\ \A s \in Sessions : z.last[s] <= lg[s]
    OBVIOUS
  <2>3. CASE q \in replayed
    <3>1. PICK k : k = Enqueued(z, scope, q)
      OBVIOUS
    <3>2. scope \in Sessions /\ q <= lg[scope]
      BY <2>3
    <3>a. PICK one \in Sessions : one = scope
      BY <3>2
    <3>b. k = Enqueued(z, one, q)
      BY <3>1, <3>a
    <3>3. /\ k \in Streams /\ SameReader(z, k) /\ StreamInOrder(k)
          /\ \A r \in Sessions : k.last[r] = z.last[r] \/ (r = scope /\ k.last[r] = q)
      <4> HIDE DEF V
      <4>1. /\ k \in Streams /\ SameReader(z, k) /\ StreamInOrder(k)
            /\ k.got \subseteq z.got \cup {<<one, q>>}
            /\ \A r \in Sessions : k.last[r] = z.last[r] \/ (r = one /\ k.last[r] = q)
            /\ ~k.done /\ q > z.last[one] /\ q > z.since => <<one, q>> \in k.got
            /\ k.told = z.told
        BY <2>2, <3>b, EnqueuedIs
      <4> QED BY <3>a, <4>1
    <3>4. SameReader(st, k)
      BY <2>2, <3>3, SameReaderTwice
    <3>5. \A s \in Sessions : k.last[s] <= lg[s]
      BY <2>2, <3>2, <3>3
    <3>6. k \in V
      BY <3>3, <3>4, <3>5
    <3>7. ReplayedNext(z, scope, replayed, w[m]) = k
      BY <2>1, <2>3, <3>1 DEF ReplayedNext
    <3> QED BY <3>6, <3>7
  <2>4. CASE q \notin replayed
    <3>1. ReplayedNext(z, scope, replayed, w[m]) = z
      BY <2>1, <2>4 DEF ReplayedNext
    <3> QED BY <3>1
  <2> QED BY <2>3, <2>4
<1>5. st \in V
  <2>1. SameReader(st, st)
    BY DEF SameReader
  <2> QED BY <2>1
<1>a. ASSUME NEW z \in V
      PROVE  /\ z \in Streams /\ StreamInOrder(z) /\ SameReader(st, z)
             /\ \A s \in Sessions : z.last[s] <= lg[s]
  OBVIOUS
<1> HIDE DEF V
<1>6. step \in [V \X (1..n) -> V]
  BY <1>4
<1>7. \A z \in V, m \in 1..n : step[<<z, m>>] = ReplayedNext(z, scope, replayed, w[m])
  OBVIOUS
<1> HIDE DEF step
<1>8. PICK g \in [SUBSET (1..n) -> V] : Folded(g, st, step, n)
  BY <1>3, <1>5, <1>6, FoldExists DEF HasFold
<1>9. \A T \in SUBSET (1..n) : T # {} => Max(T) \in 1..n
  BY <1>3, LastIn
<1>10. g = [T \in SUBSET (1..n) |->
              IF T = {} THEN st ELSE ReplayedNext(g[T \ {Max(T)}], scope, replayed, w[Max(T)])]
  <2> DEFINE e == [T \in SUBSET (1..n) |->
                     IF T = {} THEN st ELSE ReplayedNext(g[T \ {Max(T)}], scope, replayed, w[Max(T)])]
  <2>1. ASSUME NEW T \in SUBSET (1..n) PROVE g[T] = e[T]
    <3>1. CASE T = {}
      BY <1>8, <3>1 DEF Folded
    <3>2. CASE T # {}
      <4>1. g[T] = step[<<g[T \ {Max(T)}], Max(T)>>]
        BY <1>8, <3>2 DEF Folded
      <4>2. T \ {Max(T)} \in SUBSET (1..n)
        OBVIOUS
      <4>3. g[T \ {Max(T)}] \in V /\ Max(T) \in 1..n
        BY <1>9, <3>2, <4>2
      <4>4. step[<<g[T \ {Max(T)}], Max(T)>>] = ReplayedNext(g[T \ {Max(T)}], scope, replayed, w[Max(T)])
        BY <1>7, <4>3
      <4> QED BY <3>2, <4>1, <4>4
    <3> QED BY <3>1, <3>2
  <2>2. g = e
    BY <2>1
  <2> QED BY <2>2
<1>11. iter = [T \in SUBSET (1..n) |->
                 IF T = {} THEN st ELSE ReplayedNext(iter[T \ {Max(T)}], scope, replayed, w[Max(T)])]
  BY <1>3, <1>10
<1> HIDE DEF iter
<1> DEFINE Good == {m \in Nat : m <= n => iter[1..m] \in V}
<1>12. 0 \in Good
  <2>1. 1..0 = {}
    OBVIOUS
  <2>2. iter[1..0] = st
    BY <1>3, <1>11, <2>1
  <2> QED BY <1>5, <2>2
<1>13. ASSUME NEW m \in Nat, m \in Good PROVE m + 1 \in Good
  <2> SUFFICES ASSUME m + 1 <= n PROVE iter[1..(m + 1)] \in V
    OBVIOUS
  <2>1. iter[1..m] \in V
    BY <1>3, <1>13
  <2> HIDE DEF Good
  <2>2. 1..(m + 1) \in SUBSET (1..(m + 1)) /\ m + 1 \in 1..(m + 1) /\ m + 1 \in 1..n
    BY <1>3
  <2>3. Max(1..(m + 1)) = m + 1
    BY <2>2, LastOf
  <2>4. (1..(m + 1)) \ {m + 1} = 1..m /\ 1..(m + 1) # {} /\ 1..(m + 1) \in SUBSET (1..n)
    BY <1>3
  <2>5. iter[1..(m + 1)] = ReplayedNext(iter[1..m], scope, replayed, w[m + 1])
    BY <1>11, <2>3, <2>4
  <2> QED BY <1>4, <2>1, <2>2, <2>5
<1> HIDE DEF Good
<1>14. n \in Good
  BY <1>3, <1>12, <1>13, NumbersInductive
<1>15. iter[1..n] \in V
  BY <1>3, <1>14 DEF Good
<1>16. t \in V
  BY <1>1, <1>3, <1>15
<1> QED BY <1>a, <1>16

LEMMA SubscribeKeeps ==
  ASSUME EventsIInv, NEW p \in Phones, NEW scope \in Sessions \cup {AnySession},
         NEW since \in 0..MaxSeq, Subscribe(p, scope, since)
  PROVE  EventsIInv' /\ archivedSessions' = archivedSessions
         /\ stream'[p].opened # stream[p].opened
         /\ \A r \in Phones : r # p => stream'[r] = stream[r]
<1>1. /\ ReadsFit /\ HubIsSound(Hub, log, firstLiveSeq, workspaceBaselineKnown)
  BY DEF EventsIInv
<1>2. /\ Hub \in EventHubs /\ HubFits(Hub, log, firstLiveSeq) /\ log \in Logs
  BY <1>1 DEF HubIsSound, ReadsFit
<1>3. stream \in [Phones -> Streams] /\ events \in [Sessions -> Caches] /\ globalBaselineRequired \in BOOLEAN
  BY <1>2, HubHas, HubFields
<1>4. PICK n : n = stream[p].opened
  OBVIOUS
<1>5. PICK new : new = [NoStream EXCEPT !.on = TRUE, !.done = FALSE, !.scope = scope, !.since = since,
                                         !.from = log, !.opened = n + 1]
  OBVIOUS
<1>6. PICK told : told = IF globalBaselineRequired THEN Control(new, BaselineRequired) ELSE new
  OBVIOUS
<1>7. PICK t : t = WithReplay(told, scope, Replayed(scope))
  OBVIOUS
<1>8. /\ n < MaxStreams /\ stream' = [stream EXCEPT ![p] = t]
      /\ UNCHANGED <<log, firstLiveSeq, reading, reads, events, watermark, archivedSessions,
                     workspaceBaselineKnown, pendingGlobalEvents, globalBaselineRequired, skipped>>
  BY <1>4, <1>5, <1>6, <1>7 DEF Subscribe
<1>9. n \in Nat /\ n + 1 \in 0..MaxStreams /\ n + 1 # n
  <2>1. n \in 0..MaxStreams
    BY <1>3, <1>4, StreamHas
  <2> QED BY <1>8, <2>1, MobileEventsAssumption
<1>10. PICK z : z = [s \in Sessions |-> 0]
  OBVIOUS
<1>11. z \in [Sessions -> 0..MaxSeq] /\ \A s \in Sessions : z[s] = 0
  <2>1. 0 \in 0..MaxSeq
    BY MobileEventsAssumption
  <2> QED BY <1>10, <2>1
<1>12. new = [on |-> TRUE, done |-> FALSE, scope |-> scope, since |-> since, queue |-> <<>>,
              last |-> z, opened |-> n + 1, from |-> log, got |-> {}, told |-> FALSE, taken |-> z]
  BY <1>5, <1>10 DEF NoStream
<1>13. PICK queue : queue = <<>>
  OBVIOUS
<1>14. queue \in Queues /\ Len(queue) = 0
  <2>1. <<>> \in Seq(Item \cup {Overflow, BaselineRequired}) /\ Len(<<>>) = 0 /\ 0 <= MaxSubscriberQueue
    BY MobileEventsAssumption
  <2> QED BY <1>13, <2>1 DEF Queues
<1>15. new \in Streams
  <2>1. PICK none \in SUBSET Item : none = {}
    OBVIOUS
  <2>2. log \in [Sessions -> 0..MaxSeq]
    BY <1>2 DEF Logs
  <2>3. [on |-> TRUE, done |-> FALSE, scope |-> scope, since |-> since, queue |-> queue, last |-> z,
         opened |-> n + 1, from |-> log, got |-> none, told |-> FALSE, taken |-> z] \in Streams
    BY <1>9, <1>11, <1>14, <2>2 DEF Streams
  <2> QED BY <1>12, <1>13, <2>1, <2>3
<1>16. /\ new.on /\ ~new.done /\ new.queue = queue /\ new.last = z /\ new.from = log /\ new.opened = n + 1
       /\ new.taken = z
  BY <1>12, <1>13
<1>17. StreamInOrder(new)
  <2>1. 1..Len(queue) = {}
    BY <1>14
  <2>2. \A s \in Sessions : z[s] <= z[s]
    BY <1>11
  <2>3. QueueInOrder(queue, z, z)
    BY <2>1, <2>2 DEF QueueInOrder
  <2> QED BY <1>16, <2>3 DEF StreamInOrder
<1>18. /\ told \in Streams /\ SameReader(new, told) /\ StreamInOrder(told) /\ told.last = new.last
       /\ globalBaselineRequired => told.done \/ told.told
  <2>1. CASE globalBaselineRequired
    <3>1. told = Control(new, BaselineRequired)
      BY <1>6, <2>1
    <3> QED BY <1>15, <1>17, <3>1, ControlIs
  <2>2. CASE ~globalBaselineRequired
    <3>1. told = new
      BY <1>6, <2>2
    <3>2. SameReader(new, told)
      BY <3>1 DEF SameReader
    <3> QED BY <1>15, <1>17, <2>2, <3>1, <3>2
  <2> QED BY <2>1, <2>2
<1>19. PICK replayed : replayed = Replayed(scope)
  OBVIOUS
<1>20. /\ replayed \in SUBSET Seqs /\ (replayed # {} => scope \in Sessions)
       /\ \A q \in replayed : q <= log[scope]
  <2>1. CASE scope = AnySession \/ scope \in archivedSessions
    <3>1. replayed = {}
      BY <1>19, <2>1 DEF Replayed
    <3> QED BY <3>1
  <2>2. CASE ~(scope = AnySession \/ scope \in archivedSessions)
    <3>1. scope \in Sessions /\ replayed = ToSet(events[scope])
      BY <1>19, <2>2 DEF Replayed
    <3>2. events[scope] \in Seq(Seqs) /\ DOMAIN events[scope] = 1..Len(events[scope])
      <4>1. events[scope] \in Seq(Seqs)
        BY <1>3, <3>1 DEF Caches
      <4> QED BY <4>1, LenProperties
    <3>3. ASSUME NEW q \in replayed PROVE q \in Seqs /\ Contains(events[scope], q)
      <4>1. PICK i \in 1..Len(events[scope]) : events[scope][i] = q
        BY <3>1, <3>2 DEF ToSet
      <4>2. q \in Seqs
        BY <3>2, <4>1, ElementOfSeq
      <4> QED BY <4>1, <4>2 DEF Contains
    <3>4. \A q \in replayed : q <= log[scope]
      BY <1>2, <3>1, <3>3, HubFields DEF HubFits
    <3> QED BY <3>1, <3>3, <3>4
  <2> QED BY <2>1, <2>2
<1>21. \A s \in Sessions : told.last[s] <= log[s]
  BY <1>2, <1>11, <1>16, <1>18 DEF Logs
<1>22. /\ t \in Streams /\ StreamInOrder(t) /\ SameReader(told, t)
       /\ \A s \in Sessions : t.last[s] <= log[s]
  <2>1. t = WithReplay(told, scope, replayed)
    BY <1>7, <1>19
  <2> QED BY <1>18, <1>20, <1>21, <2>1, WithReplayIs
<1>23. SameReader(new, t)
  BY <1>18, <1>22, SameReaderTwice
<1>24. t.from = log /\ t.opened = n + 1 /\ t.on
  BY <1>16, <1>23 DEF SameReader
<1>25. OwedBy(t, log) = {}
  <2>1. ASSUME NEW i \in OwedBy(t, log) PROVE FALSE
    <3>1. i \in Item /\ i[2] > log[i[1]] /\ i[2] <= log[i[1]]
      BY <1>24 DEF OwedBy
    <3>2. i[1] \in Sessions /\ i[2] \in Nat /\ log[i[1]] \in Nat
      BY <1>2, <3>1, ItemHas DEF Logs
    <3> QED BY <3>1, <3>2
  <2> QED BY <2>1
<1>26. globalBaselineRequired /\ Owing(t) => t.told
  BY <1>18, <1>22 DEF Owing, SameReader
<1>27. \A s \in Sessions : t.from[s] <= log[s]
  BY <1>2, <1>24 DEF Logs
<1>28. \A s \in Sessions : t.last[s] <= t.from[s]
  BY <1>22, <1>24
<1>29. StreamFits(t)
  BY <1>22, <1>25, <1>26, <1>27, <1>28 DEF StreamFits
<1>30. EventsIInv'
  BY <1>8, <1>29, OneStreamMoves
<1>31. stream'[p] = t /\ \A r \in Phones : r # p => stream'[r] = stream[r]
  BY <1>3, <1>8
<1> QED BY <1>4, <1>8, <1>9, <1>24, <1>30, <1>31

-----------------------------------------------------------------------------
(* The invariant of the specification, and what follows from it.           *)

LEMMA EventsStart == EventsInit => EventsIInv
<1> SUFFICES ASSUME EventsInit PROVE EventsIInv
  OBVIOUS
<1>1. /\ log \in [Sessions -> 0..1] /\ firstLiveSeq = [s \in Sessions |-> 0]
      /\ reading = [s \in Sessions |-> 0] /\ reads = [s \in Sessions |-> 0]
      /\ events = [s \in Sessions |-> <<>>]
      /\ watermark = [s \in Sessions |-> [last |-> 0, source |-> "none"]]
      /\ archivedSessions = {} /\ workspaceBaselineKnown = FALSE
      /\ pendingGlobalEvents = <<>> /\ globalBaselineRequired = FALSE
      /\ stream = [p \in Phones |-> NoStream]
      /\ skipped = [i \in Item |-> "no"]
  BY DEF EventsInit
<1>2. 0 \in 0..MaxSeq /\ 0 \in 0..MaxReads /\ 0 \in 0..MaxStreams /\ 0..1 \subseteq 0..MaxSeq
  BY MobileEventsAssumption
<1>3. log \in Logs /\ firstLiveSeq \in Logs /\ reading \in Logs /\ reads \in [Sessions -> 0..MaxReads]
  BY <1>1, <1>2 DEF Logs
<1>4. \A s \in Sessions : log[s] \in Nat /\ firstLiveSeq[s] = 0 /\ reading[s] = 0
  BY <1>1, <1>3 DEF Logs
<1>5. ReadsFit
  BY <1>3, <1>4 DEF ReadsFit
<1>6. <<>> \in Caches /\ <<>> \in Waiting /\ Len(<<>>) = 0 /\ 1..0 = {}
  <2>1. <<>> \in Seq(Seqs) /\ <<>> \in Seq(Item) /\ Len(<<>>) = 0
    OBVIOUS
  <2>2. 0 <= MaxCachedEvents /\ 0 <= MaxPendingGlobalEvents
    BY MobileEventsAssumption
  <2> QED BY <2>1, <2>2 DEF Caches, Waiting
<1>7. /\ NoStream \in Streams /\ StreamInOrder(NoStream) /\ ~NoStream.on
      /\ \A s \in Sessions : NoStream.from[s] = 0 /\ NoStream.last[s] = 0
  <2>1. PICK n \in Nat : n = 0
    OBVIOUS
  <2>2. n <= MaxStreams
    BY <2>1, MobileEventsAssumption
  <2>3. PICK t : t = Unopened(n)
    OBVIOUS
  <2>4. /\ t \in Streams /\ StreamInOrder(t) /\ ~t.on
        /\ \A s \in Sessions : t.from[s] = 0 /\ t.last[s] = 0
    BY <2>2, <2>3, NoStreamIs
  <2>5. t = NoStream
    BY <2>1, <2>3 DEF Unopened, NoStream
  <2> QED BY <2>4, <2>5
<1>8. /\ Hub.events = events /\ Hub.watermark = watermark /\ Hub.stream = stream
      /\ Hub.skipped = skipped /\ Hub.pending = <<>> /\ Hub.required = FALSE
  BY <1>1, HubFields
<1>9. \A p \in Phones : stream[p] = NoStream
  BY <1>1
<1>10. Hub \in EventHubs
  <2>1. events \in [Sessions -> Caches]
    BY <1>1, <1>6
  <2>2. watermark \in [Sessions -> Marks]
    BY <1>1, <1>2 DEF Marks
  <2>3. stream \in [Phones -> Streams]
    BY <1>1, <1>7
  <2>4. skipped \in [Item -> Reasons]
    BY <1>1 DEF Reasons
  <2>5. pendingGlobalEvents \in Waiting /\ globalBaselineRequired \in BOOLEAN
    BY <1>1, <1>6
  <2> QED BY <2>1, <2>2, <2>3, <2>4, <2>5 DEF Hub, EventHubs
<1>11. StreamsInOrder(Hub)
  BY <1>7, <1>8, <1>9 DEF StreamsInOrder
<1>12. \A s \in Sessions : watermark[s].last = 0
  BY <1>1
<1>13. MarksTrue(Hub)
  BY <1>8, <1>12 DEF MarksTrue
<1>14. \A i : ~Contains(Hub.pending, i)
  BY <1>6, <1>8 DEF Contains
<1>15. HubFits(Hub, log, firstLiveSeq)
  <2>1. \A s \in Sessions : \A e \in Seqs : ~Contains(events[s], e)
    BY <1>1, <1>6 DEF Contains
  <2>2. \A s \in Sessions : watermark[s].last <= log[s]
    BY <1>4, <1>12
  <2>3. \A p \in Phones : \A s \in Sessions : stream[p].from[s] <= log[s] /\ stream[p].last[s] <= log[s]
    BY <1>4, <1>7, <1>9
  <2> QED BY <1>8, <1>14, <2>1, <2>2, <2>3 DEF HubFits
<1>16. \A p \in Phones : ~Hub.stream[p].on
  BY <1>7, <1>8, <1>9
<1>17. ToldWhy(Hub)
  <2>1. \A i \in Item : skipped[i] = "no"
    BY <1>1
  <2>2. \A i \in Item : ~(Hub.skipped[i] = "overflow")
    BY <1>8, <2>1
  <2> QED BY <1>8, <2>2 DEF ToldWhy
<1>18. NothingLost(Hub, log)
  BY <1>16 DEF NothingLost, Owing
<1>19. StillWaits(Hub, log, firstLiveSeq)
  <2>1. \A i \in Item : ~IsLive(i, log, firstLiveSeq)
    BY <1>4, ItemHas DEF IsLive
  <2>2. WaitsInOrder(Hub.pending, Hub.skipped)
    BY <1>6, <1>8 DEF WaitsInOrder
  <2> QED BY <1>14, <1>16, <2>1, <2>2 DEF StillWaits
<1>20. HubIsSound(Hub, log, firstLiveSeq, workspaceBaselineKnown)
  BY <1>1, <1>10, <1>11, <1>13, <1>15, <1>17, <1>18, <1>19 DEF HubIsSound
<1> QED BY <1>1, <1>5, <1>20 DEF EventsIInv

\* Beside the invariant: what goes to a stream that stays is not of an archived session.
EventsStepIsQuiet ==
  \A p \in Phones : stream'[p].opened = stream[p].opened =>
    \A i \in stream'[p].got \ stream[p].got : i[1] \notin archivedSessions'

LEMMA QuietStep ==
  ASSUME QuietFor(Hub, Hub', archivedSessions')
  PROVE  EventsStepIsQuiet
<1>1. Hub.stream = stream /\ Hub'.stream = stream'
  BY DEF Hub
<1> QED BY <1>1 DEF QuietFor, EventsStepIsQuiet

LEMMA EventsStep == EventsIInv /\ [EventsNext]_eventVars => EventsIInv' /\ EventsStepIsQuiet
<1> SUFFICES ASSUME EventsIInv, [EventsNext]_eventVars PROVE EventsIInv' /\ EventsStepIsQuiet
  OBVIOUS
<1>1. ASSUME NEW s \in Sessions, AppendLive(s) PROVE EventsIInv' /\ EventsStepIsQuiet
  <2>1. EventsIInv' /\ QuietFor(Hub, Hub', archivedSessions) /\ archivedSessions' = archivedSessions
    BY <1>1, AppendKeeps
  <2>2. QuietFor(Hub, Hub', archivedSessions')
    BY <2>1
  <2> QED BY <2>1, <2>2, QuietStep
<1>2. ASSUME NEW s \in Sessions, Created(s) PROVE EventsIInv' /\ EventsStepIsQuiet
  <2>1. EventsIInv' /\ QuietFor(Hub, Hub', archivedSessions) /\ archivedSessions' = archivedSessions
    BY <1>2, CreatedKeeps
  <2>2. QuietFor(Hub, Hub', archivedSessions')
    BY <2>1
  <2> QED BY <2>1, <2>2, QuietStep
<1>3. ASSUME NEW s \in Sessions, ReadStarts(s) PROVE EventsIInv' /\ EventsStepIsQuiet
  <2>1. /\ reading[s] = 0 /\ log[s] > 0 /\ reads[s] < MaxReads
        /\ reading' = [reading EXCEPT ![s] = log[s]]
        /\ reads' = [reads EXCEPT ![s] = reads[s] + 1]
        /\ UNCHANGED <<log, firstLiveSeq, hub>>
    BY <1>3 DEF ReadStarts
  <2>2. /\ log \in Logs /\ firstLiveSeq \in Logs /\ reading \in Logs /\ reads \in [Sessions -> 0..MaxReads]
        /\ \A r \in Sessions : firstLiveSeq[r] <= log[r] /\ reading[r] <= log[r]
    BY DEF EventsIInv, ReadsFit
  <2>3. reading' \in Logs /\ reads' \in [Sessions -> 0..MaxReads]
    <3>1. reads[s] + 1 \in 0..MaxReads
      BY <2>1, <2>2, MobileEventsAssumption
    <3> QED BY <2>1, <2>2, <3>1 DEF Logs
  <2>4. \A r \in Sessions : reading'[r] <= log[r]
    BY <2>1, <2>2 DEF Logs
  <2>5. log' = log /\ firstLiveSeq' = firstLiveSeq /\ Hub' = Hub /\ stream' = stream
        /\ archivedSessions' = archivedSessions /\ workspaceBaselineKnown' = workspaceBaselineKnown
    BY <2>1 DEF hub, Hub
  <2>6. ReadsFit'
    BY <2>2, <2>3, <2>4, <2>5 DEF ReadsFit, Logs
  <2>7. EventsIInv'
    BY <2>5, <2>6 DEF EventsIInv
  <2> QED BY <2>5, <2>7 DEF EventsStepIsQuiet
<1>4. ASSUME NEW s \in Sessions, NEW lo \in Seqs, NEW hi \in Seqs, NEW head, ReadEnds(s, lo, hi, head)
      PROVE  EventsIInv' /\ EventsStepIsQuiet
  BY <1>4, ReadEndsKeeps DEF EventsStepIsQuiet
<1>5. ASSUME NEW archived \in SUBSET Sessions, WorkspaceBaseline(archived)
      PROVE  EventsIInv' /\ EventsStepIsQuiet
  BY <1>5, BaselineKeeps, QuietStep
<1>6. ASSUME NEW archived \in SUBSET Sessions, Archived(archived)
      PROVE  EventsIInv' /\ EventsStepIsQuiet
  <2>1. /\ archivedSessions' = archived
        /\ UNCHANGED <<log, firstLiveSeq, reading, reads, events, watermark, workspaceBaselineKnown,
                       pendingGlobalEvents, globalBaselineRequired, stream, skipped>>
    BY <1>6 DEF Archived
  <2>2. Hub' = Hub
    BY <2>1 DEF Hub
  <2>3. ReadsFit'
    BY <2>1 DEF EventsIInv, ReadsFit, Logs
  <2>4. EventsIInv'
    BY <2>1, <2>2, <2>3 DEF EventsIInv
  <2> QED BY <2>1, <2>4 DEF EventsStepIsQuiet
<1>7. ASSUME NEW p \in Phones, NEW scope \in Sessions \cup {AnySession}, NEW since \in 0..MaxSeq,
             Subscribe(p, scope, since)
      PROVE  EventsIInv' /\ EventsStepIsQuiet
  <2>1. /\ EventsIInv' /\ stream'[p].opened # stream[p].opened
        /\ \A r \in Phones : r # p => stream'[r] = stream[r]
    BY <1>7, SubscribeKeeps
  <2> QED BY <2>1 DEF EventsStepIsQuiet
<1>8. ASSUME NEW p \in Phones, TakeQueued(p) PROVE EventsIInv' /\ EventsStepIsQuiet
  <2>1. EventsIInv' /\ \A r \in Phones : stream'[r].got = stream[r].got
    BY <1>8, TakeEventKeeps
  <2> QED BY <2>1 DEF EventsStepIsQuiet
<1>9. ASSUME NEW p \in Phones, CloseSubscriber(p) PROVE EventsIInv' /\ EventsStepIsQuiet
  <2>1. EventsIInv' /\ \A r \in Phones : stream'[r].got \subseteq stream[r].got
    BY <1>9, CloseStreamKeeps
  <2> QED BY <2>1 DEF EventsStepIsQuiet
<1>10. CASE UNCHANGED eventVars
  <2>1. UNCHANGED <<log, firstLiveSeq, reading, reads, events, watermark, archivedSessions,
                    workspaceBaselineKnown, pendingGlobalEvents, globalBaselineRequired, stream, skipped>>
    BY <1>10 DEF eventVars, hub
  <2>2. Hub' = Hub
    BY <2>1 DEF Hub
  <2>3. ReadsFit'
    BY <2>1 DEF EventsIInv, ReadsFit, Logs
  <2>4. EventsIInv'
    BY <2>1, <2>2, <2>3 DEF EventsIInv
  <2> QED BY <2>1, <2>4 DEF EventsStepIsQuiet
<1>11. CASE EventsNext
  <2>1. CASE \E s \in Sessions :
               \/ AppendLive(s) \/ Created(s) \/ ReadStarts(s)
               \/ \E lo, hi \in Seqs : \E head \in BOOLEAN : ReadEnds(s, lo, hi, head)
    BY <1>1, <1>2, <1>3, <1>4, <2>1
  <2>2. CASE \E archived \in SUBSET Sessions : WorkspaceBaseline(archived) \/ Archived(archived)
    BY <1>5, <1>6, <2>2
  <2>3. CASE \E p \in Phones :
               \/ \E scope \in Sessions \cup {AnySession} : \E since \in 0..MaxSeq : Subscribe(p, scope, since)
               \/ TakeQueued(p) \/ CloseSubscriber(p)
    BY <1>7, <1>8, <1>9, <2>3
  <2> QED BY <1>11, <2>1, <2>2, <2>3 DEF EventsNext
<1> QED BY <1>10, <1>11

\* What the runs check follows from it.
LEMMA EventsFollow == EventsIInv => EventsSound
<1> SUFFICES ASSUME EventsIInv PROVE EventsSound
  OBVIOUS
<1>1. /\ ReadsFit /\ archivedSessions \in SUBSET Sessions /\ workspaceBaselineKnown \in BOOLEAN
      /\ HubIsSound(Hub, log, firstLiveSeq, workspaceBaselineKnown)
  BY DEF EventsIInv
<1>2. /\ Hub \in EventHubs /\ StreamsInOrder(Hub) /\ MarksTrue(Hub)
      /\ HubFits(Hub, log, firstLiveSeq) /\ ToldWhy(Hub) /\ NothingLost(Hub, log)
      /\ IF workspaceBaselineKnown THEN MarkKept(Hub, log, firstLiveSeq)
         ELSE StillWaits(Hub, log, firstLiveSeq)
  BY <1>1 DEF HubIsSound
<1>3. /\ events \in [Sessions -> Caches] /\ watermark \in [Sessions -> Marks]
      /\ stream \in [Phones -> Streams] /\ skipped \in [Item -> Reasons]
      /\ pendingGlobalEvents \in Waiting /\ globalBaselineRequired \in BOOLEAN
  BY <1>2, HubHas, HubFields
<1>4. /\ log \in Logs /\ firstLiveSeq \in Logs /\ reading \in Logs /\ reads \in [Sessions -> 0..MaxReads]
  BY <1>1 DEF ReadsFit
<1>5. EventTypeOK
  <2>1. events \in [Sessions -> Seq(Seqs)] /\ \A s \in Sessions : Len(events[s]) <= MaxCachedEvents
    BY <1>3 DEF Caches
  <2>2. ASSUME NEW p \in Phones
        PROVE  /\ Len(stream[p].queue) <= MaxSubscriberQueue
               /\ \A i \in 1..Len(stream[p].queue) :
                    stream[p].queue[i] \in Item \cup {Overflow, BaselineRequired}
    <3>1. stream[p].queue \in Queues
      BY <1>3, StreamHas
    <3>2. stream[p].queue \in Seq(Item \cup {Overflow, BaselineRequired})
          /\ Len(stream[p].queue) <= MaxSubscriberQueue
      BY <3>1 DEF Queues
    <3> QED BY <3>2, ElementOfSeq
  <2>3. pendingGlobalEvents \in Seq(Item) /\ Len(pendingGlobalEvents) <= MaxPendingGlobalEvents
    BY <1>3 DEF Waiting
  <2>4. watermark \in [Sessions -> [last : 0..MaxSeq, source : {"none", "mux", "history"}]]
        /\ skipped \in [Item -> {"no", "archived", "cached", "overflow"}]
    BY <1>3 DEF Marks, Reasons
  <2>5. /\ log \in [Sessions -> 0..MaxSeq] /\ firstLiveSeq \in [Sessions -> 0..MaxSeq]
        /\ reading \in [Sessions -> 0..MaxSeq] /\ reads \in [Sessions -> 0..MaxReads]
    BY <1>4 DEF Logs
  <2>6. archivedSessions \subseteq Sessions
    BY <1>1
  <2> QED BY <1>1, <1>3, <2>1, <2>2, <2>3, <2>4, <2>5, <2>6 DEF EventTypeOK
<1>6. NoSilentGap
  <2> SUFFICES ASSUME NEW p \in Phones, stream[p].on /\ ~stream[p].done, NEW i \in Owed(p)
               PROVE  \/ i \in stream[p].got \/ Contains(pendingGlobalEvents, i)
                      \/ skipped[i] \in {"archived", "cached"}
                      \/ skipped[i] = "overflow" /\ stream[p].told
    BY DEF NoSilentGap, Delivered
  <2>1. i \in OwedBy(stream[p], log) /\ i \in Item /\ Owing(stream[p])
    BY DEF Owed, OwedBy, Owing
  <2>2. i \in stream[p].got \/ Contains(pendingGlobalEvents, i) \/ skipped[i] # "no"
    BY <1>2, <2>1, HubFields DEF NothingLost
  <2>3. skipped[i] \in {"no", "archived", "cached", "overflow"}
    BY <1>3, <2>1 DEF Reasons
  <2>4. skipped[i] = "overflow" => stream[p].told
    BY <1>2, <2>1, HubFields DEF ToldWhy
  <2> QED BY <2>2, <2>3, <2>4
<1>7. InOrder
  <2>1. \A p \in Phones : StreamInOrder(stream[p])
    BY <1>2, HubFields DEF StreamsInOrder
  <2>2. ASSUME NEW p \in Phones, NEW j \in 1..Len(stream[p].queue), stream[p].queue[j] \in Item
        PROVE  /\ stream[p].queue[j][2] > stream[p].taken[stream[p].queue[j][1]]
               /\ \A k \in 1..(j - 1) : stream[p].queue[k][1] = stream[p].queue[j][1]
                    => stream[p].queue[k][2] < stream[p].queue[j][2]
    <3>1. /\ stream[p].taken[stream[p].queue[j][1]] < stream[p].queue[j][2]
          /\ \A k \in 1..(j - 1) : stream[p].queue[k][1] = stream[p].queue[j][1]
               => stream[p].queue[k][2] < stream[p].queue[j][2]
      BY <2>1, <2>2 DEF StreamInOrder, QueueInOrder
    <3>2. stream[p].taken[stream[p].queue[j][1]] \in Nat /\ stream[p].queue[j][2] \in Nat
      <4>1. stream[p].taken \in [Sessions -> 0..MaxSeq]
        BY <1>3, StreamHas
      <4>2. stream[p].queue[j][1] \in Sessions /\ stream[p].queue[j][2] \in Nat
        BY <2>2, ItemHas
      <4> QED BY <4>1, <4>2
    <3> QED BY <3>1, <3>2
  <2> QED BY <2>2 DEF InOrder
<1>8. LiveTailKept
  <2>1. \A s \in Sessions : watermark[s].last <= log[s]
    BY <1>2, HubFields DEF HubFits
  <2>2. ASSUME NEW s \in Sessions, workspaceBaselineKnown, firstLiveSeq[s] > 0,
               NEW q \in firstLiveSeq[s]..log[s], skipped[<<s, q>>] = "no"
        PROVE  q <= watermark[s].last
    <3>1. MarkKept(Hub, log, firstLiveSeq)
      BY <1>2, <2>2
    <3>2. q \in Seqs /\ firstLiveSeq[s] <= q /\ q <= log[s]
      BY <1>4, <2>2, MobileEventsAssumption DEF Logs, Seqs
    <3>3. PICK i : i = <<s, q>>
      OBVIOUS
    <3>4. i \in Item /\ i[1] = s /\ i[2] = q
      BY <3>2, <3>3 DEF Item
    <3>5. IsLive(i, log, firstLiveSeq)
      BY <2>2, <3>2, <3>4 DEF IsLive
    <3> QED BY <2>2, <3>1, <3>3, <3>4, <3>5, HubFields DEF MarkKept
  <2> QED BY <2>1, <2>2 DEF LiveTailKept
<1> QED BY <1>5, <1>6, <1>7, <1>8 DEF EventsSound

\* The hub is sound at every step: cache, marks and buffer fit the log, an open stream has
\* every event owed to it unless that waits or was skipped, and an overflow was told. Until
\* the archived sessions are known all that is live and not skipped waits, in order; then
\* nothing waits and the watermark has reached what was live.
THEOREM EventsInvariantHolds == EventsSpec => []EventsIInv
<1>1. EventsIInv /\ [EventsNext]_eventVars => EventsIInv'
  BY EventsStep
<1> QED BY EventsStart, <1>1, PTL DEF EventsSpec

\* No event is missed silently, told twice or late, and the watermark is true: the sound
\* events of the hub, over the buffer, the cache, the replays, the reads and the overflows.
THEOREM EventsAreSound == EventsSpec => []EventsSound
BY EventsInvariantHolds, EventsFollow, PTL

\* No event of an archived session enters a stream that is open.
THEOREM ArchivedStaySilent == EventsSpec => ArchivedSilent
<1>1. EventsIInv /\ [EventsNext]_eventVars => [EventsStepIsQuiet]_eventVars
  BY EventsStep
<1>2. EventsSpec => [][EventsStepIsQuiet]_eventVars
  BY <1>1, EventsInvariantHolds, PTL DEF EventsSpec
<1> QED BY <1>2 DEF ArchivedSilent, EventsStepIsQuiet
=============================================================================
