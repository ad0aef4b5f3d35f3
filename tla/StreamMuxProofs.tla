-------------------------- MODULE StreamMuxProofs --------------------------
(***************************************************************************)
(* Theorems about the fair sender and the stream multiplexer, for any      *)
(* number of streams and any limits.                                       *)
(***************************************************************************)
EXTENDS StreamMux, FiniteSetTheorems, SequenceTheorems, TLAPS

(***************************************************************************)
(* Part 1.  The operations of the sender keep its line of ready streams    *)
(* consistent, lose no wakeup, and never reorder a stream.                 *)
(***************************************************************************)
LEMMA SenderFields ==
  ASSUME NEW q \in Senders
  PROVE  /\ q.queues \subseteq Streams /\ q.flagged \subseteq Streams
         /\ q.items \in [Streams -> Seq(Frames)]
         /\ q.wire \in [Streams -> Seq(Frames)]
         /\ q.ready \in Seq(Streams)
         /\ q.flight \in Frames
         /\ q.inFlight \in Streams \cup {NoStream}
         /\ q.closed \in BOOLEAN
BY DEF Senders, StreamSets, InFlights, Backlogs, Lines

LEMMA NothingType ==
  /\ NothingHeld \in Backlogs /\ <<>> \in Lines
  /\ {} \in StreamSets /\ NoStream \in InFlights /\ NoFrame \in Frames
BY DEF StreamSets, InFlights, NothingHeld, Backlogs, Lines, NoFrame, Frames

LEMMA NewSenderInv == SenderInv(NewSender)
<1>1. NewSender \in Senders
  BY NothingType DEF NewSender, Senders
<1> QED
  BY <1>1 DEF SenderInv, LineConsistent, Lined, NoLostWakeup, NewSender, NothingHeld

LEMMA ClosedInv ==
  ASSUME NEW q \in Senders
  PROVE  /\ SenderInv(Closed(q))
         /\ Closed(q).closed
         /\ Closed(q).wire = q.wire
         /\ \A s \in Streams : Story(Closed(q), s) = q.wire[s]
<1>2. Closed(q) \in Senders
  BY NothingType DEF Closed, Senders
<1>3. /\ Closed(q).closed = TRUE
      /\ Closed(q).ready = <<>> /\ Closed(q).flagged = {}
      /\ Closed(q).items = NothingHeld
      /\ Closed(q).wire = q.wire
  BY DEF Closed, Senders
<1>4. SenderInv(Closed(q))
  BY <1>2, <1>3 DEF SenderInv, LineConsistent, Lined, NoLostWakeup, NothingHeld
<1>5. ASSUME NEW s \in Streams PROVE Story(Closed(q), s) = q.wire[s]
  <2>1. Closed(q).items[s] = <<>>
    BY <1>3 DEF NothingHeld
  <2> QED BY <1>3, <2>1, SenderFields DEF Story
<1> QED
  BY <1>3, <1>4, <1>5
LEMMA HeldFacts ==
  ASSUME NEW q \in Senders, NEW s \in Streams, NEW f \in Frames
  PROVE  LET h == Held(q, s, f) IN
         /\ h \in Senders
         /\ h.items = [q.items EXCEPT ![s] = Append(@, f)]
         /\ h.queues = q.queues \cup {s}
         /\ h.flagged = q.flagged /\ h.ready = q.ready /\ h.wire = q.wire
         /\ h.inFlight = q.inFlight /\ h.closed = q.closed
<1> DEFINE qs == q.queues \cup {s}
           its == [q.items EXCEPT ![s] = Append(@, f)]
           h == [q EXCEPT !.queues = qs, !.items = its]
<1>1. qs \in StreamSets /\ its \in Backlogs
  BY SenderFields DEF StreamSets, Backlogs
<1>2. Held(q, s, f) = h
  BY DEF Held
<1> HIDE DEF qs, its
<1>3. h \in Senders
  BY <1>1 DEF Senders
<1>4. /\ h.items = its /\ h.queues = qs
      /\ h.flagged = q.flagged /\ h.ready = q.ready /\ h.wire = q.wire
      /\ h.inFlight = q.inFlight /\ h.closed = q.closed
  BY DEF Senders
<1> QED
  BY <1>2, <1>3, <1>4 DEF its, qs

LEMMA JoinLine ==
  ASSUME NEW rd \in Seq(Streams), NEW fl \in SUBSET Streams, NEW s \in Streams,
         s \notin fl, Lined(rd, fl)
  PROVE  Lined(Append(rd, s), fl \cup {s})
<1> DEFINE new == Append(rd, s)
<1>1. \A i \in 1..Len(rd) : rd[i] # s
  BY DEF Lined
<1>2. /\ Len(new) = Len(rd) + 1 /\ Len(rd) \in Nat
      /\ \A i \in 1..Len(rd) : new[i] = rd[i]
      /\ new[Len(rd) + 1] = s
  OBVIOUS
<1> HIDE DEF new
<1>3. \A i \in 1..Len(new) : i \in 1..Len(rd) \/ i = Len(rd) + 1
  BY <1>2
<1>4. \A i, j \in 1..Len(new) : new[i] = new[j] => i = j
  BY <1>1, <1>2, <1>3 DEF Lined
<1>5. \A t \in Streams : t \in fl \cup {s} <=> \E i \in 1..Len(new) : new[i] = t
  BY <1>2, <1>3 DEF Lined
<1> QED BY <1>4, <1>5 DEF new, Lined

LEMMA EnqueuedInv ==
  ASSUME NEW q \in Senders, SenderInv(q), ~q.closed,
         NEW s \in Streams, NEW f \in Frames
  PROVE  LET r == InLine(Held(q, s, f), s) IN
         /\ SenderInv(r) /\ ~r.closed
         /\ r.items = [q.items EXCEPT ![s] = Append(@, f)]
         /\ r.wire = q.wire
<1> DEFINE h == Held(q, s, f)
           r == InLine(h, s)
<1>1. /\ h \in Senders
      /\ h.items = [q.items EXCEPT ![s] = Append(@, f)]
      /\ h.queues = q.queues \cup {s}
      /\ h.flagged = q.flagged /\ h.ready = q.ready /\ h.wire = q.wire
      /\ h.inFlight = q.inFlight /\ h.closed = q.closed
  BY HeldFacts
<1>2. /\ q.items \in [Streams -> Seq(Frames)] /\ q.ready \in Seq(Streams)
      /\ q.flagged \subseteq Streams
  BY SenderFields
<1>3. /\ \A t \in Streams : h.items[t] = IF t = s THEN Append(q.items[t], f) ELSE q.items[t]
      /\ h.items[s] # <<>>
  <2>1. \A t \in Streams : h.items[t] = IF t = s THEN Append(q.items[t], f) ELSE q.items[t]
    BY <1>1, <1>2
  <2>2. q.items[s] \in Seq(Frames)
    BY <1>2
  <2>3. Append(q.items[s], f) # <<>>
    BY <2>2, AppendProperties
  <2> QED BY <2>1, <2>3
<1> HIDE DEF h
<1>4. CASE s \in h.flagged \/ h.inFlight = s
  <2>1. r = h
    BY <1>4 DEF InLine
  <2>2. LineConsistent(h)
    BY <1>1 DEF SenderInv, LineConsistent, Lined
  <2>3. NoLostWakeup(h)
    BY <1>1, <1>2, <1>3, <1>4 DEF SenderInv, NoLostWakeup
  <2> QED BY <1>1, <2>1, <2>2, <2>3 DEF SenderInv, h
<1>5. CASE ~(s \in h.flagged \/ h.inFlight = s)
  <2> DEFINE fl == h.flagged \cup {s}
             rd == Append(h.ready, s)
  <2>1. fl \in StreamSets /\ rd \in Lines
    BY <1>1, <1>2 DEF StreamSets, Lines
  <2>2. r = [h EXCEPT !.flagged = fl, !.ready = rd]
    BY <1>5 DEF InLine
  <2> HIDE DEF fl, rd
  <2>3. r \in Senders
    BY <1>1, <2>1, <2>2 DEF Senders
  <2>4. /\ r.flagged = fl /\ r.ready = rd /\ r.items = h.items /\ r.wire = h.wire
        /\ r.queues = h.queues /\ r.inFlight = h.inFlight /\ r.closed = h.closed
    BY <1>1, <2>2 DEF Senders
  <2> HIDE DEF r
  <2>5. LineConsistent(r)
    <3>1. /\ q.ready \in Seq(Streams) /\ q.flagged \in SUBSET Streams
          /\ s \notin q.flagged /\ Lined(q.ready, q.flagged)
      BY <1>1, <1>2, <1>5 DEF SenderInv, LineConsistent
    <3>2. r.ready = Append(q.ready, s) /\ r.flagged = q.flagged \cup {s}
      BY <1>1, <2>4 DEF fl, rd
    <3> QED BY <3>1, <3>2, JoinLine DEF LineConsistent
  <2>6. NoLostWakeup(r)
    BY <1>1, <1>2, <1>3, <1>5, <2>4 DEF SenderInv, NoLostWakeup, fl
  <2>7. SenderInv(r) /\ ~r.closed
    BY <1>1, <2>3, <2>4, <2>5, <2>6 DEF SenderInv
  <2> QED BY <1>1, <2>4, <2>7 DEF r, h
<1> QED BY <1>4, <1>5

LEMMA MinOne ==
  ASSUME NEW S \in SUBSET Nat, 1 \in S, \A n \in S : 1 <= n
  PROVE  Min(S) = 1
<1>1. \E x \in S : \A y \in S : x <= y
  OBVIOUS
<1>2. Min(S) \in S /\ \A y \in S : Min(S) <= y
  BY <1>1 DEF Min
<1>3. Min(S) \in Nat /\ Min(S) <= 1 /\ 1 <= Min(S)
  BY <1>2
<1> QED BY <1>3

LEMMA MoveHead ==
  ASSUME NEW S, NEW w \in Seq(S), NEW b \in Seq(S), b # <<>>
  PROVE  Append(w, Head(b)) \o Tail(b) = w \o b
<1> DEFINE l == Append(w, Head(b)) \o Tail(b)
           r == w \o b
<1>1. Head(b) \in S /\ Tail(b) \in Seq(S) /\ Len(Tail(b)) = Len(b) - 1
  BY HeadTailProperties
<1>2. Append(w, Head(b)) \in Seq(S) /\ Len(Append(w, Head(b))) = Len(w) + 1
  BY <1>1, AppendProperties
<1>3. l \in Seq(S) /\ r \in Seq(S) /\ Len(l) = Len(r)
  BY <1>1, <1>2
<1>4. ASSUME NEW i \in 1..Len(l) PROVE l[i] = r[i]
  BY <1>1, <1>2, <1>3
<1> QED BY <1>3, <1>4, SeqEqual

LEMMA SendFirst ==
  ASSUME NEW q \in Senders, SenderInv(q), q.ready # <<>>, ~q.closed, q.inFlight = NoStream
  PROVE  /\ Drained(q) = Send(q, 1)
         /\ q.ready[1] \in Streams /\ q.items[q.ready[1]] # <<>>
<1>1. q.ready \in Seq(Streams) /\ 1 \in 1..Len(q.ready)
  BY SenderFields
<1>2. \A i \in 1..Len(q.ready) : q.ready[i] \in Streams /\ q.ready[i] \in q.flagged
  BY <1>1 DEF SenderInv, LineConsistent, Lined
<1>3. \A i \in 1..Len(q.ready) : HasNext(q, i)
  BY <1>2 DEF SenderInv, NoLostWakeup, HasNext
<1>4. Sendable(q) \in SUBSET Nat /\ 1 \in Sendable(q) /\ \A n \in Sendable(q) : 1 <= n
  BY <1>1, <1>3 DEF Sendable
<1>5. Min(Sendable(q)) = 1
  BY <1>4, MinOne
<1>6. Drained(q) = Send(q, 1)
  BY <1>4, <1>5 DEF Drained
<1> QED BY <1>1, <1>2, <1>3, <1>6 DEF HasNext

LEMMA SendFacts ==
  ASSUME NEW q \in Senders, NEW s \in Streams, q.ready # <<>>, q.ready[1] = s,
         q.items[s] # <<>>
  PROVE  LET d == Send(q, 1) IN
         /\ d \in Senders
         /\ d.ready = Tail(q.ready)
         /\ d.flagged = q.flagged \ {s}
         /\ d.items = [q.items EXCEPT ![s] = Tail(@)]
         /\ d.wire = [q.wire EXCEPT ![s] = Append(@, Head(q.items[s]))]
         /\ d.inFlight = s /\ d.queues = q.queues /\ d.closed = q.closed
<1> DEFINE rd == SubSeq(q.ready, 2, Len(q.ready))
           fl == q.flagged \ Range(SubSeq(q.ready, 1, 1))
           its == [q.items EXCEPT ![s] = Tail(@)]
           hd == Head(q.items[s])
           wr == [q.wire EXCEPT ![s] = Append(@, hd)]
           d == [q EXCEPT !.ready = rd, !.flagged = fl, !.items = its,
                          !.inFlight = s, !.flight = hd, !.wire = wr]
<1>1. q.ready \in Seq(Streams) /\ q.items[s] \in Seq(Frames)
  BY SenderFields
<1>2. rd = Tail(q.ready) /\ rd \in Seq(Streams)
  BY <1>1, TailIsSubSeq
<1>3. Range(SubSeq(q.ready, 1, 1)) = {s}
  <2>1. /\ SubSeq(q.ready, 1, 1) \in Seq(Streams)
        /\ Len(SubSeq(q.ready, 1, 1)) = 1
        /\ SubSeq(q.ready, 1, 1)[1] = s
    BY <1>1
  <2>2. DOMAIN SubSeq(q.ready, 1, 1) = {1}
    BY <2>1
  <2> QED BY <2>1, <2>2 DEF Range
<1>4. /\ rd \in Lines /\ fl \in StreamSets /\ hd \in Frames /\ s \in InFlights
      /\ its \in Backlogs /\ wr \in Backlogs
  <2>1. hd \in Frames /\ Tail(q.items[s]) \in Seq(Frames)
    BY <1>1, HeadTailProperties
  <2>2. its \in Backlogs
    BY <2>1, SenderFields DEF Backlogs
  <2>3. Append(q.wire[s], hd) \in Seq(Frames)
    BY <2>1, SenderFields, AppendProperties
  <2>4. wr \in Backlogs
    BY <2>3, SenderFields DEF Backlogs
  <2>5. fl \in StreamSets /\ rd \in Lines /\ s \in InFlights
    BY <1>2, SenderFields DEF StreamSets, Lines, InFlights
  <2> QED BY <2>1, <2>2, <2>4, <2>5
<1>5. Send(q, 1) = d
  BY DEF Send
<1> HIDE DEF rd, fl, its, hd, wr
<1>6. d \in Senders
  BY <1>4 DEF Senders
<1>7. /\ d.ready = rd /\ d.flagged = fl /\ d.items = its /\ d.wire = wr
      /\ d.inFlight = s /\ d.queues = q.queues /\ d.closed = q.closed
  BY DEF Senders
<1> HIDE DEF d
<1>8. fl = q.flagged \ {s}
  BY <1>3 DEF fl
<1> QED BY <1>2, <1>5, <1>6, <1>7, <1>8 DEF its, wr, hd

LEMMA DrainedInv ==
  ASSUME NEW q \in Senders, SenderInv(q), ~q.closed
  PROVE  LET d == Drained(q) IN
         /\ SenderInv(d) /\ ~d.closed
         /\ d.ready # <<>> => d.inFlight # NoStream
         /\ \A s \in Streams : Story(d, s) = Story(q, s)
<1>1. CASE q.inFlight # NoStream \/ q.ready = <<>>
  BY <1>1 DEF Drained
<1>2. CASE q.inFlight = NoStream /\ q.ready # <<>>
  <2> DEFINE d == Send(q, 1)
             s == q.ready[1]
  <2>1. Drained(q) = d /\ s \in Streams /\ q.items[s] # <<>>
    BY <1>2, SendFirst
  <2>2. /\ d \in Senders
        /\ d.ready = Tail(q.ready)
        /\ d.flagged = q.flagged \ {s}
        /\ d.items = [q.items EXCEPT ![s] = Tail(@)]
        /\ d.wire = [q.wire EXCEPT ![s] = Append(@, Head(q.items[s]))]
        /\ d.inFlight = s /\ d.queues = q.queues /\ d.closed = q.closed
    BY <1>2, <2>1, SendFacts
  <2>3. /\ q.ready \in Seq(Streams) /\ q.items \in [Streams -> Seq(Frames)]
        /\ q.wire \in [Streams -> Seq(Frames)] /\ q.flagged \subseteq Streams
        /\ NoStream \notin Streams
    BY SenderFields, LimitsAssumption
  <2> HIDE DEF d
  <2>4. LineConsistent(d)
    <3>1. /\ Len(d.ready) = Len(q.ready) - 1 /\ Len(q.ready) \in Nat
          /\ \A i \in 1..Len(d.ready) : d.ready[i] = q.ready[i + 1] /\ i + 1 \in 1..Len(q.ready)
          /\ \A i \in 1..Len(q.ready) : i = 1 \/ i - 1 \in 1..Len(d.ready)
      BY <1>2, <2>2, <2>3
    <3>2. /\ \A i, j \in 1..Len(q.ready) : q.ready[i] = q.ready[j] => i = j
          /\ \A t \in Streams : t \in q.flagged <=> \E i \in 1..Len(q.ready) : q.ready[i] = t
      BY DEF SenderInv, LineConsistent, Lined
    <3>3. \A i, j \in 1..Len(d.ready) : d.ready[i] = d.ready[j] => i = j
      BY <3>1, <3>2
    <3>4. ASSUME NEW t \in Streams, t \in d.flagged
          PROVE  \E i \in 1..Len(d.ready) : d.ready[i] = t
      <4>1. PICK i \in 1..Len(q.ready) : q.ready[i] = t
        BY <2>2, <3>2, <3>4
      <4>2. i # 1
        BY <2>2, <3>4, <4>1
      <4>3. i - 1 \in 1..Len(d.ready) /\ d.ready[i - 1] = q.ready[i]
        BY <3>1, <4>1, <4>2
      <4> QED BY <4>1, <4>3
    <3>5. ASSUME NEW t \in Streams, NEW i \in 1..Len(d.ready), d.ready[i] = t
          PROVE  t \in d.flagged
      <4>1. i + 1 \in 1..Len(q.ready) /\ q.ready[i + 1] = t /\ i + 1 # 1
        BY <3>1, <3>5
      <4>2. 1 \in 1..Len(q.ready)
        BY <4>1
      <4>3. t # s /\ t \in q.flagged
        BY <3>2, <4>1, <4>2
      <4> QED BY <2>2, <4>3
    <3> QED BY <3>3, <3>4, <3>5 DEF LineConsistent, Lined
  <2>5. NoLostWakeup(d)
    <3>1. \A t \in Streams : t # s => d.items[t] = q.items[t]
      BY <2>2, <2>3
    <3>2. s \in q.queues
      <4>1. 1 \in 1..Len(q.ready)
        BY <1>2, <2>3
      <4>2. s \in q.flagged
        BY <2>1, <4>1 DEF SenderInv, LineConsistent, Lined
      <4> QED BY <4>2 DEF SenderInv, NoLostWakeup
    <3>3. NoLostWakeup(q)
      BY DEF SenderInv
    <3>4. s \in d.queues /\ d.inFlight = s /\ d.flagged = q.flagged \ {s} /\ d.queues = q.queues
      BY <2>2, <3>2
    <3>5. ASSUME NEW t \in Streams, t # s
          PROVE  /\ d.items[t] # <<>> => t \in d.flagged
                 /\ t \in d.flagged => d.items[t] # <<>> /\ t \in d.queues
      <4>1. d.items[t] = q.items[t] /\ (t \in d.flagged <=> t \in q.flagged) /\ NoStream # t
        BY <2>3, <3>1, <3>4, <3>5
      <4>2. /\ q.items[t] # <<>> => t \in q.flagged
            /\ t \in q.flagged => q.items[t] # <<>> /\ t \in q.queues
        BY <1>2, <3>3, <4>1 DEF NoLostWakeup
      <4> QED BY <3>4, <4>1, <4>2
    <3>6. \A t \in d.flagged : t \in Streams /\ t # s
      BY <2>3, <3>4
    <3> QED BY <3>4, <3>5, <3>6 DEF NoLostWakeup
  <2>6. SenderInv(d) /\ ~d.closed
    BY <2>2, <2>4, <2>5 DEF SenderInv
  <2>7. d.inFlight # NoStream
    BY <2>1, <2>2, <2>3
  <2>8. ASSUME NEW t \in Streams
        PROVE  Story(d, t) = Story(q, t)
    <3>1. CASE t # s
      BY <2>2, <2>3, <3>1 DEF Story
    <3>2. CASE t = s
      <4>1. d.items[t] = Tail(q.items[t]) /\ d.wire[t] = Append(q.wire[t], Head(q.items[t]))
        BY <2>2, <2>3, <3>2
      <4>2. q.items[t] \in Seq(Frames) /\ q.items[t] # <<>> /\ q.wire[t] \in Seq(Frames)
        BY <2>1, <2>3, <3>2
      <4> QED BY <4>1, <4>2, MoveHead DEF Story
    <3> QED BY <3>1, <3>2
  <2> QED BY <2>1, <2>6, <2>7, <2>8
<1> QED BY <1>1, <1>2

LEMMA HoldLast ==
  ASSUME NEW S, NEW w \in Seq(S), NEW b \in Seq(S), NEW x \in S
  PROVE  w \o Append(b, x) = Append(w \o b, x)
<1>1. Append(b, x) = b \o <<x>>
  BY AppendIsConcat
<1>2. <<x>> \in Seq(S) /\ w \o b \in Seq(S)
  OBVIOUS
<1>3. Append(w \o b, x) = (w \o b) \o <<x>>
  BY <1>2, AppendIsConcat
<1>4. (w \o b) \o <<x>> = w \o (b \o <<x>>)
  BY <1>2, ConcatAssociative
<1> QED BY <1>1, <1>3, <1>4

LEMMA RemoveAtFacts ==
  ASSUME NEW S, NEW seq \in Seq(S), NEW k \in 1..Len(seq)
  PROVE  /\ RemoveAt(seq, k) \in Seq(S)
         /\ Len(RemoveAt(seq, k)) = Len(seq) - 1
         /\ \A i \in 1..(Len(seq) - 1) :
              RemoveAt(seq, k)[i] = IF i < k THEN seq[i] ELSE seq[i + 1]
<1> DEFINE l == SubSeq(seq, 1, k - 1)
           r == SubSeq(seq, k + 1, Len(seq))
<1>1. Len(seq) \in Nat /\ k \in Nat /\ 1 <= k /\ k <= Len(seq)
  OBVIOUS
<1>2. /\ l \in Seq(S) /\ Len(l) = k - 1
      /\ \A i \in 1..(k - 1) : l[i] = seq[i]
  BY <1>1
<1>3. /\ r \in Seq(S) /\ Len(r) = Len(seq) - k
      /\ \A i \in 1..(Len(seq) - k) : r[i] = seq[k + i]
  BY <1>1
<1>4. RemoveAt(seq, k) = l \o r
  BY DEF RemoveAt
<1> HIDE DEF l, r
<1>5. /\ l \o r \in Seq(S) /\ Len(l \o r) = Len(seq) - 1
      /\ \A i \in 1..(Len(seq) - 1) : (l \o r)[i] = IF i <= k - 1 THEN l[i] ELSE r[i - (k - 1)]
  <2>1. /\ l \o r \in Seq(S) /\ Len(l \o r) = Len(l) + Len(r)
        /\ \A i \in 1..(Len(l) + Len(r)) : (l \o r)[i] = IF i <= Len(l) THEN l[i] ELSE r[i - Len(l)]
    BY <1>2, <1>3, ConcatProperties
  <2>2. Len(l) + Len(r) = Len(seq) - 1
    BY <1>1, <1>2, <1>3
  <2> QED BY <1>2, <2>1, <2>2
<1>6. ASSUME NEW i \in 1..(Len(seq) - 1)
      PROVE  (l \o r)[i] = IF i < k THEN seq[i] ELSE seq[i + 1]
  <2>1. CASE i < k
    BY <1>1, <1>2, <1>5, <2>1
  <2>2. CASE i >= k
    <3>1. i - (k - 1) \in 1..(Len(seq) - k) /\ k + (i - (k - 1)) = i + 1
      BY <1>1, <2>2
    <3>2. r[i - (k - 1)] = seq[i + 1]
      BY <1>3, <3>1
    <3>3. (l \o r)[i] = r[i - (k - 1)]
      BY <1>1, <1>5, <2>2
    <3>4. ~(i < k)
      BY <1>1, <2>2
    <3>5. (IF i < k THEN seq[i] ELSE seq[i + 1]) = seq[i + 1]
      BY <3>4
    <3> QED BY <3>2, <3>3, <3>5
  <2>3. i < k \/ i >= k
    BY <1>1
  <2> QED BY <2>1, <2>2, <2>3, Zenon
<1> QED BY <1>4, <1>5, <1>6

LEMMA AcceptedInv ==
  ASSUME NEW q \in Senders, SenderInv(q), ~q.closed,
         NEW s \in Streams, NEW f \in Frames
  PROVE  LET a == Accepted(q, s, f) IN
         /\ SenderInv(a) /\ ~a.closed
         /\ a.ready # <<>> => a.inFlight # NoStream
         /\ Story(a, s) = Append(Story(q, s), f)
         /\ \A t \in Streams : t # s => Story(a, t) = Story(q, t)
<1> DEFINE r == InLine(Held(q, s, f), s)
           a == Drained(r)
<1>1. /\ SenderInv(r) /\ ~r.closed
      /\ r.items = [q.items EXCEPT ![s] = Append(@, f)]
      /\ r.wire = q.wire
  BY EnqueuedInv
<1>2. Accepted(q, s, f) = a
  BY DEF Accepted
<1> HIDE DEF r
<1>3. r \in Senders
  BY <1>1 DEF SenderInv
<1>4. /\ SenderInv(a) /\ ~a.closed
      /\ a.ready # <<>> => a.inFlight # NoStream
      /\ \A t \in Streams : Story(a, t) = Story(r, t)
  BY <1>1, <1>3, DrainedInv
<1>5. q.items \in [Streams -> Seq(Frames)] /\ q.wire \in [Streams -> Seq(Frames)]
  BY SenderFields
<1>6. \A t \in Streams : t # s => Story(r, t) = Story(q, t)
  BY <1>1, <1>5 DEF Story
<1>7. Story(r, s) = Append(Story(q, s), f)
  <2>1. r.items[s] = Append(q.items[s], f) /\ r.wire[s] = q.wire[s]
    BY <1>1, <1>5
  <2>2. q.items[s] \in Seq(Frames) /\ q.wire[s] \in Seq(Frames)
    BY <1>5
  <2>3. q.wire[s] \o Append(q.items[s], f) = Append(q.wire[s] \o q.items[s], f)
    <3> DEFINE w == q.wire[s]
               b == q.items[s]
    <3>1. w \in Seq(Frames) /\ b \in Seq(Frames)
      BY <2>2
    <3> HIDE DEF w, b
    <3>2. w \o Append(b, f) = Append(w \o b, f)
      BY <3>1, HoldLast
    <3> QED BY <3>2 DEF w, b
  <2> QED BY <2>1, <2>3 DEF Story
<1> QED BY <1>2, <1>4, <1>6, <1>7

LEMMA LeaveLine ==
  ASSUME NEW seq \in Seq(Streams), NEW fl \in SUBSET Streams, Lined(seq, fl),
         NEW s \in Streams
  PROVE  RemoveFirst(seq, s) \in Seq(Streams) /\ Lined(RemoveFirst(seq, s), fl \ {s})
<1> DEFINE rd == RemoveFirst(seq, s)
<1>2. /\ \A i, j \in 1..Len(seq) : seq[i] = seq[j] => i = j
      /\ \A t \in Streams : t \in fl <=> \E i \in 1..Len(seq) : seq[i] = t
  BY DEF Lined
<1>3. CASE ~ \E i \in 1..Len(seq) : seq[i] = s
  <2>1. rd = seq
    BY <1>3 DEF RemoveFirst
  <2>2. fl \ {s} = fl
    BY <1>2, <1>3
  <2> QED BY <2>1, <2>2
<1>4. CASE \E i \in 1..Len(seq) : seq[i] = s
  <2>1. PICK k \in 1..Len(seq) : seq[k] = s
    BY <1>4
  <2>2. SelectInSeq(seq, LAMBDA v : v = s) = k
    <3>1. {i \in 1..Len(seq) : seq[i] = s} = {k}
      BY <1>2, <2>1
    <3>2. Min({k}) = k
      <4>1. \E x \in {k} : \A y \in {k} : x <= y
        OBVIOUS
      <4>2. Min({k}) \in {k}
        BY <4>1 DEF Min
      <4> QED BY <4>2
    <3> QED BY <3>1, <3>2 DEF SelectInSeq
  <2>3. rd = RemoveAt(seq, k)
    BY <1>4, <2>2 DEF RemoveFirst
  <2>4. Len(seq) \in Nat /\ k \in Nat /\ 1 <= k /\ k <= Len(seq)
    OBVIOUS
  <2>5. /\ rd \in Seq(Streams) /\ Len(rd) = Len(seq) - 1
        /\ \A i \in 1..Len(rd) : rd[i] = IF i < k THEN seq[i] ELSE seq[i + 1]
    BY <2>3, RemoveAtFacts
  <2> HIDE DEF rd
  <2>6. ASSUME NEW i \in 1..Len(rd), NEW j \in 1..Len(rd), rd[i] = rd[j]
        PROVE  i = j
    <3> DEFINE at(n) == IF n < k THEN n ELSE n + 1
    <3>1. /\ at(i) \in 1..Len(seq) /\ at(j) \in 1..Len(seq)
          /\ seq[at(i)] = rd[i] /\ seq[at(j)] = rd[j]
      BY <2>4, <2>5
    <3>2. at(i) = at(j)
      BY <1>2, <2>6, <3>1
    <3> QED BY <2>4, <3>2
  <2>7. ASSUME NEW t \in Streams, t \in fl \ {s}
        PROVE  \E i \in 1..Len(rd) : rd[i] = t
    <3>1. PICK n \in 1..Len(seq) : seq[n] = t
      BY <1>2, <2>7
    <3>2. n # k
      BY <2>1, <2>7, <3>1
    <3>3. CASE n < k
      <4>1. n \in 1..Len(rd) /\ rd[n] = t
        BY <2>4, <2>5, <3>1, <3>3
      <4> QED BY <4>1
    <3>4. CASE n > k
      <4>1. n - 1 \in 1..Len(rd) /\ rd[n - 1] = t
        BY <2>4, <2>5, <3>1, <3>4
      <4> QED BY <4>1
    <3> QED BY <2>4, <3>2, <3>3, <3>4
  <2>8. ASSUME NEW t \in Streams, NEW i \in 1..Len(rd), rd[i] = t
        PROVE  t \in fl \ {s}
    <3>1. PICK n \in 1..Len(seq) : n # k /\ seq[n] = t
      BY <2>4, <2>5, <2>8
    <3> QED BY <1>2, <2>1, <3>1
  <2> QED BY <2>5, <2>6, <2>7, <2>8 DEF rd, Lined
<1> QED BY <1>3, <1>4

LEMMA DroppedInv ==
  ASSUME NEW q \in Senders, SenderInv(q), NEW s \in Streams
  PROVE  LET d == Dropped(q, s) IN
         /\ SenderInv(d) /\ d.closed = q.closed
         /\ d.ready # <<>> => q.ready # <<>>
         /\ d.inFlight = q.inFlight
         /\ Story(d, s) = q.wire[s]
         /\ \A t \in Streams : t # s => Story(d, t) = Story(q, t)
<1>1. /\ q.ready \in Seq(Streams) /\ q.items \in [Streams -> Seq(Frames)]
      /\ q.wire \in [Streams -> Seq(Frames)] /\ q.flagged \subseteq Streams
      /\ q.queues \subseteq Streams
  BY SenderFields
<1>2. CASE s \notin q.queues
  <2>1. Dropped(q, s) = q
    BY <1>2 DEF Dropped
  <2>2. q.items[s] = <<>>
    BY <1>2, LimitsAssumption DEF SenderInv, NoLostWakeup
  <2>3. q.wire[s] \o <<>> = q.wire[s]
    BY <1>1
  <2> QED BY <2>1, <2>2, <2>3 DEF Story
<1>3. CASE s \in q.queues
  <2> DEFINE its == [q.items EXCEPT ![s] = <<>>]
             fl == q.flagged \ {s}
             rd == RemoveFirst(q.ready, s)
             qs == IF q.inFlight = s THEN q.queues ELSE q.queues \ {s}
             d == [q EXCEPT !.items = its, !.flagged = fl, !.ready = rd, !.queues = qs]
  <2>1. Dropped(q, s) = d
    BY <1>3 DEF Dropped
  <2>2. rd \in Seq(Streams) /\ Lined(rd, fl)
    BY <1>1, LeaveLine DEF SenderInv, LineConsistent
  <2>3. its \in Backlogs /\ fl \in StreamSets /\ rd \in Lines /\ qs \in StreamSets
    BY <1>1, <2>2 DEF Backlogs, StreamSets, Lines
  <2>4. \A t \in Streams : its[t] = IF t = s THEN <<>> ELSE q.items[t]
    BY <1>1
  <2>5. rd # <<>> => q.ready # <<>>
    BY <1>1 DEF RemoveFirst
  <2>6. s \notin fl /\ fl \subseteq q.flagged /\ \A t \in q.flagged : t = s \/ t \in fl
    OBVIOUS
  <2>7. qs \subseteq q.queues /\ (\A t \in q.queues : t = s \/ t \in qs)
        /\ (q.inFlight = s => s \in qs)
    BY <1>3
  <2> HIDE DEF its, fl, rd, qs
  <2>8. d \in Senders
    BY <2>3 DEF Senders
  <2>9. /\ d.items = its /\ d.flagged = fl /\ d.ready = rd /\ d.queues = qs
        /\ d.inFlight = q.inFlight /\ d.closed = q.closed /\ d.wire = q.wire
    BY DEF Senders
  <2> HIDE DEF d
  <2>10. LineConsistent(d)
    BY <2>2, <2>9 DEF LineConsistent
  <2>11. NoLostWakeup(d)
    <3>1. \A t \in Streams : d.items[t] # <<>> => t \in d.flagged \/ d.inFlight = t
      BY <2>4, <2>6, <2>9 DEF SenderInv, NoLostWakeup
    <3>2. ASSUME NEW t \in d.flagged
          PROVE  d.items[t] # <<>> /\ t \in d.queues /\ d.inFlight # t
      <4>1. t \in q.flagged /\ t # s /\ t \in Streams
        BY <1>1, <2>6, <2>9
      <4>2. q.items[t] # <<>> /\ t \in q.queues /\ q.inFlight # t
        BY <4>1 DEF SenderInv, NoLostWakeup
      <4> QED BY <2>4, <2>7, <2>9, <4>1, <4>2
    <3>3. ~d.closed /\ d.inFlight # NoStream => d.inFlight \in d.queues
      BY <2>7, <2>9 DEF SenderInv, NoLostWakeup
    <3> QED BY <3>1, <3>2, <3>3 DEF NoLostWakeup
  <2>12. d.closed => d.ready = <<>> /\ \A t \in Streams : d.items[t] = <<>>
    BY <2>4, <2>5, <2>9 DEF SenderInv
  <2>13. Story(d, s) = q.wire[s]
    <3>1. q.wire[s] \o <<>> = q.wire[s]
      BY <1>1
    <3> QED BY <2>4, <2>9, <3>1 DEF Story
  <2>14. \A t \in Streams : t # s => Story(d, t) = Story(q, t)
    BY <2>4, <2>9 DEF Story
  <2> QED BY <2>1, <2>5, <2>8, <2>9, <2>10, <2>11, <2>12, <2>13, <2>14 DEF SenderInv
<1> QED BY <1>2, <1>3

(* The frame in flight has left the socket; a closed sender only forgets it. *)
LEMMA LandedInv ==
  ASSUME NEW q \in Senders
  PROVE  /\ Landed(q) \in Senders
         /\ Landed(q).wire = q.wire
         /\ Landed(q).closed = q.closed
         /\ SenderInv(q) /\ q.closed => SenderInv(Landed(q))
         /\ \A s \in Streams : Story(Landed(q), s) = Story(q, s)
<1>1. Landed(q) \in Senders
  BY NothingType DEF Landed, Senders
<1>2. /\ Landed(q).wire = q.wire /\ Landed(q).closed = q.closed
      /\ Landed(q).items = q.items /\ Landed(q).ready = q.ready
      /\ Landed(q).flagged = q.flagged /\ Landed(q).queues = q.queues
      /\ Landed(q).inFlight = NoStream
  BY DEF Landed, Senders
<1>3. ASSUME SenderInv(q), q.closed
      PROVE  SenderInv(Landed(q))
  <2>1. LineConsistent(Landed(q))
    BY <1>2, <1>3 DEF SenderInv, LineConsistent
  <2>2. NoLostWakeup(Landed(q))
    <3>1. q.flagged \subseteq Streams /\ NoStream \notin Streams
      BY SenderFields, LimitsAssumption
    <3> QED BY <1>2, <1>3, <3>1 DEF SenderInv, NoLostWakeup
  <2> QED BY <1>1, <1>2, <1>3, <2>1, <2>2 DEF SenderInv
<1>4. \A s \in Streams : Story(Landed(q), s) = Story(q, s)
  BY <1>2 DEF Story
<1> QED BY <1>1, <1>2, <1>3, <1>4

LEMMA ReleasedInv ==
  ASSUME NEW q \in Senders, SenderInv(q), q.inFlight # NoStream
  PROVE  LET r == Released(q) IN
         /\ SenderInv(r) /\ r.closed = q.closed
         /\ \A s \in Streams : Story(r, s) = Story(q, s)
<1> DEFINE s == q.inFlight
           r == Released(q)
<1>0. /\ q.ready \in Seq(Streams) /\ q.items \in [Streams -> Seq(Frames)]
      /\ q.wire \in [Streams -> Seq(Frames)] /\ q.flagged \subseteq Streams
      /\ q.queues \subseteq Streams /\ s \in Streams /\ NoStream \notin Streams
      /\ q.closed \in BOOLEAN
  BY SenderFields, LimitsAssumption
<1>1. CASE s \notin q.queues
  <2>1. r = Landed(q)
    BY <1>1 DEF Released
  <2>2. q.closed
    BY <1>0, <1>1 DEF SenderInv, NoLostWakeup
  <2> QED BY <2>1, <2>2, LandedInv
<1>2. CASE s \in q.queues /\ q.items[s] # <<>>
  <2> DEFINE fl == q.flagged \cup {s}
             rd == Append(q.ready, s)
             d == [q EXCEPT !.inFlight = NoStream, !.flight = NoFrame,
                            !.flagged = fl, !.ready = rd]
  <2>1. r = d
    BY <1>2 DEF Released
  <2>2. fl \in StreamSets /\ rd \in Lines /\ NoStream \in InFlights /\ NoFrame \in Frames
    BY <1>0, NothingType DEF StreamSets, Lines
  <2>3. s \notin q.flagged
    BY DEF SenderInv, NoLostWakeup
  <2> HIDE DEF fl, rd
  <2>4. d \in Senders
    BY <2>2 DEF Senders
  <2>5. /\ d.flagged = fl /\ d.ready = rd /\ d.items = q.items /\ d.queues = q.queues
        /\ d.inFlight = NoStream /\ d.closed = q.closed /\ d.wire = q.wire
    BY DEF Senders
  <2> HIDE DEF d
  <2>6. LineConsistent(d)
    <3>1. /\ q.ready \in Seq(Streams) /\ q.flagged \in SUBSET Streams
          /\ s \notin q.flagged /\ Lined(q.ready, q.flagged)
      BY <1>0, <2>3 DEF SenderInv, LineConsistent
    <3>2. d.ready = Append(q.ready, s) /\ d.flagged = q.flagged \cup {s}
      BY <2>5 DEF fl, rd
    <3>3. Lined(Append(q.ready, s), q.flagged \cup {s})
      BY <1>0, <3>1, JoinLine
    <3> QED BY <3>2, <3>3 DEF LineConsistent
  <2>7. NoLostWakeup(d)
    BY <1>0, <1>2, <2>5 DEF SenderInv, NoLostWakeup, fl
  <2>8. ~q.closed
    BY <1>0, <1>2 DEF SenderInv
  <2>9. \A t \in Streams : Story(d, t) = Story(q, t)
    BY <2>5 DEF Story
  <2> QED BY <2>1, <2>4, <2>5, <2>6, <2>7, <2>8, <2>9 DEF SenderInv
<1>3. CASE s \in q.queues /\ q.items[s] = <<>>
  <2> DEFINE qs == q.queues \ {s}
             d == [q EXCEPT !.inFlight = NoStream, !.flight = NoFrame, !.queues = qs]
  <2>1. r = d
    BY <1>3 DEF Released
  <2>2. qs \in StreamSets /\ NoStream \in InFlights /\ NoFrame \in Frames
    BY <1>0, NothingType DEF StreamSets
  <2>3. \A t \in q.queues : t = s \/ t \in qs
    OBVIOUS
  <2> HIDE DEF qs
  <2>4. d \in Senders
    BY <2>2 DEF Senders
  <2>5. /\ d.flagged = q.flagged /\ d.ready = q.ready /\ d.items = q.items /\ d.queues = qs
        /\ d.inFlight = NoStream /\ d.closed = q.closed /\ d.wire = q.wire
    BY DEF Senders
  <2> HIDE DEF d
  <2>6. LineConsistent(d)
    BY <2>5 DEF SenderInv, LineConsistent, Lined
  <2>7. NoLostWakeup(d)
    BY <1>0, <1>3, <2>3, <2>5 DEF SenderInv, NoLostWakeup
  <2>8. \A t \in Streams : Story(d, t) = Story(q, t)
    BY <2>5 DEF Story
  <2> QED BY <2>1, <2>4, <2>5, <2>6, <2>7, <2>8 DEF SenderInv
<1> QED BY <1>1, <1>2, <1>3

(***************************************************************************)
(* Part 2.  The order of the frames of one stream, as a fact about         *)
(* sequences: a story grows by its next item, ends with one terminal       *)
(* frame, or is cut back to what is on the wire.                           *)
(***************************************************************************)
LEMMA GrowItem ==
  ASSUME NEW st \in Seq(Frames), NEW f \in Frames,
         Ordered(st, FALSE, Len(st)), f.kind = "item", f.seq = Len(st) + 1
  PROVE  Ordered(Append(st, f), FALSE, Len(st) + 1)
<1>1. Len(st) \in Nat /\ Len(Append(st, f)) = Len(st) + 1
  OBVIOUS
<1>2. ASSUME NEW i \in 1..Len(Append(st, f))
      PROVE  /\ Append(st, f)[i].kind = "item" /\ Append(st, f)[i].seq = i
             /\ i <= Len(st) + 1
  <2>1. CASE i = Len(st) + 1
    BY <2>1
  <2>2. CASE i \in 1..Len(st)
    BY <2>2 DEF Ordered
  <2> QED BY <1>1, <2>1, <2>2
<1> QED BY <1>2 DEF Ordered

LEMMA GrowTerminal ==
  ASSUME NEW st \in Seq(Frames), NEW f \in Frames, NEW made \in Nat,
         Ordered(st, FALSE, made), f.kind # "item", f.kind = "end" => made = Len(st)
  PROVE  Ordered(Append(st, f), TRUE, made)
<1>1. Len(st) \in Nat /\ Len(Append(st, f)) = Len(st) + 1
  OBVIOUS
<1>2. ASSUME NEW i \in 1..Len(st)
      PROVE  Append(st, f)[i] = st[i] /\ st[i].kind = "item" /\ st[i].seq = i /\ i <= made
  BY DEF Ordered
<1>3. Append(st, f)[Len(st) + 1] = f
  OBVIOUS
<1>4. \A i \in 1..Len(Append(st, f)) : i \in 1..Len(st) \/ i = Len(st) + 1
  BY <1>1
<1> QED BY <1>1, <1>2, <1>3, <1>4 DEF Ordered

LEMMA CutBack ==
  ASSUME NEW w \in Seq(Frames), NEW x \in Seq(Frames), NEW over \in BOOLEAN, NEW made \in Nat,
         Ordered(w \o x, over, made)
  PROVE  Ordered(w, over, made)
<1>1. /\ Len(w \o x) = Len(w) + Len(x) /\ Len(w) \in Nat /\ Len(x) \in Nat
      /\ \A i \in 1..Len(w) : i \in 1..Len(w \o x) /\ (w \o x)[i] = w[i]
  OBVIOUS
<1>2. ASSUME NEW i \in 1..Len(w)
      PROVE  /\ w[i].kind = "item" => w[i].seq = i /\ i <= made
             /\ w[i].kind # "item" => over /\ i = Len(w \o x)
             /\ w[i].kind = "end" => i = made + 1
  BY <1>1 DEF Ordered
<1>3. ASSUME NEW i \in 1..Len(w), i = Len(w \o x)
      PROVE  i = Len(w)
  BY <1>1, <1>3
<1> QED BY <1>2, <1>3 DEF Ordered

LEMMA OrderedWeaker ==
  ASSUME NEW st \in Seq(Frames), NEW made \in Nat, NEW more \in Nat, made <= more,
         NEW over \in BOOLEAN, Ordered(st, FALSE, made)
  PROVE  Ordered(st, over, more)
BY DEF Ordered

(***************************************************************************)
(* Part 3.  The multiplexer: the inductive invariant and its preservation. *)
(***************************************************************************)
LEMMA InitIInv == Init => IInv
<1> SUFFICES ASSUME Init PROVE IInv
  OBVIOUS
<1>1. TypeOK
  BY NewSenderInv DEF Init, TypeOK, SenderInv
<1>2. SenderInv(sender) /\ ~sender.closed /\ sender.ready = <<>>
  BY NewSenderInv DEF Init, NewSender
<1>3. ASSUME NEW s \in Streams
      PROVE  StreamInv(s)
  <2>1. Story(sender, s) = <<>>
    <3>1. sender.wire[s] = <<>> /\ sender.items[s] = <<>>
      BY DEF Init, NewSender, NothingHeld
    <3> QED BY <3>1 DEF Story
  <2> QED BY <2>1 DEF Init, StreamInv, Ordered
<1> QED BY <1>1, <1>2, <1>3 DEF IInv, Init

LEMMA StoryType ==
  ASSUME NEW q \in Senders, NEW s \in Streams
  PROVE  Story(q, s) \in Seq(Frames) /\ q.wire[s] \in Seq(Frames) /\ q.items[s] \in Seq(Frames)
<1>1. q.wire[s] \in Seq(Frames) /\ q.items[s] \in Seq(Frames)
  BY SenderFields
<1> QED BY <1>1 DEF Story

(* failSocket, from any sender with the same wire, releases every stream. *)
LEMMA FailStep ==
  ASSUME IInv, NEW q \in Senders, q.wire = sender.wire, FailSocket(q),
         readyState' \in {"open", "closing", "closed"},
         pump' \in [Streams -> {"none", "awaiting", "stopped", "exhausted"}],
         produced' \in [Streams -> Nat],
         streamPrefix' \in PagePrefixes \cup {NoPrefix}, lastStreamNumber' \in Nat,
         \A s \in Streams : produced[s] <= produced'[s],
         \A s \in Streams : status[s] # "open" =>
            produced'[s] = produced[s] /\ pump'[s] = pump[s]
  PROVE  IInv'
<1>1. /\ SenderInv(sender') /\ sender'.closed
      /\ \A s \in Streams : Story(sender', s) = sender.wire[s]
  BY ClosedInv DEF FailSocket
<1>2. /\ status' = [s \in Streams |-> IF status[s] = "open" THEN "gone" ELSE status[s]]
      /\ returned' = [s \in Streams |-> returned[s] \/ status[s] = "open"]
  BY DEF FailSocket
<1>3. status \in [Streams -> {"new", "open", "gone"}] /\ returned \in [Streams -> BOOLEAN]
      /\ produced \in [Streams -> Nat] /\ sender \in Senders
  BY DEF IInv, TypeOK
<1>4. TypeOK'
  <2>1. status' \in [Streams -> {"new", "open", "gone"}] /\ returned' \in [Streams -> BOOLEAN]
    BY <1>2, <1>3
  <2>2. sender' \in Senders
    BY <1>1 DEF SenderInv
  <2> QED BY <2>1, <2>2 DEF TypeOK
<1>5. ASSUME NEW s \in Streams
      PROVE  StreamInv(s)'
  <2>1. StreamInv(s)
    BY DEF IInv
  <2>2. sender.wire[s] \in Seq(Frames) /\ sender.items[s] \in Seq(Frames)
    BY <1>3, StoryType
  <2>3. Ordered(sender.wire[s], status[s] = "gone", produced[s])
    <3> DEFINE g == status[s] = "gone"
    <3>1. Ordered(sender.wire[s] \o sender.items[s], g, produced[s]) /\ g \in BOOLEAN
      BY <2>1 DEF StreamInv, Story
    <3> HIDE DEF g
    <3>2. Ordered(sender.wire[s], g, produced[s])
      BY <1>3, <2>2, <3>1, CutBack
    <3> QED BY <3>2 DEF g
  <2>4. CASE status[s] = "open"
    <3>1. Ordered(sender.wire[s], TRUE, produced'[s])
      <4>1. produced[s] \in Nat /\ produced'[s] \in Nat /\ produced[s] <= produced'[s]
        BY <1>3
      <4>2. Ordered(sender.wire[s], FALSE, produced[s])
        BY <2>3, <2>4
      <4> QED BY <2>2, <4>1, <4>2, OrderedWeaker
    <3>2. status'[s] = "gone" /\ returned'[s]
      BY <1>2, <2>4
    <3> QED BY <1>1, <3>1, <3>2 DEF StreamInv
  <2>5. CASE status[s] # "open"
    <3>1. status'[s] = status[s] /\ returned'[s] = returned[s]
          /\ produced'[s] = produced[s] /\ pump'[s] = pump[s]
      BY <1>2, <1>3, <2>5
    <3>2. status[s] = "new" => sender.wire[s] = <<>>
      BY <2>1, <2>2 DEF StreamInv, Story
    <3> QED BY <1>1, <2>1, <2>3, <2>5, <3>1, <3>2 DEF StreamInv
  <2> QED BY <2>4, <2>5
<1>6. sender'.closed => \A s \in Streams : status'[s] # "open"
  BY <1>2
<1>7. ~sender'.closed /\ readyState' = "open" /\ sender'.ready # <<>> => sender'.inFlight # NoStream
  BY <1>1
<1> QED BY <1>1, <1>4, <1>5, <1>6, <1>7 DEF IInv

LEMMA DroppedWire ==
  ASSUME NEW q \in Senders, NEW s \in Streams
  PROVE  Dropped(q, s).wire = q.wire
BY DEF Dropped, Senders

(* A step that changes one stream and the sender: the other streams keep   *)
(* their invariant when their story is kept.                               *)
LEMMA OneStreamStep ==
  ASSUME IInv, NEW s \in Streams, TypeOK', SenderInv(sender'), ~sender'.closed,
         readyState' = readyState,
         readyState = "open" /\ sender'.ready # <<>> => sender'.inFlight # NoStream,
         \A t \in Streams : t # s =>
           /\ Story(sender', t) = Story(sender, t)
           /\ status'[t] = status[t] /\ returned'[t] = returned[t]
           /\ pump'[t] = pump[t] /\ produced'[t] = produced[t],
         StreamInv(s)'
  PROVE  IInv'
<1>1. ASSUME NEW t \in Streams, t # s
      PROVE  StreamInv(t)'
  <2>1. StreamInv(t)
    BY DEF IInv
  <2>2. /\ Story(sender', t) = Story(sender, t)
        /\ status'[t] = status[t] /\ returned'[t] = returned[t]
        /\ pump'[t] = pump[t] /\ produced'[t] = produced[t]
    BY <1>1
  <2> QED BY <2>1, <2>2 DEF StreamInv
<1> QED BY <1>1 DEF IInv

(* What a forced last frame of s does to s when the socket survives it.    *)
Ends(s) ==
  /\ status' = [status EXCEPT ![s] = "gone"]
  /\ returned' \in [Streams -> BOOLEAN]
  /\ \A t \in Streams : t # s => returned'[t] = returned[t]
  /\ returned'[s] \/ pump'[s] \in {"exhausted", "none"}

LEMMA EndingStep ==
  ASSUME IInv, NEW s \in Streams, NEW f \in Frames, f.kind # "item",
         NEW q \in Senders, SenderInv(q), ~q.closed, q.wire = sender.wire,
         q.ready # <<>> => sender.ready # <<>>, q.inFlight = sender.inFlight,
         ~sender.closed,
         \A t \in Streams : t # s => Story(q, t) = Story(sender, t),
         Ordered(Story(q, s), FALSE, produced'[s]),
         f.kind = "end" => produced'[s] = Len(Story(q, s)),
         NEW c, Forced(q, c, s, f, Ends(s)),
         pump' \in [Streams -> {"none", "awaiting", "stopped", "exhausted"}],
         produced' \in [Streams -> Nat], produced[s] <= produced'[s],
         streamPrefix' \in PagePrefixes \cup {NoPrefix}, lastStreamNumber' \in Nat,
         \A t \in Streams : t # s \/ status[t] # "open" =>
            produced'[t] = produced[t] /\ pump'[t] = pump[t]
  PROVE  IInv'
<1>1. /\ status \in [Streams -> {"new", "open", "gone"}] /\ sender \in Senders
      /\ readyState \in {"open", "closing", "closed"}
  BY DEF IInv, TypeOK
<1>2. Story(q, s) \in Seq(Frames) /\ produced'[s] \in Nat /\ produced'[s] <= produced'[s]
  BY StoryType
<1>3. CASE FailSocket(q) /\ CloseSocket
  <2>1. readyState' \in {"open", "closing", "closed"}
    BY <1>1, <1>3 DEF CloseSocket
  <2>2. \A t \in Streams : status[t] # "open" => produced'[t] = produced[t] /\ pump'[t] = pump[t]
    OBVIOUS
  <2>3. ASSUME NEW t \in Streams PROVE produced[t] <= produced'[t]
    <3>1. produced[t] \in Nat
      BY DEF IInv, TypeOK
    <3>2. CASE t = s
      BY <3>2
    <3>3. CASE t # s
      BY <3>1, <3>3
    <3> QED BY <3>2, <3>3
  <2> QED BY <1>3, <2>1, <2>2, <2>3, FailStep
<1>4. CASE \/ readyState # "open" /\ sender' = q
           \/ readyState = "open" /\ sender' = Accepted(q, s, f)
  <2>0. CASE ~(FailSocket(q) /\ CloseSocket)
    <3>1. Ends(s) /\ readyState' = readyState
      BY <1>4, <2>0 DEF Forced
    <3>2. /\ SenderInv(sender') /\ ~sender'.closed
          /\ readyState = "open" /\ sender'.ready # <<>> => sender'.inFlight # NoStream
          /\ \A t \in Streams : t # s => Story(sender', t) = Story(sender, t)
          /\ Ordered(Story(sender', s), TRUE, produced'[s])
      <4>1. CASE readyState # "open" /\ sender' = q
        BY <1>2, <4>1, OrderedWeaker
      <4>2. CASE readyState = "open" /\ sender' = Accepted(q, s, f)
        <5> DEFINE a == Accepted(q, s, f)
        <5>1. /\ SenderInv(a) /\ ~a.closed
              /\ a.ready # <<>> => a.inFlight # NoStream
              /\ Story(a, s) = Append(Story(q, s), f)
              /\ \A t \in Streams : t # s => Story(a, t) = Story(q, t)
          BY AcceptedInv
        <5> HIDE DEF a
        <5>2. Ordered(Append(Story(q, s), f), TRUE, produced'[s])
          <6> DEFINE st == Story(q, s)
                     made == produced'[s]
          <6>1. st \in Seq(Frames) /\ made \in Nat /\ Ordered(st, FALSE, made)
                /\ (f.kind = "end" => made = Len(st))
            BY <1>2
          <6> HIDE DEF st, made
          <6>2. Ordered(Append(st, f), TRUE, made)
            BY <6>1, GrowTerminal
          <6> QED BY <6>2 DEF st, made
        <5>3. sender' = a
          BY <4>2 DEF a
        <5> QED BY <5>1, <5>2, <5>3
      <4> QED BY <1>4, <4>1, <4>2
    <3>3. TypeOK'
      BY <1>1, <3>1, <3>2 DEF TypeOK, Ends, SenderInv
    <3>4. /\ status'[s] = "gone"
          /\ \A t \in Streams : t # s => status'[t] = status[t]
      BY <1>1, <3>1 DEF Ends
    <3>5. StreamInv(s)'
      BY <3>1, <3>2, <3>4 DEF StreamInv, Ends
    <3> QED BY <3>1, <3>2, <3>3, <3>4, <3>5, OneStreamStep DEF Ends
  <2> QED BY <1>3, <2>0
<1> QED BY <1>3, <1>4 DEF Forced

(* A frame of the code is a frame of the model. *)
LEMMA FrameType ==
  /\ \A k \in {"item", "end", "error"}, n \in Nat, b \in Nat :
       /\ Frame(k, n, b) \in Frames
       /\ Frame(k, n, b).kind = k /\ Frame(k, n, b).seq = n
  /\ \A b \in ItemSizes \cup ErrorSizes \cup {EndBytes, OverflowBytes} : b \in Nat
BY MuxAssumption DEF Frame, Frames

(* failSocket answering a message or an event, no pump involved. *)
LEMMA SocketFailsStep ==
  ASSUME IInv, FailSocket(sender), readyState' \in {"open", "closing", "closed"},
         UNCHANGED <<pump, produced, streamPrefix, lastStreamNumber>>
  PROVE  IInv'
<1>1. /\ sender \in Senders /\ pump \in [Streams -> {"none", "awaiting", "stopped", "exhausted"}]
      /\ produced \in [Streams -> Nat]
      /\ streamPrefix \in PagePrefixes \cup {NoPrefix} /\ lastStreamNumber \in Nat
  BY DEF IInv, TypeOK
<1> QED BY <1>1, FailStep

(* An open that is answered with an error frame. *)
LEMMA RefusedStep ==
  ASSUME IInv, Listening, NEW s \in Streams, status[s] = "new",
         NEW b \in ErrorSizes,
         Forced(sender, charges, s, Frame("error", 0, b),
                /\ status' = [status EXCEPT ![s] = "gone"]
                /\ UNCHANGED returned),
         UNCHANGED <<pump, produced>>,
         streamPrefix' \in PagePrefixes \cup {NoPrefix}, lastStreamNumber' \in Nat
  PROVE  IInv'
<1> DEFINE f == Frame("error", 0, b)
<1>1. /\ f \in Frames /\ f.kind = "error"
  BY FrameType
<1>2. /\ TypeOK /\ SenderInv(sender) /\ StreamInv(s) /\ ~sender.closed
  BY DEF IInv, Listening
<1>3. /\ Ordered(Story(sender, s), FALSE, produced'[s]) /\ pump'[s] = "none"
      /\ produced[s] <= produced'[s]
  <2>1. produced[s] \in Nat /\ produced'[s] = produced[s] /\ pump'[s] = pump[s]
    BY <1>2 DEF TypeOK
  <2>2. Ordered(Story(sender, s), FALSE, produced'[s]) /\ pump'[s] = "none"
    BY <1>2 DEF StreamInv
  <2>3. produced[s] <= produced'[s]
    BY <2>1
  <2> QED BY <2>2, <2>3
<1>4. Forced(sender, charges, s, f, Ends(s))
  BY <1>2, <1>3 DEF Forced, Ends, TypeOK
<1> HIDE DEF f
<1> QED BY <1>1, <1>2, <1>3, <1>4, EndingStep DEF TypeOK

(* The last frame of an open stream, its backlog kept or dropped before. *)
LEMMA TerminalStep ==
  ASSUME IInv, NEW s \in Streams, Live(s), pump[s] = "awaiting",
         NEW f \in Frames, f.kind # "item",
         NEW q \in Senders, SenderInv(q), ~q.closed, q.wire = sender.wire,
         q.ready # <<>> => sender.ready # <<>>, q.inFlight = sender.inFlight,
         \A t \in Streams : t # s => Story(q, t) = Story(sender, t),
         Ordered(Story(q, s), FALSE, produced'[s]),
         f.kind = "end" => produced'[s] = Len(Story(q, s)),
         NEW c, Terminal(q, c, s, f),
         NEW how \in {"stopped", "exhausted"}, Stop(s, how),
         how = "stopped" => f.kind = "error",
         produced' \in [Streams -> Nat], produced[s] <= produced'[s],
         \A t \in Streams : t # s => produced'[t] = produced[t],
         UNCHANGED <<streamPrefix, lastStreamNumber>>
  PROVE  IInv'
<1>1. TypeOK /\ ~sender.closed /\ status[s] = "open"
  BY DEF IInv, Live
<1>2. /\ pump' \in [Streams -> {"none", "awaiting", "stopped", "exhausted"}]
      /\ pump'[s] = how
      /\ \A t \in Streams : t # s => pump'[t] = pump[t]
  BY <1>1 DEF Stop, TypeOK
<1>3. Forced(q, c, s, f, Ends(s))
  <2>1. ASSUME /\ status' = [status EXCEPT ![s] = "gone"]
               /\ returned' = [returned EXCEPT ![s] = @ \/ f.kind = "error"]
        PROVE  Ends(s)
    <3>1. /\ returned' \in [Streams -> BOOLEAN]
          /\ \A t \in Streams : t # s => returned'[t] = returned[t]
          /\ f.kind = "error" => returned'[s]
      BY <1>1, <2>1 DEF TypeOK
    <3>2. returned'[s] \/ pump'[s] \in {"exhausted", "none"}
      BY <1>2, <3>1
    <3> QED BY <2>1, <3>1, <3>2 DEF Ends
  <2>2. Forced(q, c, s, f, /\ status' = [status EXCEPT ![s] = "gone"]
                           /\ returned' = [returned EXCEPT ![s] = @ \/ f.kind = "error"])
    BY DEF Terminal
  <2> QED BY <2>1, <2>2 DEF Forced
<1>4. \A t \in Streams : t # s \/ status[t] # "open" =>
        produced'[t] = produced[t] /\ pump'[t] = pump[t]
  BY <1>1, <1>2
<1> QED BY <1>1, <1>2, <1>3, <1>4, EndingStep DEF TypeOK

(* The iterator of s yields its next item. *)
LEMMA PumpItemStep ==
  ASSUME IInv, NEW s \in Streams, PumpItem(s)
  PROVE  IInv'
<1>1. /\ TypeOK /\ SenderInv(sender) /\ StreamInv(s) /\ ~sender.closed
      /\ status[s] = "open" /\ pump[s] = "awaiting"
      /\ UNCHANGED <<streamPrefix, lastStreamNumber>>
      /\ Live(s)
  BY DEF IInv, PumpItem, Live
<1>2. /\ produced' \in [Streams -> Nat]
      /\ produced'[s] = produced[s] + 1 /\ produced[s] \in Nat
      /\ produced[s] <= produced'[s] /\ produced'[s] \in Nat
      /\ \A t \in Streams : t # s => produced'[t] = produced[t]
  BY <1>1 DEF PumpItem, TypeOK
<1>3. /\ Story(sender, s) \in Seq(Frames) /\ Len(Story(sender, s)) = produced[s]
      /\ Ordered(Story(sender, s), FALSE, produced[s])
  BY <1>1, StoryType DEF StreamInv, TypeOK
<1>4. PICK b \in ItemSizes :
        LET f == Frame("item", produced[s] + 1, b)
            limit == Exceeds(charges, s, f)
        IN  \/ /\ readyState # "open"
               /\ Stop(s, "stopped")
               /\ UNCHANGED <<sender, charges, status, returned, readyState>>
            \/ /\ readyState = "open" /\ limit = "none"
               /\ sender' = Accepted(sender, s, f)
               /\ charges' = Charged(charges, s, b)
               /\ UNCHANGED <<pump, status, returned, readyState>>
            \/ /\ readyState = "open" /\ limit \in {"frame", "stream"}
               /\ Overflow(s)
               /\ Stop(s, "stopped")
            \/ /\ readyState = "open" /\ limit = "socket"
               /\ FailSocket(sender) /\ CloseSocket
               /\ Stop(s, "stopped")
  BY DEF PumpItem
<1> DEFINE f == Frame("item", produced[s] + 1, b)
<1>5. f \in Frames /\ f.kind = "item" /\ f.seq = produced[s] + 1
  BY <1>2, FrameType
<1>6. ASSUME Stop(s, "stopped")
      PROVE  /\ pump' \in [Streams -> {"none", "awaiting", "stopped", "exhausted"}]
             /\ pump'[s] = "stopped"
             /\ \A t \in Streams : t # s => pump'[t] = pump[t]
  BY <1>1, <1>6 DEF Stop, TypeOK
<1>7. CASE /\ readyState # "open" /\ Stop(s, "stopped")
           /\ UNCHANGED <<sender, charges, status, returned, readyState>>
  <2>1. TypeOK'
    BY <1>1, <1>2, <1>6, <1>7 DEF TypeOK
  <2>2. Ordered(Story(sender, s), FALSE, produced'[s])
    BY <1>2, <1>3, OrderedWeaker
  <2>3. StreamInv(s)'
    BY <1>1, <1>6, <1>7, <2>2 DEF StreamInv
  <2> QED BY <1>1, <1>2, <1>6, <1>7, <2>1, <2>3, OneStreamStep
<1>8. CASE /\ readyState = "open"
           /\ sender' = Accepted(sender, s, f)
           /\ UNCHANGED <<pump, status, returned, readyState>>
  <2> DEFINE a == Accepted(sender, s, f)
  <2>1. /\ SenderInv(a) /\ ~a.closed
        /\ a.ready # <<>> => a.inFlight # NoStream
        /\ Story(a, s) = Append(Story(sender, s), f)
        /\ \A t \in Streams : t # s => Story(a, t) = Story(sender, t)
    BY <1>1, <1>5, AcceptedInv DEF TypeOK
  <2>2. sender' = a
    BY <1>8
  <2> HIDE DEF a, f
  <2>3. TypeOK'
    BY <1>1, <1>2, <1>8, <2>1, <2>2 DEF TypeOK, SenderInv
  <2>4. /\ Ordered(Append(Story(sender, s), f), FALSE, produced[s] + 1)
        /\ Len(Append(Story(sender, s), f)) = produced[s] + 1
    <3> DEFINE st == Story(sender, s)
    <3>1. st \in Seq(Frames) /\ Len(st) = produced[s] /\ Ordered(st, FALSE, Len(st))
      BY <1>3
    <3> HIDE DEF st
    <3>2. f.seq = Len(st) + 1
      BY <1>5, <3>1
    <3>3. Ordered(Append(st, f), FALSE, Len(st) + 1)
      BY <1>5, <3>1, <3>2, GrowItem
    <3>4. Len(Append(st, f)) = Len(st) + 1
      BY <3>1, <1>5
    <3> QED BY <3>1, <3>3, <3>4 DEF st
  <2>5. Ordered(Story(sender', s), FALSE, produced'[s]) /\ Len(Story(sender', s)) = produced'[s]
    BY <1>2, <2>1, <2>2, <2>4
  <2>6. StreamInv(s)'
    BY <1>1, <1>8, <2>5 DEF StreamInv
  <2> QED BY <1>2, <1>8, <2>1, <2>2, <2>3, <2>6, OneStreamStep
<1>9. CASE Overflow(s) /\ Stop(s, "stopped")
  <2> DEFINE q == Dropped(sender, s)
             c == Refunded(charges, sender, s)
             e == Frame("error", 0, OverflowBytes)
  <2>1. Terminal(q, c, s, e)
    BY <1>9 DEF Overflow
  <2>2. e \in Frames /\ e.kind = "error"
    <3>1. OverflowBytes \in Nat /\ 0 \in Nat
      BY FrameType
    <3> QED BY <3>1, FrameType
  <2>3. /\ SenderInv(q) /\ q \in Senders /\ ~q.closed /\ q.wire = sender.wire
        /\ q.ready # <<>> => sender.ready # <<>>
        /\ q.inFlight = sender.inFlight
        /\ Story(q, s) = sender.wire[s]
        /\ \A t \in Streams : t # s => Story(q, t) = Story(sender, t)
    BY <1>1, DroppedInv, DroppedWire DEF TypeOK, SenderInv
  <2>4. Ordered(Story(q, s), FALSE, produced'[s])
    <3>1. sender.wire[s] \in Seq(Frames) /\ sender.items[s] \in Seq(Frames)
      BY <1>1, StoryType DEF TypeOK
    <3>2. Ordered(sender.wire[s], FALSE, produced[s])
      BY <1>2, <1>3, <3>1, CutBack DEF Story
    <3>3. Ordered(sender.wire[s], FALSE, produced'[s])
      BY <1>2, <3>1, <3>2, OrderedWeaker
    <3> QED BY <2>3, <3>3
  <2> HIDE DEF q, c, e
  <2> QED BY <1>1, <1>2, <1>9, <2>1, <2>2, <2>3, <2>4, TerminalStep
<1>10. CASE FailSocket(sender) /\ CloseSocket /\ Stop(s, "stopped")
  <2>1. readyState' \in {"open", "closing", "closed"}
    BY <1>1, <1>10 DEF CloseSocket, TypeOK
  <2>2. \A t \in Streams : status[t] # "open" => produced'[t] = produced[t] /\ pump'[t] = pump[t]
    BY <1>1, <1>2, <1>6, <1>10
  <2> QED BY <1>1, <1>2, <1>6, <1>10, <2>1, <2>2, FailStep DEF TypeOK
<1> QED BY <1>4, <1>7, <1>8, <1>9, <1>10

LEMMA PumpLastStep ==
  ASSUME IInv, NEW s \in Streams, PumpEnd(s) \/ PumpError(s)
  PROVE  IInv'
<1>1. /\ TypeOK /\ SenderInv(sender) /\ StreamInv(s) /\ ~sender.closed
      /\ pump[s] = "awaiting" /\ Live(s) /\ Stop(s, "exhausted")
      /\ UNCHANGED <<produced, streamPrefix, lastStreamNumber>>
  BY DEF IInv, PumpEnd, PumpError, Live
<1>2. PICK f \in Frames : /\ f.kind \in {"end", "error"}
                          /\ Terminal(sender, charges, s, f)
  <2>1. CASE PumpEnd(s)
    <3>1. EndBytes \in Nat /\ 0 \in Nat
      BY FrameType
    <3>2. Frame("end", 0, EndBytes) \in Frames /\ Frame("end", 0, EndBytes).kind = "end"
      BY <3>1, FrameType
    <3> QED BY <2>1, <3>2 DEF PumpEnd
  <2>2. CASE PumpError(s)
    <3>1. PICK b \in ErrorSizes : Terminal(sender, charges, s, Frame("error", 0, b))
      BY <2>2 DEF PumpError
    <3>2. Frame("error", 0, b) \in Frames /\ Frame("error", 0, b).kind = "error"
      BY FrameType
    <3> QED BY <3>1, <3>2
  <2> QED BY <2>1, <2>2
<1>3. /\ Ordered(Story(sender, s), FALSE, produced'[s])
      /\ produced'[s] = Len(Story(sender, s))
  BY <1>1 DEF StreamInv, Live
<1>4. produced' \in [Streams -> Nat] /\ sender \in Senders
      /\ \A t \in Streams : produced'[t] = produced[t]
      /\ produced[s] <= produced'[s]
  <2>1. produced' = produced /\ produced \in [Streams -> Nat] /\ sender \in Senders
    BY <1>1 DEF TypeOK
  <2>2. produced[s] \in Nat
    BY <2>1
  <2> QED BY <2>1, <2>2
<1> QED BY <1>1, <1>2, <1>3, <1>4, TerminalStep

LEMMA PumpLateStep ==
  ASSUME IInv, NEW s \in Streams, PumpLate(s)
  PROVE  IInv'
<1>1. /\ TypeOK /\ SenderInv(sender) /\ StreamInv(s)
      /\ pump[s] = "awaiting" /\ ~Live(s)
      /\ pump' = [pump EXCEPT ![s] = "stopped"]
      /\ UNCHANGED <<sender, charges, readyState, status, returned, produced,
                     streamPrefix, lastStreamNumber>>
  BY DEF IInv, PumpLate, Stop
<1>2. TypeOK'
  BY <1>1 DEF TypeOK
<1>3. ASSUME NEW t \in Streams
      PROVE  StreamInv(t)'
  <2>1. StreamInv(t)
    BY DEF IInv
  <2>2. CASE t # s
    <3>1. pump'[t] = pump[t]
      BY <1>1, <2>2 DEF TypeOK
    <3> QED BY <1>1, <2>1, <3>1 DEF StreamInv
  <2>3. CASE t = s
    <3>1. status[s] # "open"
      BY <1>1 DEF IInv, Live
    <3>2. pump'[s] = "stopped"
      BY <1>1 DEF TypeOK
    <3> QED BY <1>1, <2>1, <2>3, <3>1, <3>2 DEF StreamInv
  <2> QED BY <2>2, <2>3
<1> QED BY <1>1, <1>2, <1>3 DEF IInv

LEMMA OpenStep ==
  ASSUME IInv, NEW p \in PagePrefixes, NEW s \in Streams, Open(p, s)
  PROVE  IInv'
<1>1. /\ TypeOK /\ SenderInv(sender) /\ StreamInv(s) /\ ~sender.closed
      /\ status[s] = "new"
      /\ streamPrefix' = p /\ lastStreamNumber' = s
      /\ status' = [status EXCEPT ![s] = "open"]
      /\ pump' = [pump EXCEPT ![s] = "awaiting"]
      /\ UNCHANGED <<sender, charges, readyState, returned, produced>>
  BY DEF IInv, Open, Accept, Listening
<1>2. TypeOK'
  BY <1>1, MuxAssumption DEF TypeOK
<1>3. \A t \in Streams : t # s => status'[t] = status[t] /\ pump'[t] = pump[t]
  BY <1>1 DEF TypeOK
<1>4. StreamInv(s)'
  <2>1. status'[s] = "open" /\ pump'[s] = "awaiting"
    BY <1>1 DEF TypeOK
  <2>2. Story(sender, s) = <<>> /\ produced[s] = 0
    BY <1>1 DEF StreamInv
  <2>3. Len(Story(sender, s)) = 0
    BY <2>2
  <2>4. Ordered(Story(sender, s), status'[s] = "gone", produced[s])
    BY <2>3 DEF Ordered
  <2> QED BY <1>1, <2>1, <2>2, <2>3, <2>4 DEF StreamInv
<1> QED BY <1>1, <1>2, <1>3, <1>4, OneStreamStep DEF IInv

LEMMA CancelStep ==
  ASSUME IInv, NEW s \in Streams, Cancel(s)
  PROVE  IInv'
<1> DEFINE q == Dropped(sender, s)
<1>1. /\ TypeOK /\ SenderInv(sender) /\ StreamInv(s) /\ ~sender.closed
      /\ status[s] = "open" /\ sender' = q
      /\ status' = [status EXCEPT ![s] = "gone"]
      /\ returned' = [returned EXCEPT ![s] = TRUE]
      /\ UNCHANGED <<readyState, pump, produced, streamPrefix, lastStreamNumber>>
  BY DEF IInv, Cancel, Listening
<1>2. /\ SenderInv(q) /\ ~q.closed
      /\ q.ready # <<>> => sender.ready # <<>>
      /\ q.inFlight = sender.inFlight
      /\ Story(q, s) = sender.wire[s]
      /\ \A t \in Streams : t # s => Story(q, t) = Story(sender, t)
  BY <1>1, DroppedInv DEF TypeOK
<1> HIDE DEF q
<1>3. TypeOK'
  BY <1>1, <1>2 DEF TypeOK, SenderInv
<1>4. /\ status'[s] = "gone" /\ returned'[s]
      /\ \A t \in Streams : t # s => status'[t] = status[t] /\ returned'[t] = returned[t]
  BY <1>1 DEF TypeOK
<1>5. Ordered(sender.wire[s], TRUE, produced[s])
  <2>1. /\ sender.wire[s] \in Seq(Frames) /\ sender.items[s] \in Seq(Frames)
        /\ produced[s] \in Nat /\ produced[s] <= produced[s]
    BY <1>1, StoryType DEF TypeOK
  <2>2. Ordered(sender.wire[s], FALSE, produced[s])
    BY <1>1, <2>1, CutBack DEF StreamInv, Story
  <2> QED BY <2>1, <2>2, OrderedWeaker
<1>6. StreamInv(s)'
  BY <1>1, <1>2, <1>4, <1>5 DEF StreamInv
<1>7. readyState = "open" /\ q.ready # <<>> => q.inFlight # NoStream
  BY <1>1, <1>2 DEF IInv
<1> QED BY <1>1, <1>2, <1>3, <1>4, <1>6, <1>7, OneStreamStep

LEMMA SendDoneStep ==
  ASSUME IInv, SendDone
  PROVE  IInv'
<1> DEFINE r == Released(sender)
<1>1. /\ TypeOK /\ SenderInv(sender) /\ sender.inFlight # NoStream
      /\ sender' = IF readyState = "open" THEN Drained(r) ELSE r
      /\ UNCHANGED <<readyState, status, pump, returned, produced,
                     streamPrefix, lastStreamNumber>>
  BY DEF IInv, SendDone
<1>2. /\ SenderInv(r) /\ r.closed = sender.closed
      /\ \A s \in Streams : Story(r, s) = Story(sender, s)
  BY <1>1, ReleasedInv DEF TypeOK
<1> HIDE DEF r
<1>3. /\ SenderInv(sender') /\ sender'.closed = sender.closed
      /\ readyState = "open" /\ sender'.ready # <<>> /\ ~sender'.closed => sender'.inFlight # NoStream
      /\ \A s \in Streams : Story(sender', s) = Story(sender, s)
  <2>1. CASE readyState # "open" \/ r.closed
    <3>1. sender' = r
      BY <1>1, <2>1 DEF Drained
    <3> QED BY <1>2, <2>1, <3>1
  <2>2. CASE readyState = "open" /\ ~r.closed
    <3>1. sender' = Drained(r) /\ r \in Senders
      BY <1>1, <1>2, <2>2 DEF SenderInv
    <3>2. /\ SenderInv(Drained(r)) /\ ~Drained(r).closed
          /\ Drained(r).ready # <<>> => Drained(r).inFlight # NoStream
          /\ \A s \in Streams : Story(Drained(r), s) = Story(r, s)
      BY <1>2, <2>2, <3>1, DrainedInv
    <3>3. sender'.closed = sender.closed
      BY <1>1, <1>2, <2>2, <3>1, <3>2 DEF TypeOK, Senders, SenderInv
    <3> QED BY <1>2, <3>1, <3>2, <3>3
  <2> QED BY <2>1, <2>2
<1>4. TypeOK'
  BY <1>1, <1>3 DEF TypeOK, SenderInv
<1>5. ASSUME NEW s \in Streams
      PROVE  StreamInv(s)'
  <2>1. StreamInv(s) /\ Story(sender', s) = Story(sender, s)
    BY <1>3 DEF IInv
  <2> QED BY <1>1, <2>1 DEF StreamInv
<1> QED BY <1>1, <1>3, <1>4, <1>5 DEF IInv

LEMMA SendFailedStep ==
  ASSUME IInv, SendFailed
  PROVE  IInv'
<1> DEFINE q == Landed(sender)
<1>1. /\ TypeOK /\ SenderInv(sender)
      /\ Fail(q)
      /\ UNCHANGED <<pump, produced, streamPrefix, lastStreamNumber>>
  BY DEF IInv, SendFailed
<1>2. /\ q \in Senders /\ q.wire = sender.wire /\ q.closed = sender.closed
      /\ sender.closed => SenderInv(q)
      /\ \A s \in Streams : Story(q, s) = Story(sender, s)
  BY <1>1, LandedInv DEF TypeOK
<1> HIDE DEF q
<1>3. CASE sender.closed
  <2>1. sender' = q /\ UNCHANGED <<status, returned, readyState>>
    BY <1>1, <1>3 DEF Fail
  <2>2. TypeOK'
    BY <1>1, <1>2, <2>1 DEF TypeOK
  <2>3. ASSUME NEW s \in Streams
        PROVE  StreamInv(s)'
    <3>1. StreamInv(s) /\ Story(sender', s) = Story(sender, s)
      BY <1>2, <2>1 DEF IInv
    <3> QED BY <1>1, <2>1, <3>1 DEF StreamInv
  <2> QED BY <1>1, <1>2, <1>3, <2>1, <2>2, <2>3 DEF IInv
<1>4. CASE ~sender.closed
  <2>1. FailSocket(q) /\ readyState' \in {"open", "closing", "closed"}
    BY <1>1, <1>4 DEF Fail, CloseSocket, TypeOK
  <2> QED BY <1>1, <1>2, <2>1, FailStep DEF TypeOK
<1> QED BY <1>3, <1>4

LEMMA GoingAwayStep ==
  ASSUME IInv, PeerCloses \/ (SocketClosed /\ sender.closed)
  PROVE  IInv'
<1>1. /\ TypeOK /\ readyState' \in {"closing", "closed"}
      /\ UNCHANGED <<sender, status, pump, returned, produced, streamPrefix, lastStreamNumber>>
  BY DEF IInv, PeerCloses, SocketClosed
<1>2. TypeOK'
  BY <1>1 DEF TypeOK
<1>3. ASSUME NEW s \in Streams
      PROVE  StreamInv(s)'
  <2>1. StreamInv(s)
    BY DEF IInv
  <2> QED BY <1>1, <2>1 DEF StreamInv
<1> QED BY <1>1, <1>2, <1>3 DEF IInv

(* The inductive invariant is kept by every step. *)
LEMMA NextIInv == IInv /\ [Next]_muxVars => IInv'
<1> SUFFICES ASSUME IInv, [Next]_muxVars
             PROVE  IInv'
  OBVIOUS
<1>0. TypeOK
  BY DEF IInv
<1>1. ASSUME NEW s \in Streams, NEW p \in PagePrefixes, Open(p, s)
      PROVE  IInv'
  BY <1>1, OpenStep
<1>2. ASSUME NEW s \in Streams, NEW p \in PagePrefixes, HubRefuses(p, s)
      PROVE  IInv'
  <2>1. streamPrefix' \in PagePrefixes \cup {NoPrefix} /\ lastStreamNumber' \in Nat
    BY <1>2, MuxAssumption DEF HubRefuses, Accept
  <2> QED BY <1>2, <2>1, RefusedStep DEF HubRefuses
<1>3. ASSUME NEW s \in Streams, RefuseEndpoint(s)
      PROVE  IInv'
  <2>1. streamPrefix' \in PagePrefixes \cup {NoPrefix} /\ lastStreamNumber' \in Nat
    BY <1>0, <1>3 DEF RefuseEndpoint, TypeOK
  <2> QED BY <1>3, <2>1, RefusedStep DEF RefuseEndpoint
<1>4. CASE \/ \E s \in Streams, p \in PagePrefixes : RejectOpen(p, s)
           \/ Malformed \/ SocketError
  <2>1. readyState' \in {"open", "closing", "closed"}
    BY <1>0, <1>4 DEF RejectOpen, Malformed, SocketError, CloseSocket, TypeOK
  <2> QED BY <1>4, <2>1, SocketFailsStep DEF RejectOpen, Malformed, SocketError
<1>5. CASE SocketClosed
  <2>1. CASE sender.closed
    BY <1>5, <2>1, GoingAwayStep
  <2>2. CASE ~sender.closed
    BY <1>5, <2>2, SocketFailsStep DEF SocketClosed
  <2> QED BY <2>1, <2>2
<1>6. ASSUME NEW s \in Streams, Cancel(s)
      PROVE  IInv'
  BY <1>6, CancelStep
<1>7. ASSUME NEW s \in Streams, Pump(s)
      PROVE  IInv'
  BY <1>7, PumpItemStep, PumpLastStep, PumpLateStep DEF Pump
<1>8. CASE SendDone \/ SendFailed \/ PeerCloses
  BY <1>8, SendDoneStep, SendFailedStep, GoingAwayStep
<1>9. CASE UNCHANGED muxVars
  <2>1. TypeOK'
    BY <1>0, <1>9 DEF TypeOK, muxVars
  <2>2. ASSUME NEW s \in Streams
        PROVE  StreamInv(s)'
    BY <1>9 DEF IInv, StreamInv, muxVars
  <2> QED BY <1>9, <2>1, <2>2 DEF IInv, muxVars
<1> QED
  BY <1>1, <1>2, <1>3, <1>4, <1>5, <1>6, <1>7, <1>8, <1>9
  DEF Next, Message, Socket

-----------------------------------------------------------------------------
(* The inductive invariant holds of every behaviour of the multiplexer: the *)
(* handlers of stream-mux.js keep it for any streams, limits and sizes.     *)
THEOREM InvariantHolds == Spec => []IInv
BY InitIInv, NextIInv, PTL DEF Spec

(* Every variable keeps its type. *)
THEOREM TypeCorrect == Spec => []TypeOK
<1>1. IInv => TypeOK
  BY DEF IInv
<1> QED BY <1>1, InvariantHolds, PTL

(* The fair sender loses no wakeup: a stream with frames held back is in    *)
(* line once or has its own frame in flight, and a writable socket with a   *)
(* nonempty line has a send under way (enqueue, drop, #drain and its        *)
(* callback).                                                               *)
THEOREM NoLostWakeups == Spec => []WakeupsKept
<1>1. IInv => WakeupsKept
  BY DEF IInv, WakeupsKept, SenderInv
<1> QED BY <1>1, InvariantHolds, PTL

(* The frames of a stream, sent and held back, are its items in order with  *)
(* none missing, then at most one terminal frame, whatever cancellations,   *)
(* overflows and failures happen.                                           *)
THEOREM OrderKept == Spec => []StreamsInOrder
<1>1. IInv => StreamsInOrder
  BY DEF IInv, StreamsInOrder, StreamInv
<1> QED BY <1>1, InvariantHolds, PTL

(* A stream of a usable socket always has a pump that waits for its host.   *)
THEOREM NoStall == Spec => []NoSilentStall
<1>1. IInv => NoSilentStall
  BY DEF IInv, NoSilentStall, StreamInv
<1> QED BY <1>1, InvariantHolds, PTL

(* A stream that left the map has released its hub iterator.                *)
THEOREM IteratorsAreReleased == Spec => []IteratorsReleased
<1>1. IInv => IteratorsReleased
  BY DEF IInv, IteratorsReleased, StreamInv
<1> QED BY <1>1, InvariantHolds, PTL

(* Together: what a stream owes is on its way, and what it needs no longer  *)
(* is let go, for any streams and limits.                                   *)
THEOREM EveryStreamServed == Spec => []StreamsServed
<1>1. WakeupsKept /\ NoSilentStall /\ IteratorsReleased => StreamsServed
  BY DEF StreamsServed
<1> QED BY <1>1, NoLostWakeups, NoStall, IteratorsAreReleased, PTL

(***************************************************************************)
(* Part 4.  The multiplexer implements StreamPromise: in each step at most *)
(* one frame reaches the wire, and it is the next one of its stream.       *)
(***************************************************************************)
VerdictOf(w) == IF w = <<>> \/ w[Len(w)].kind = "item" THEN "none" ELSE w[Len(w)].kind
DeliveredOf(w) == IF VerdictOf(w) = "none" THEN Len(w) ELSE Len(w) - 1

\* One more frame of a stream in order: an item the host produced, or the verdict
\* on a stream that had none.
LEMMA NextFrame ==
  ASSUME NEW w \in Seq(Frames), NEW x \in Frames, NEW over \in BOOLEAN, NEW made \in Nat,
         Ordered(Append(w, x), over, made)
  PROVE  /\ VerdictOf(w) = "none" /\ DeliveredOf(w) = Len(w)
         /\ x.kind = "item" => /\ VerdictOf(Append(w, x)) = "none"
                               /\ DeliveredOf(Append(w, x)) = Len(w) + 1
                               /\ Len(w) < made
         /\ x.kind # "item" => /\ VerdictOf(Append(w, x)) = x.kind
                               /\ DeliveredOf(Append(w, x)) = Len(w)
         /\ x.kind = "end" => Len(w) = made
         /\ x.kind \in {"item", "end", "error"}
<1> DEFINE v == Append(w, x)
<1>1. /\ Len(w) \in Nat /\ Len(v) = Len(w) + 1 /\ v[Len(w) + 1] = x /\ v # <<>>
      /\ \A i \in 1..Len(w) : v[i] = w[i]
  OBVIOUS
<1>2. x.kind \in {"item", "end", "error"}
  BY DEF Frames
<1> HIDE DEF v
<1>3. \A i \in 1..Len(v) : /\ v[i].kind = "item" => v[i].seq = i /\ i <= made
                           /\ v[i].kind # "item" => over /\ i = Len(v)
                           /\ v[i].kind = "end" => i = made + 1
  BY DEF Ordered, v
<1>4. Len(w) + 1 \in 1..Len(v)
  BY <1>1
<1>5. VerdictOf(w) = "none"
  <2>1. CASE w = <<>>
    BY <2>1 DEF VerdictOf
  <2>2. CASE w # <<>>
    <3>1. Len(w) \in 1..Len(w) /\ Len(w) \in 1..Len(v) /\ Len(w) # Len(v)
      BY <1>1, <2>2
    <3>2. w[Len(w)].kind = "item"
      BY <1>1, <1>3, <3>1
    <3> QED BY <3>2 DEF VerdictOf
  <2> QED BY <2>1, <2>2
<1>6. DeliveredOf(w) = Len(w)
  BY <1>5 DEF DeliveredOf
<1>7. CASE x.kind = "item"
  <2>1. VerdictOf(v) = "none"
    BY <1>1, <1>7 DEF VerdictOf
  <2>2. DeliveredOf(v) = Len(w) + 1
    BY <1>1, <2>1 DEF DeliveredOf
  <2>3. Len(w) < made
    BY <1>1, <1>3, <1>4, <1>7
  <2> QED BY <1>2, <1>5, <1>6, <1>7, <2>1, <2>2, <2>3 DEF v
<1>8. CASE x.kind # "item"
  <2>1. VerdictOf(v) = x.kind
    BY <1>1, <1>8 DEF VerdictOf
  <2>2. DeliveredOf(v) = Len(w)
    BY <1>1, <1>2, <1>8, <2>1 DEF DeliveredOf
  <2>3. x.kind = "end" => Len(w) = made
    BY <1>1, <1>3, <1>4
  <2> QED BY <1>2, <1>5, <1>6, <1>8, <2>1, <2>2, <2>3 DEF v
<1> QED BY <1>7, <1>8

\* The wire after one more frame of stream t.
OneFrame(q, t, x, r) == r.wire = [q.wire EXCEPT ![t] = Append(@, x)]

\* A drain sends at most one frame, of the first stream in line.
LEMMA DrainedWire ==
  ASSUME NEW q \in Senders, SenderInv(q), ~q.closed
  PROVE  \/ Drained(q).wire = q.wire
         \/ /\ q.inFlight = NoStream /\ q.ready # <<>> /\ q.ready[1] \in Streams
            /\ \E x \in Frames : OneFrame(q, q.ready[1], x, Drained(q))
            /\ Drained(q).items[q.ready[1]] = Tail(q.items[q.ready[1]])
<1>1. CASE q.inFlight # NoStream \/ q.ready = <<>>
  BY <1>1 DEF Drained
<1>2. CASE q.inFlight = NoStream /\ q.ready # <<>>
  <2> DEFINE s == q.ready[1]
  <2>1. Drained(q) = Send(q, 1) /\ s \in Streams /\ q.items[s] # <<>>
    BY <1>2, SendFirst
  <2>2. /\ Send(q, 1).items = [q.items EXCEPT ![s] = Tail(@)]
        /\ Send(q, 1).wire = [q.wire EXCEPT ![s] = Append(@, Head(q.items[s]))]
    BY <1>2, <2>1, SendFacts
  <2>3. q.items \in [Streams -> Seq(Frames)]
    BY SenderFields
  <2>4. Head(q.items[s]) \in Frames
    BY <2>1, <2>3, HeadTailProperties
  <2> QED BY <1>2, <2>1, <2>2, <2>3, <2>4 DEF OneFrame
<1> QED BY <1>1, <1>2

\* An accepted frame is sent at once when the sender is idle, and then its stream
\* holds nothing back.
LEMMA AcceptedWire ==
  ASSUME NEW q \in Senders, SenderInv(q), ~q.closed, NEW s \in Streams, NEW f \in Frames,
         q.ready # <<>> => q.inFlight # NoStream
  PROVE  \/ Accepted(q, s, f).wire = q.wire
         \/ /\ \E x \in Frames : OneFrame(q, s, x, Accepted(q, s, f))
            /\ Accepted(q, s, f).items[s] = <<>>
<1> DEFINE h == Held(q, s, f)
           r == InLine(h, s)
<1>1. /\ SenderInv(r) /\ ~r.closed
      /\ r.items = [q.items EXCEPT ![s] = Append(@, f)]
      /\ r.wire = q.wire
  BY EnqueuedInv
<1>2. /\ h \in Senders /\ h.flagged = q.flagged /\ h.ready = q.ready
      /\ h.inFlight = q.inFlight
  BY HeldFacts
<1>3. Accepted(q, s, f) = Drained(r)
  BY DEF Accepted
<1>4. q.items \in [Streams -> Seq(Frames)] /\ q.ready \in Seq(Streams)
  BY SenderFields
<1>5. r.inFlight = q.inFlight
  BY <1>2 DEF InLine, Senders
<1>6. CASE q.inFlight # NoStream
  <2>1. Drained(r) = r
    BY <1>5, <1>6 DEF Drained
  <2> QED BY <1>1, <1>3, <2>1
<1>7. CASE q.inFlight = NoStream
  <2>1. q.ready = <<>>
    BY <1>7
  <2>2. s \notin q.flagged
    BY <2>1 DEF SenderInv, LineConsistent, Lined
  <2>3. q.items[s] = <<>>
    BY <1>7, <2>2, LimitsAssumption DEF SenderInv, NoLostWakeup
  <2>4. r.ready = <<s>>
    BY <1>2, <1>7, <2>1, <2>2, LimitsAssumption DEF InLine, Senders
  <2>5. r.items[s] = <<f>>
    BY <1>1, <1>4, <2>3
  <2> HIDE DEF r
  <2>6. r.ready[1] = s
    BY <2>4
  <2>7. r \in Senders
    BY <1>1 DEF SenderInv
  <2>8. \/ Drained(r).wire = r.wire
        \/ /\ \E x \in Frames : OneFrame(r, s, x, Drained(r))
           /\ Drained(r).items[s] = Tail(r.items[s])
    BY <1>1, <2>6, <2>7, DrainedWire
  <2>9. Tail(r.items[s]) = <<>>
    BY <2>5
  <2> QED BY <1>1, <1>3, <2>8, <2>9 DEF OneFrame
<1> QED BY <1>6, <1>7

\* What the promise sees of a stream is its wire.
LEMMA SeenOnWire ==
  \A s \in Streams : /\ Verdict(s) = VerdictOf(sender.wire[s])
                     /\ Delivered(s) = DeliveredOf(sender.wire[s])
  BY DEF Verdict, Delivered, VerdictOf, DeliveredOf

LEMMA SeenOnWireNext ==
  \A s \in Streams : /\ Verdict(s)' = VerdictOf(sender'.wire[s])
                     /\ Delivered(s)' = DeliveredOf(sender'.wire[s])
  BY DEF Verdict, Delivered, VerdictOf, DeliveredOf

\* A step that sends nothing shows nothing.
LEMMA NothingSeen ==
  ASSUME sender'.wire = sender.wire
  PROVE  /\ [s \in Streams |-> Verdict(s)]' = [s \in Streams |-> Verdict(s)]
         /\ [s \in Streams |-> Delivered(s)]' = [s \in Streams |-> Delivered(s)]
<1>1. \A s \in Streams : Verdict(s)' = Verdict(s) /\ Delivered(s)' = Delivered(s)
  BY SeenOnWire, SeenOnWireNext
<1> QED BY <1>1

\* A step that sends a frame of t shows it of t alone.
LEMMA FrameSeen ==
  ASSUME TypeOK, IInv', NEW t \in Streams, NEW x \in Frames, OneFrame(sender, t, x, sender')
  PROVE  /\ Verdict(t) = "none" /\ Delivered(t) = Len(sender.wire[t])
         /\ Len(sender.wire[t]) \in Nat
         /\ x.kind \in {"item", "end", "error"}
         /\ x.kind = "item" =>
              /\ Len(sender.wire[t]) < produced'[t]
              /\ [s \in Streams |-> Verdict(s)]' = [s \in Streams |-> Verdict(s)]
              /\ [s \in Streams |-> Delivered(s)]' =
                   [[s \in Streams |-> Delivered(s)] EXCEPT ![t] = @ + 1]
         /\ x.kind # "item" =>
              /\ [s \in Streams |-> Verdict(s)]' =
                   [[s \in Streams |-> Verdict(s)] EXCEPT ![t] = x.kind]
              /\ [s \in Streams |-> Delivered(s)]' = [s \in Streams |-> Delivered(s)]
         /\ x.kind = "end" => Len(sender.wire[t]) = produced'[t]
<1> DEFINE w == sender.wire[t]
           over == (status[t] = "gone")'
           made == produced'[t]
<1>1. sender.wire \in [Streams -> Seq(Frames)] /\ w \in Seq(Frames)
  BY SenderFields DEF TypeOK
<1>2. sender'.wire[t] = Append(w, x)
  BY <1>1 DEF OneFrame
<1>3. \A s \in Streams : s # t => sender'.wire[s] = sender.wire[s]
  BY <1>1 DEF OneFrame
<1>4. Ordered(Append(w, x), over, made)
  <2>1. sender' \in Senders /\ made \in Nat /\ over \in BOOLEAN
    BY DEF IInv, TypeOK
  <2>2. sender'.wire[t] \in Seq(Frames) /\ sender'.items[t] \in Seq(Frames)
    BY <2>1, SenderFields
  <2>3. Ordered(sender'.wire[t] \o sender'.items[t], over, made)
    BY DEF IInv, StreamInv, Story
  <2> HIDE DEF over, made, w
  <2>4. Ordered(sender'.wire[t], over, made)
    BY <2>1, <2>2, <2>3, CutBack
  <2> QED BY <1>2, <2>4
<1>5. over \in BOOLEAN /\ made \in Nat
  BY DEF IInv, TypeOK
<1> HIDE DEF w, over, made
<1>6. /\ VerdictOf(w) = "none" /\ DeliveredOf(w) = Len(w)
      /\ x.kind = "item" => /\ VerdictOf(Append(w, x)) = "none"
                            /\ DeliveredOf(Append(w, x)) = Len(w) + 1
                            /\ Len(w) < made
      /\ x.kind # "item" => /\ VerdictOf(Append(w, x)) = x.kind
                            /\ DeliveredOf(Append(w, x)) = Len(w)
      /\ x.kind = "end" => Len(w) = made
      /\ x.kind \in {"item", "end", "error"}
  BY <1>1, <1>4, <1>5, NextFrame
<1>7. Verdict(t) = VerdictOf(w) /\ Delivered(t) = DeliveredOf(w)
  BY SeenOnWire DEF w
<1>8. Verdict(t)' = VerdictOf(Append(w, x)) /\ Delivered(t)' = DeliveredOf(Append(w, x))
  BY <1>2, SeenOnWireNext
<1>9. \A s \in Streams : s # t => Verdict(s)' = Verdict(s) /\ Delivered(s)' = Delivered(s)
  BY <1>3, SeenOnWire, SeenOnWireNext
<1>10. Len(w) \in Nat
  BY <1>1
<1>11. ASSUME x.kind = "item"
       PROVE  /\ [s \in Streams |-> Verdict(s)]' = [s \in Streams |-> Verdict(s)]
              /\ [s \in Streams |-> Delivered(s)]' =
                   [[s \in Streams |-> Delivered(s)] EXCEPT ![t] = @ + 1]
  <2>1. \A s \in Streams : Verdict(s)' = Verdict(s)
    BY <1>6, <1>7, <1>8, <1>9, <1>11
  <2>2. \A s \in Streams : Delivered(s)' = IF s = t THEN Delivered(s) + 1 ELSE Delivered(s)
    BY <1>6, <1>7, <1>8, <1>9, <1>11
  <2> QED BY <2>1, <2>2
<1>12. ASSUME x.kind # "item"
       PROVE  /\ [s \in Streams |-> Verdict(s)]' =
                   [[s \in Streams |-> Verdict(s)] EXCEPT ![t] = x.kind]
              /\ [s \in Streams |-> Delivered(s)]' = [s \in Streams |-> Delivered(s)]
  <2>1. \A s \in Streams : Verdict(s)' = IF s = t THEN x.kind ELSE Verdict(s)
    BY <1>6, <1>7, <1>8, <1>9, <1>12
  <2>2. \A s \in Streams : Delivered(s)' = Delivered(s)
    BY <1>6, <1>7, <1>8, <1>9, <1>12
  <2> QED BY <2>1, <2>2
<1> QED BY <1>6, <1>7, <1>10, <1>11, <1>12 DEF w, made

\* A step in which no host produces an item delivers one, reports a verdict, or
\* changes nothing that was promised.
LEMMA StepWithoutItem ==
  ASSUME TypeOK, IInv', produced' = produced,
         \/ sender'.wire = sender.wire
         \/ \E t \in Streams, x \in Frames : OneFrame(sender, t, x, sender')
  PROVE  [Promise!Next]_(Promise!vars)
<1>1. CASE sender'.wire = sender.wire
  BY <1>1, NothingSeen DEF Promise!vars
<1>2. ASSUME NEW t \in Streams, NEW x \in Frames, OneFrame(sender, t, x, sender')
      PROVE  Promise!Next
  <2> DEFINE ver == [s \in Streams |-> Verdict(s)]
             del == [s \in Streams |-> Delivered(s)]
  <2>1. /\ Verdict(t) = "none" /\ Delivered(t) = Len(sender.wire[t])
        /\ x.kind \in {"item", "end", "error"}
        /\ x.kind = "item" => Len(sender.wire[t]) < produced'[t] /\ ver' = ver
                              /\ del' = [del EXCEPT ![t] = @ + 1]
        /\ x.kind # "item" => ver' = [ver EXCEPT ![t] = x.kind] /\ del' = del
        /\ x.kind = "end" => Len(sender.wire[t]) = produced'[t]
    BY <1>2, FrameSeen
  <2>2. ver[t] = "none" /\ del[t] = Len(sender.wire[t])
    BY <2>1
  <2>3. CASE x.kind = "item"
    <3>1. Promise!Deliver(t)
      BY <2>1, <2>2, <2>3 DEF Promise!Deliver
    <3> QED BY <3>1 DEF Promise!Next
  <2>4. CASE x.kind = "end"
    <3>1. Promise!End(t)
      BY <2>1, <2>2, <2>4 DEF Promise!End
    <3> QED BY <3>1 DEF Promise!Next
  <2>5. CASE x.kind = "error"
    <3>1. Promise!Fail(t)
      BY <2>1, <2>2, <2>5 DEF Promise!Fail
    <3> QED BY <3>1 DEF Promise!Next
  <2> QED BY <2>1, <2>3, <2>4, <2>5
<1> QED BY <1>1, <1>2

\* A step in which the host of s produces an item may deliver that item, or report
\* that it was one too many.
LEMMA StepWithItem ==
  ASSUME TypeOK, IInv', NEW s \in Streams, produced' = [produced EXCEPT ![s] = @ + 1],
         Len(sender.wire[s]) <= produced[s],
         \/ sender'.wire = sender.wire
         \/ \E x \in Frames :
              /\ OneFrame(sender, s, x, sender')
              /\ x.kind = "item" => Len(sender.wire[s]) = produced[s]
  PROVE  Promise!Next
<1>0. produced[s] \in Nat /\ produced'[s] = produced[s] + 1
  BY DEF TypeOK
<1>1. CASE sender'.wire = sender.wire
  <2>1. Promise!Produce(s)
    BY <1>1, NothingSeen DEF Promise!Produce
  <2> QED BY <2>1 DEF Promise!Next
<1>2. ASSUME NEW x \in Frames, OneFrame(sender, s, x, sender'),
             x.kind = "item" => Len(sender.wire[s]) = produced[s]
      PROVE  Promise!Next
  <2> DEFINE ver == [t \in Streams |-> Verdict(t)]
             del == [t \in Streams |-> Delivered(t)]
  <2>1. /\ Verdict(s) = "none" /\ Delivered(s) = Len(sender.wire[s])
        /\ Len(sender.wire[s]) \in Nat
        /\ x.kind \in {"item", "end", "error"}
        /\ x.kind = "item" => ver' = ver /\ del' = [del EXCEPT ![s] = @ + 1]
        /\ x.kind # "item" => ver' = [ver EXCEPT ![s] = x.kind] /\ del' = del
        /\ x.kind = "end" => Len(sender.wire[s]) = produced'[s]
    BY <1>2, FrameSeen
  <2>2. ver[s] = "none" /\ del[s] = Len(sender.wire[s])
    BY <2>1
  <2>3. CASE x.kind = "item"
    <3>1. Promise!ProduceAndDeliver(s)
      BY <1>2, <2>1, <2>2, <2>3 DEF Promise!ProduceAndDeliver
    <3> QED BY <3>1 DEF Promise!Next
  <2>4. x.kind # "end"
    BY <1>0, <2>1
  <2>5. CASE x.kind = "error"
    <3>1. Promise!ProduceAndFail(s)
      BY <2>1, <2>2, <2>5 DEF Promise!ProduceAndFail
    <3> QED BY <3>1 DEF Promise!Next
  <2> QED BY <2>1, <2>3, <2>4, <2>5
<1> QED BY <1>1, <1>2

\* A failed socket sends nothing more.
LEMMA FailSendsNothing ==
  ASSUME NEW q \in Senders, q.wire = sender.wire, FailSocket(q)
  PROVE  sender'.wire = sender.wire
  BY ClosedInv DEF FailSocket

\* A forced frame is sent at once, with nothing of its stream held back, or stays.
LEMMA ForcedSends ==
  ASSUME NEW q \in Senders, SenderInv(q), ~q.closed, q.wire = sender.wire,
         readyState = "open" /\ q.ready # <<>> => q.inFlight # NoStream,
         NEW s \in Streams, NEW f \in Frames, NEW c, NEW rest, Forced(q, c, s, f, rest)
  PROVE  \/ sender'.wire = sender.wire
         \/ /\ \E x \in Frames : OneFrame(sender, s, x, sender')
            /\ sender'.items[s] = <<>>
            /\ sender' = Accepted(q, s, f)
<1>1. CASE sender' = q
  BY <1>1
<1>2. CASE readyState = "open" /\ sender' = Accepted(q, s, f)
  <2>1. q.ready # <<>> => q.inFlight # NoStream
    BY <1>2
  <2>2. \/ Accepted(q, s, f).wire = q.wire
        \/ /\ \E x \in Frames : OneFrame(q, s, x, Accepted(q, s, f))
           /\ Accepted(q, s, f).items[s] = <<>>
    BY <2>1, AcceptedWire
  <2>3. CASE Accepted(q, s, f).wire = q.wire
    BY <1>2, <2>3
  <2>4. ASSUME NEW x \in Frames, OneFrame(q, s, x, Accepted(q, s, f)),
               Accepted(q, s, f).items[s] = <<>>
        PROVE  OneFrame(sender, s, x, sender') /\ sender'.items[s] = <<>>
    BY <1>2, <2>4 DEF OneFrame
  <2> QED BY <1>2, <2>2, <2>3, <2>4
<1>3. CASE FailSocket(q)
  BY <1>3, FailSendsNothing
<1> QED BY <1>1, <1>2, <1>3 DEF Forced

\* A step of the iterator of s: the item leaves at once, stays, or overflows.
LEMMA PumpItemSends ==
  ASSUME IInv, IInv', NEW s \in Streams, PumpItem(s)
  PROVE  Promise!Next
<1>1. /\ TypeOK /\ SenderInv(sender) /\ StreamInv(s) /\ ~sender.closed /\ sender \in Senders
      /\ status[s] = "open" /\ pump[s] = "awaiting"
      /\ readyState = "open" /\ sender.ready # <<>> => sender.inFlight # NoStream
  BY DEF IInv, PumpItem, Live, TypeOK
<1>2. /\ produced' = [produced EXCEPT ![s] = @ + 1] /\ produced[s] \in Nat
  BY <1>1 DEF PumpItem, TypeOK
<1>3. /\ Story(sender, s) \in Seq(Frames) /\ Len(Story(sender, s)) = produced[s]
      /\ sender.wire[s] \in Seq(Frames) /\ sender.items[s] \in Seq(Frames)
  BY <1>1, StoryType DEF StreamInv
<1>4. Len(sender.wire[s]) <= produced[s] /\ Len(sender.wire[s]) \in Nat
  <2>1. Len(sender.wire[s] \o sender.items[s]) = Len(sender.wire[s]) + Len(sender.items[s])
    BY <1>3, ConcatProperties
  <2>2. Len(sender.wire[s]) \in Nat /\ Len(sender.items[s]) \in Nat
    BY <1>3, LenProperties
  <2>3. Len(sender.wire[s] \o sender.items[s]) = produced[s]
    BY <1>3 DEF Story
  <2>4. ASSUME NEW a \in Nat, NEW b \in Nat, NEW n \in Nat, a + b = n
        PROVE  a <= n
    BY <2>4
  <2> QED BY <1>2, <2>1, <2>2, <2>3, <2>4
\* If a frame of s is on the wire and nothing is held back, the story is the wire.
<1>5. ASSUME NEW x \in Frames, OneFrame(sender, s, x, sender'), sender'.items[s] = <<>>
      PROVE  Story(sender', s) = Append(sender.wire[s], x)
  <2>1. sender.wire \in [Streams -> Seq(Frames)]
    BY <1>1, SenderFields
  <2>2. sender'.wire[s] = Append(sender.wire[s], x)
    BY <1>5, <2>1 DEF OneFrame
  <2>3. Append(sender.wire[s], x) \in Seq(Frames)
    BY <1>3, AppendProperties
  <2> QED BY <1>5, <2>2, <2>3, ConcatEmptySeq DEF Story
<1>6. PICK b \in ItemSizes :
        \/ UNCHANGED sender
        \/ readyState = "open" /\ sender' = Accepted(sender, s, Frame("item", produced[s] + 1, b))
        \/ Overflow(s)
        \/ FailSocket(sender)
  BY DEF PumpItem
<1>7. CASE UNCHANGED sender \/ FailSocket(sender)
  <2>1. sender'.wire = sender.wire
    BY <1>1, <1>7, FailSendsNothing
  <2> QED BY <1>1, <1>2, <1>4, <2>1, StepWithItem
<1>8. CASE readyState = "open" /\ sender' = Accepted(sender, s, Frame("item", produced[s] + 1, b))
  <2> DEFINE f == Frame("item", produced[s] + 1, b)
  <2>1. f \in Frames
    BY <1>2, FrameType
  <2> HIDE DEF f
  <2>2. sender' = Accepted(sender, s, f)
    BY <1>8 DEF f
  <2>3. Story(sender', s) = Append(Story(sender, s), f)
    BY <1>1, <2>1, <2>2, AcceptedInv
  <2>4. \/ sender'.wire = sender.wire
        \/ /\ \E x \in Frames : OneFrame(sender, s, x, sender')
           /\ sender'.items[s] = <<>>
    BY <1>1, <1>8, <2>1, <2>2, AcceptedWire
  <2>5. ASSUME NEW x \in Frames, OneFrame(sender, s, x, sender'), sender'.items[s] = <<>>
        PROVE  Len(sender.wire[s]) = produced[s]
    <3>1. Append(sender.wire[s], x) = Append(Story(sender, s), f)
      BY <1>5, <2>3, <2>5
    <3>2. /\ Len(Append(sender.wire[s], x)) = Len(sender.wire[s]) + 1
          /\ Len(Append(Story(sender, s), f)) = Len(Story(sender, s)) + 1
      BY <1>3, <2>1, AppendProperties
    <3> QED BY <1>2, <1>3, <1>4, <3>1, <3>2
  <2> QED BY <1>1, <1>2, <1>4, <2>4, <2>5, StepWithItem
<1>9. CASE Overflow(s)
  <2> DEFINE q == Dropped(sender, s)
             c == Refunded(charges, sender, s)
             e == Frame("error", 0, OverflowBytes)
  <2>1. e \in Frames /\ e.kind = "error"
    <3>1. OverflowBytes \in Nat /\ 0 \in Nat
      BY FrameType
    <3> QED BY <3>1, FrameType
  <2>2. /\ SenderInv(q) /\ q \in Senders /\ ~q.closed /\ q.wire = sender.wire
        /\ q.ready # <<>> => sender.ready # <<>>
        /\ q.inFlight = sender.inFlight
        /\ Story(q, s) = sender.wire[s]
    BY <1>1, DroppedInv, DroppedWire DEF SenderInv
  <2>3. Forced(q, c, s, e, /\ status' = [status EXCEPT ![s] = "gone"]
                           /\ returned' = [returned EXCEPT ![s] = @ \/ e.kind = "error"])
    BY <1>9 DEF Overflow, Terminal
  <2> HIDE DEF q, c, e
  <2>4. \/ sender'.wire = sender.wire
        \/ /\ \E x \in Frames : OneFrame(sender, s, x, sender')
           /\ sender'.items[s] = <<>>
           /\ sender' = Accepted(q, s, e)
    BY <1>1, <2>1, <2>2, <2>3, ForcedSends
  <2>5. ASSUME NEW x \in Frames, OneFrame(sender, s, x, sender'), sender'.items[s] = <<>>,
               sender' = Accepted(q, s, e)
        PROVE  x.kind # "item"
    <3>1. Story(sender', s) = Append(sender.wire[s], e)
      BY <2>1, <2>2, <2>5, AcceptedInv
    <3>2. Append(sender.wire[s], x) = Append(sender.wire[s], e)
      BY <1>5, <2>5, <3>1
    <3>3. /\ Append(sender.wire[s], x)[Len(sender.wire[s]) + 1] = x
          /\ Append(sender.wire[s], e)[Len(sender.wire[s]) + 1] = e
      BY <1>3, <2>1, AppendProperties
    <3> QED BY <2>1, <3>2, <3>3
  <2> QED BY <1>1, <1>2, <1>4, <2>4, <2>5, StepWithItem
<1> QED BY <1>6, <1>7, <1>8, <1>9

\* Every other step sends at most one frame.
LEMMA OthersSend ==
  ASSUME IInv, Next, ~\E s \in Streams : PumpItem(s)
  PROVE  /\ produced' = produced
         /\ \/ sender'.wire = sender.wire
            \/ \E t \in Streams, x \in Frames : OneFrame(sender, t, x, sender')
<1>1. /\ TypeOK /\ SenderInv(sender) /\ sender \in Senders
      /\ ~sender.closed /\ readyState = "open" /\ sender.ready # <<>>
           => sender.inFlight # NoStream
  BY DEF IInv, TypeOK
<1>2. ASSUME NEW s \in Streams, NEW b \in ErrorSizes, ~sender.closed, NEW rest,
             Forced(sender, charges, s, Frame("error", 0, b), rest)
      PROVE  \/ sender'.wire = sender.wire
             \/ \E t \in Streams, x \in Frames : OneFrame(sender, t, x, sender')
  <2>1. Frame("error", 0, b) \in Frames
    BY FrameType
  <2> QED BY <1>1, <1>2, <2>1, ForcedSends
<1>3. ASSUME NEW s \in Streams, NEW p \in PagePrefixes, HubRefuses(p, s)
      PROVE  /\ produced' = produced
             /\ \/ sender'.wire = sender.wire
                \/ \E t \in Streams, x \in Frames : OneFrame(sender, t, x, sender')
  BY <1>2, <1>3 DEF HubRefuses, Listening
<1>4. ASSUME NEW s \in Streams, RefuseEndpoint(s)
      PROVE  /\ produced' = produced
             /\ \/ sender'.wire = sender.wire
                \/ \E t \in Streams, x \in Frames : OneFrame(sender, t, x, sender')
  BY <1>2, <1>4 DEF RefuseEndpoint, Listening
<1>5. ASSUME NEW s \in Streams, PumpError(s)
      PROVE  /\ produced' = produced
             /\ \/ sender'.wire = sender.wire
                \/ \E t \in Streams, x \in Frames : OneFrame(sender, t, x, sender')
  BY <1>2, <1>5 DEF PumpError, Live, Terminal
<1>6. ASSUME NEW s \in Streams, PumpEnd(s)
      PROVE  /\ produced' = produced
             /\ \/ sender'.wire = sender.wire
                \/ \E t \in Streams, x \in Frames : OneFrame(sender, t, x, sender')
  <2>1. EndBytes \in Nat /\ 0 \in Nat
    BY FrameType
  <2>2. Frame("end", 0, EndBytes) \in Frames
    BY <2>1, FrameType
  <2> QED BY <1>1, <1>6, <2>2, ForcedSends DEF PumpEnd, Live, Terminal
<1>7. ASSUME NEW s \in Streams, Cancel(s)
      PROVE  produced' = produced /\ sender'.wire = sender.wire
  BY <1>1, <1>7, DroppedWire DEF Cancel
<1>8. CASE SendDone
  <2>1. /\ SenderInv(Released(sender)) /\ Released(sender).closed = sender.closed
    BY <1>1, <1>8, ReleasedInv DEF SendDone
  <2>2. Released(sender).wire = sender.wire
    BY <1>1 DEF Released, Landed, Senders
  <2>3. CASE readyState = "open" /\ ~sender.closed
    <3>1. sender' = Drained(Released(sender)) /\ produced' = produced
      BY <1>8, <2>3 DEF SendDone
    <3> DEFINE r == Released(sender)
    <3>2. r \in Senders /\ SenderInv(r) /\ ~r.closed /\ r.wire = sender.wire
      BY <2>1, <2>2, <2>3 DEF SenderInv
    <3> HIDE DEF r
    <3>3. \/ Drained(r).wire = r.wire
          \/ /\ r.ready[1] \in Streams
             /\ \E x \in Frames : OneFrame(r, r.ready[1], x, Drained(r))
      BY <3>2, DrainedWire
    <3>4. sender' = Drained(r)
      BY <3>1 DEF r
    <3>5. ASSUME NEW t \in Streams, NEW x \in Frames, OneFrame(r, t, x, Drained(r))
          PROVE  OneFrame(sender, t, x, sender')
      BY <3>2, <3>4, <3>5 DEF OneFrame
    <3> QED BY <3>1, <3>2, <3>3, <3>4, <3>5
  <2>4. CASE ~(readyState = "open" /\ ~sender.closed)
    <3>1. sender' = Released(sender) /\ produced' = produced
      BY <1>8, <2>1, <2>4 DEF SendDone, Drained
    <3> QED BY <2>2, <3>1
  <2> QED BY <2>3, <2>4
<1>9. CASE SendFailed
  <2>1. Landed(sender) \in Senders /\ Landed(sender).wire = sender.wire
    BY <1>1, LandedInv
  <2> QED BY <1>9, <2>1, FailSendsNothing DEF SendFailed, Fail
<1>10. CASE Malformed \/ SocketClosed \/ SocketError \/ PeerCloses
           \/ \E p \in PagePrefixes, s \in Streams : RejectOpen(p, s) \/ Open(p, s)
  BY <1>1, <1>10, FailSendsNothing
  DEF Malformed, SocketClosed, SocketError, PeerCloses, RejectOpen, Open
<1>11. ASSUME NEW s \in Streams, PumpLate(s)
       PROVE  produced' = produced /\ sender'.wire = sender.wire
  BY <1>11 DEF PumpLate
<1> QED BY <1>3, <1>4, <1>5, <1>6, <1>7, <1>8, <1>9, <1>10, <1>11
        DEF Next, Message, Pump, Socket

\* serveStreamSocket delivers the items of a stream one by one and in order, and an
\* end only after the last, whatever the limits and the failures.
THEOREM PromiseKept == Spec => KeepsPromise
<1>1. Init => Promise!Init
  <2> SUFFICES ASSUME Init PROVE Promise!Init
    OBVIOUS
  <2>1. \A s \in Streams : Verdict(s) = "none" /\ Delivered(s) = 0
    BY DEF Init, NewSender, NothingHeld, Verdict, Delivered
  <2> QED BY <2>1 DEF Init, Promise!Init
<1>2. ASSUME IInv, [Next]_muxVars
      PROVE  [Promise!Next]_(Promise!vars)
  <2>1. IInv' /\ TypeOK
    BY <1>2, NextIInv DEF IInv
  <2>2. CASE \E s \in Streams : PumpItem(s)
    BY <1>2, <2>1, <2>2, PumpItemSends
  <2>3. CASE Next /\ ~\E s \in Streams : PumpItem(s)
    BY <1>2, <2>1, <2>3, OthersSend, StepWithoutItem
  <2>4. CASE UNCHANGED muxVars
    BY <2>4, NothingSeen DEF muxVars, Promise!vars
  <2> QED BY <1>2, <2>2, <2>3, <2>4
<1>3. IInv /\ [Next]_muxVars => [Promise!Next]_(Promise!vars)
  BY <1>2
<1> QED BY <1>1, <1>3, InvariantHolds, PTL DEF Spec, KeepsPromise, Promise!Spec

(***************************************************************************)
(* Part 5.  Sums.  The byte counters are sums over the frames of a stream  *)
(* and over the streams, written with the folds of the libraries; what a   *)
(* sum does when one summand changes is proved here, by induction over     *)
(* numbers, for any order in which the fold visits its elements.           *)
(***************************************************************************)
LEMMA LeastNumber ==
  ASSUME NEW T \in SUBSET Nat, T # {}
  PROVE  \E m \in T : \A k \in T : m <= k
<1> DEFINE R == OpToRel(<, Nat)
<1>1. IsWellFoundedOn(R, Nat)
  BY NatLessThanWellFounded
<1> HIDE DEF R
<1>2. PICK m \in T : \A k \in T : ~(<<k, m>> \in R)
  BY <1>1, WFMin, Zenon
<1>3. \A k \in Nat : k < m => <<k, m>> \in R
  BY DEF R, OpToRel
<1>4. ASSUME NEW k \in T PROVE m <= k
  <2>1. m \in Nat /\ k \in Nat
    OBVIOUS
  <2>2. ~(k < m)
    BY <1>2, <1>3, <2>1
  <2> QED BY <2>1, <2>2
<1> QED BY <1>4

\* Induction over the numbers, by their set.
LEMMA NumbersInductive ==
  ASSUME NEW S, 0 \in S, \A n \in Nat : n \in S => n + 1 \in S
  PROVE  Nat \subseteq S
<1> SUFFICES ASSUME Nat \ S # {} PROVE FALSE
  OBVIOUS
<1>1. PICK m \in Nat \ S : \A k \in Nat \ S : m <= k
  BY LeastNumber
<1>2. m # 0 /\ m - 1 \in Nat /\ m - 1 < m
  BY <1>1
<1>3. m - 1 \in S
  BY <1>1, <1>2
<1>4. (m - 1) + 1 \in S
  BY <1>2, <1>3
<1> QED BY <1>1, <1>4

\* The element a fold takes next, and the sums of h over the subsets of S.
Pick(T) == CHOOSE x \in T : TRUE
IsSum(g, h, S) ==
  g = [T \in SUBSET S |-> IF T = {} THEN 0 ELSE h[Pick(T)] + g[T \ {Pick(T)}]]

LEMMA Picked ==
  ASSUME NEW T, T # {}
  PROVE  Pick(T) \in T
  BY DEF Pick

\* A finite set without one of its elements.
LEMMA OneLess ==
  ASSUME NEW T, IsFiniteSet(T), NEW x \in T, NEW k \in Nat, Cardinality(T) <= k + 1
  PROVE  IsFiniteSet(T \ {x}) /\ Cardinality(T \ {x}) <= k
<1>1. Cardinality(T) \in Nat
  BY FS_CardinalityType
<1>2. IsFiniteSet(T \ {x}) /\ Cardinality(T \ {x}) = Cardinality(T) - 1
  BY FS_RemoveElement
<1> QED BY <1>1, <1>2

\* The sums over the subsets of at most k elements.
Small(S, k) == {T \in SUBSET S : Cardinality(T) <= k}
SumUpTo(g, h, S, k) ==
  g = [T \in Small(S, k) |-> IF T = {} THEN 0 ELSE h[Pick(T)] + g[T \ {Pick(T)}]]

LEMMA SumExists ==
  ASSUME NEW h, NEW S, IsFiniteSet(S)
  PROVE  \E g : IsSum(g, h, S)
<1> DEFINE Good == {k \in Nat : \E g : SumUpTo(g, h, S, k)}
<1>0. \A T \in SUBSET S : IsFiniteSet(T)
  BY FS_Subset
<1>1. 0 \in Good
  <2> DEFINE g == [T \in Small(S, 0) |-> 0]
             e == [T \in Small(S, 0) |->
                     IF T = {} THEN 0 ELSE h[Pick(T)] + g[T \ {Pick(T)}]]
  <2>1. ASSUME NEW T \in Small(S, 0) PROVE T = {}
    <3>1. IsFiniteSet(T) /\ Cardinality(T) <= 0
      BY <1>0 DEF Small
    <3>2. Cardinality(T) \in Nat
      BY <3>1, FS_CardinalityType
    <3>3. Cardinality(T) = 0
      BY <3>1, <3>2
    <3> QED BY <3>1, <3>3, FS_EmptySet
  <2>2. g = e
    BY <2>1
  <2> HIDE DEF g
  <2>3. SumUpTo(g, h, S, 0)
    BY <2>2 DEF SumUpTo
  <2> QED BY <2>3
<1>2. ASSUME NEW k \in Nat, k \in Good PROVE k + 1 \in Good
  <2>1. PICK g : SumUpTo(g, h, S, k)
    BY <1>2
  <2>2. \A T \in Small(S, k) : g[T] = IF T = {} THEN 0 ELSE h[Pick(T)] + g[T \ {Pick(T)}]
    BY <2>1 DEF SumUpTo
  <2> DEFINE f == [T \in Small(S, k + 1) |->
                     IF T = {} THEN 0 ELSE h[Pick(T)] + g[T \ {Pick(T)}]]
             e == [T \in Small(S, k + 1) |->
                     IF T = {} THEN 0 ELSE h[Pick(T)] + f[T \ {Pick(T)}]]
  <2>3. ASSUME NEW T \in Small(S, k + 1), T # {}
        PROVE  f[T \ {Pick(T)}] = g[T \ {Pick(T)}]
    <3> DEFINE U == T \ {Pick(T)}
    <3>1. Pick(T) \in T /\ T \in SUBSET S /\ IsFiniteSet(T) /\ Cardinality(T) <= k + 1
      BY <1>0, <2>3, Picked DEF Small
    <3>2. IsFiniteSet(U) /\ Cardinality(U) <= k
      BY <3>1, OneLess
    <3>3. Cardinality(U) \in Nat /\ Cardinality(U) <= k + 1
      BY <3>2, FS_CardinalityType
    <3>4. U \in Small(S, k) /\ U \in Small(S, k + 1)
      BY <3>1, <3>2, <3>3 DEF Small
    <3> HIDE DEF U
    <3>5. f[U] = g[U]
      BY <2>2, <3>4
    <3> QED BY <3>5 DEF U
  <2>4. \A T \in Small(S, k + 1) : f[T] = e[T]
    BY <2>3
  <2>5. f = e
    BY <2>4
  <2> HIDE DEF f
  <2>6. SumUpTo(f, h, S, k + 1)
    BY <2>5 DEF SumUpTo
  <2> QED BY <2>6
<1> HIDE DEF Good
<1>3. Nat \subseteq Good
  BY <1>1, <1>2, NumbersInductive
<1>4. Cardinality(S) \in Nat
  BY FS_CardinalityType
<1>5. PICK g : SumUpTo(g, h, S, Cardinality(S))
  BY <1>3, <1>4 DEF Good
<1>6. Small(S, Cardinality(S)) = SUBSET S
  <2>1. \A T \in SUBSET S : Cardinality(T) <= Cardinality(S)
    BY FS_Subset
  <2> QED BY <2>1 DEF Small
<1>7. IsSum(g, h, S)
  BY <1>5, <1>6 DEF SumUpTo, IsSum
<1> QED BY <1>7

LEMMA SumUnfolds ==
  ASSUME NEW h, NEW S, NEW g, IsSum(g, h, S), NEW T \in SUBSET S
  PROVE  g[T] = IF T = {} THEN 0 ELSE h[Pick(T)] + g[T \ {Pick(T)}]
  BY DEF IsSum

\* Any element can be taken out of a sum first.
Peels(g, h, S) ==
  \A T \in SUBSET S : g[T] \in Nat /\ \A x \in T : g[T] = h[x] + g[T \ {x}]

LEMMA SumPeels ==
  ASSUME NEW S, IsFiniteSet(S), NEW h \in [S -> Nat], NEW g, IsSum(g, h, S)
  PROVE  Peels(g, h, S)
<1> DEFINE Good == {k \in Nat : \A T \in SUBSET S : Cardinality(T) <= k =>
                      g[T] \in Nat /\ \A x \in T : g[T] = h[x] + g[T \ {x}]}
<1>0. \A T \in SUBSET S : IsFiniteSet(T) /\ Cardinality(T) \in Nat
  BY FS_Subset, FS_CardinalityType
<1>1. g[{}] = 0
  BY SumUnfolds
<1>2. 0 \in Good
  <2> SUFFICES ASSUME NEW T \in SUBSET S, Cardinality(T) <= 0
               PROVE  g[T] \in Nat /\ \A x \in T : g[T] = h[x] + g[T \ {x}]
    OBVIOUS
  <2>1. Cardinality(T) = 0
    BY <1>0
  <2>2. T = {}
    BY <1>0, <2>1, FS_EmptySet
  <2> QED BY <1>1, <2>2
<1>3. ASSUME NEW k \in Nat, k \in Good PROVE k + 1 \in Good
  <2> SUFFICES ASSUME NEW T \in SUBSET S, Cardinality(T) <= k + 1
               PROVE  g[T] \in Nat /\ \A x \in T : g[T] = h[x] + g[T \ {x}]
    OBVIOUS
  <2>1. \A U \in SUBSET S : Cardinality(U) <= k =>
          g[U] \in Nat /\ \A x \in U : g[U] = h[x] + g[U \ {x}]
    BY <1>3
  <2> HIDE DEF Good
  <2>2. CASE T = {}
    BY <1>1, <2>2
  <2>3. CASE T # {}
    <3> DEFINE y == Pick(T)
    <3>1. y \in T
      BY <2>3, Picked
    <3>2. g[T] = h[y] + g[T \ {y}]
      BY <2>3, SumUnfolds
    <3> HIDE DEF y
    <3>3. \A x \in T : T \ {x} \in SUBSET S /\ Cardinality(T \ {x}) <= k
      BY <1>0, OneLess
    <3>4. \A x \in T : /\ g[T \ {x}] \in Nat /\ h[x] \in Nat
                       /\ \A z \in T \ {x} : g[T \ {x}] = h[z] + g[(T \ {x}) \ {z}]
      BY <2>1, <3>3
    <3>5. g[T] \in Nat
      <4>1. g[T \ {y}] \in Nat /\ h[y] \in Nat
        BY <3>1, <3>4
      <4> QED BY <3>2, <4>1
    <3>6. ASSUME NEW x \in T PROVE g[T] = h[x] + g[T \ {x}]
      <4>1. CASE x = y
        BY <3>2, <4>1
      <4>2. CASE x # y
        <5> DEFINE U == (T \ {x}) \ {y}
        <5>1. (T \ {y}) \ {x} = U /\ U \in SUBSET S
          OBVIOUS
        <5>2. /\ g[T \ {y}] = h[x] + g[U]
              /\ g[T \ {x}] = h[y] + g[U]
          BY <3>1, <3>4, <4>2, <5>1
        <5>3. g[U] \in Nat
          <6>1. Cardinality(U) <= Cardinality(T \ {x})
            BY <1>0, <3>3, FS_Subset
          <6>2. Cardinality(U) <= k
            BY <1>0, <3>3, <5>1, <6>1
          <6> QED BY <2>1, <5>1, <6>2
        <5> HIDE DEF U
        <5>4. h[x] \in Nat /\ h[y] \in Nat
          BY <3>1
        <5> QED BY <3>2, <5>2, <5>3, <5>4
      <4> QED BY <4>1, <4>2
    <3> QED BY <3>5, <3>6
  <2> QED BY <2>2, <2>3
<1> HIDE DEF Good
<1>4. Nat \subseteq Good
  BY <1>2, <1>3, NumbersInductive
<1>5. ASSUME NEW T \in SUBSET S
      PROVE  g[T] \in Nat /\ \A x \in T : g[T] = h[x] + g[T \ {x}]
  <2>1. Cardinality(T) \in Good /\ Cardinality(T) <= Cardinality(T)
    BY <1>0, <1>4
  <2> QED BY <2>1 DEF Good
<1> QED BY <1>5 DEF Peels

\* The same for one element.
LEMMA TakeOut ==
  ASSUME NEW S, IsFiniteSet(S), NEW h \in [S -> Nat], NEW g, IsSum(g, h, S),
         NEW T \in SUBSET S, NEW x \in T, NEW R, R = T \ {x}
  PROVE  g[T] = h[x] + g[R] /\ g[T] \in Nat /\ g[R] \in Nat /\ h[x] \in Nat
<1>1. Peels(g, h, S)
  BY SumPeels
<1>2. R \in SUBSET S /\ x \in S
  OBVIOUS
<1>3. h[x] \in Nat
  BY <1>2
<1>4. g[T] = h[x] + g[T \ {x}] /\ g[T] \in Nat /\ g[R] \in Nat
  BY <1>1, <1>2 DEF Peels
<1> QED BY <1>3, <1>4

LEMMA SumOfNothing ==
  ASSUME NEW S, NEW h, NEW g, IsSum(g, h, S)
  PROVE  g[{}] = 0
  BY SumUnfolds

\* Two sums of the same summands are the same.
LEMMA SumsAlike ==
  ASSUME NEW S, IsFiniteSet(S), NEW h \in [S -> Nat], NEW g, IsSum(g, h, S),
         NEW R, IsFiniteSet(R), NEW j \in [R -> Nat], NEW e, IsSum(e, j, R),
         NEW T, T \subseteq S, T \subseteq R, \A x \in T : h[x] = j[x]
  PROVE  g[T] = e[T]
<1> DEFINE Good == {k \in Nat : \A U \in SUBSET T : Cardinality(U) <= k => g[U] = e[U]}
<1>0. \A U \in SUBSET T : IsFiniteSet(U) /\ Cardinality(U) \in Nat /\ U \in SUBSET S /\ U \in SUBSET R
  BY FS_Subset, FS_CardinalityType
<1>1. g[{}] = 0 /\ e[{}] = 0
  BY SumOfNothing
<1>2. ASSUME NEW U \in SUBSET T, NEW x \in U
      PROVE  g[U] = h[x] + g[U \ {x}] /\ e[U] = j[x] + e[U \ {x}]
  <2>1. U \in SUBSET S /\ U \in SUBSET R
    OBVIOUS
  <2>2. g[U] = h[x] + g[U \ {x}]
    BY <2>1, TakeOut
  <2>3. e[U] = j[x] + e[U \ {x}]
    BY <2>1, TakeOut
  <2> QED BY <2>2, <2>3
<1>3. 0 \in Good
  <2> SUFFICES ASSUME NEW U \in SUBSET T, Cardinality(U) <= 0 PROVE g[U] = e[U]
    OBVIOUS
  <2>1. Cardinality(U) = 0
    BY <1>0
  <2>2. U = {}
    BY <1>0, <2>1, FS_EmptySet
  <2> QED BY <1>1, <2>2
<1>4. ASSUME NEW k \in Nat, k \in Good PROVE k + 1 \in Good
  <2> SUFFICES ASSUME NEW U \in SUBSET T, Cardinality(U) <= k + 1 PROVE g[U] = e[U]
    OBVIOUS
  <2>1. CASE U = {}
    BY <1>1, <2>1
  <2>2. CASE U # {}
    <3>1. PICK x : x \in U
      BY <2>2
    <3>2. U \ {x} \in SUBSET T /\ Cardinality(U \ {x}) <= k
      BY <1>0, <3>1, OneLess
    <3>3. g[U \ {x}] = e[U \ {x}]
      BY <1>4, <3>2
    <3> QED BY <1>2, <3>1, <3>3
  <2> QED BY <2>1, <2>2
<1> HIDE DEF Good
<1>5. Nat \subseteq Good
  BY <1>3, <1>4, NumbersInductive
<1>6. Cardinality(T) \in Good /\ Cardinality(T) <= Cardinality(T) /\ T \in SUBSET T
  BY <1>0, <1>5
<1> QED BY <1>6 DEF Good

\* A sum of zeros is zero.
LEMMA SumOfZeros ==
  ASSUME NEW S, IsFiniteSet(S), NEW h \in [S -> Nat], NEW g, IsSum(g, h, S),
         \A x \in S : h[x] = 0
  PROVE  g[S] = 0
<1> DEFINE Good == {k \in Nat : \A U \in SUBSET S : Cardinality(U) <= k => g[U] = 0}
<1>0. \A U \in SUBSET S : IsFiniteSet(U) /\ Cardinality(U) \in Nat
  BY FS_Subset, FS_CardinalityType
<1>1. g[{}] = 0
  BY SumOfNothing
<1>2. 0 \in Good
  <2> SUFFICES ASSUME NEW U \in SUBSET S, Cardinality(U) <= 0 PROVE g[U] = 0
    OBVIOUS
  <2>1. Cardinality(U) = 0
    BY <1>0
  <2>2. U = {}
    BY <1>0, <2>1, FS_EmptySet
  <2> QED BY <1>1, <2>2
<1>3. ASSUME NEW k \in Nat, k \in Good PROVE k + 1 \in Good
  <2> SUFFICES ASSUME NEW U \in SUBSET S, Cardinality(U) <= k + 1 PROVE g[U] = 0
    OBVIOUS
  <2>1. CASE U = {}
    BY <1>1, <2>1
  <2>2. CASE U # {}
    <3>1. PICK x : x \in U
      BY <2>2
    <3>2. U \ {x} \in SUBSET S /\ Cardinality(U \ {x}) <= k
      BY <1>0, <3>1, OneLess
    <3>3. g[U \ {x}] = 0
      BY <1>3, <3>2
    <3>4. g[U] = h[x] + g[U \ {x}]
      BY <3>1, TakeOut
    <3>5. h[x] = 0
      BY <3>1
    <3> QED BY <3>3, <3>4, <3>5
  <2> QED BY <2>1, <2>2
<1> HIDE DEF Good
<1>4. Nat \subseteq Good
  BY <1>2, <1>3, NumbersInductive
<1>5. Cardinality(S) \in Good /\ Cardinality(S) <= Cardinality(S) /\ S \in SUBSET S
  BY <1>0, <1>4
<1> QED BY <1>5 DEF Good

-----------------------------------------------------------------------------
(* The sum over the streams.                                                *)

Total(f) == FoldFunction(+, 0, f)

LEMMA TotalIsSum ==
  ASSUME NEW f \in [Streams -> Nat]
  PROVE  \E g : IsSum(g, f, Streams) /\ Total(f) = g[Streams]
<1> DEFINE g == CHOOSE e : IsSum(e, f, Streams)
<1>1. DOMAIN f = Streams /\ IsFiniteSet(Streams)
  BY MuxAssumption
<1>2. Total(f) = g[Streams]
  BY <1>1 DEF Total, FoldFunction, FoldFunctionOnSet, MapThenFoldSet, IsSum, Pick
<1> HIDE DEF g
<1>3. IsSum(g, f, Streams)
  BY <1>1, SumExists DEF g
<1> QED BY <1>2, <1>3

\* What changing one summand does to the sum.
LEMMA TotalChanges ==
  ASSUME NEW f \in [Streams -> Nat], NEW s \in Streams, NEW v \in Nat
  PROVE  /\ Total(f) \in Nat /\ f[s] \in Nat
         /\ f[s] <= Total(f)
         /\ Total([f EXCEPT ![s] = v]) = Total(f) - f[s] + v
<1> DEFINE h == [f EXCEPT ![s] = v]
           rest == Streams \ {s}
<1>1. /\ h \in [Streams -> Nat] /\ h[s] = v /\ f[s] \in Nat
      /\ \A x \in rest : f[x] = h[x]
      /\ rest \in SUBSET Streams
  OBVIOUS
<1> HIDE DEF h
<1>2. IsFiniteSet(Streams)
  BY MuxAssumption
<1>3. PICK g : IsSum(g, f, Streams) /\ Total(f) = g[Streams]
  BY TotalIsSum
<1>4. PICK e : IsSum(e, h, Streams) /\ Total(h) = e[Streams]
  BY <1>1, TotalIsSum
<1>5. g[Streams] \in Nat /\ g[Streams] = f[s] + g[rest] /\ g[rest] \in Nat
  BY <1>1, <1>2, <1>3, TakeOut
<1>6. e[Streams] = h[s] + e[rest]
  BY <1>1, <1>2, <1>4, TakeOut
<1>7. g[rest] = e[rest]
  BY <1>1, <1>2, <1>3, <1>4, SumsAlike
<1> HIDE DEF rest
<1>8. Total(h) = v + g[rest]
  BY <1>1, <1>4, <1>6, <1>7
<1> QED BY <1>1, <1>3, <1>5, <1>8 DEF h

LEMMA TotalOfZeros == Total([s \in Streams |-> 0]) = 0
<1> DEFINE f == [s \in Streams |-> 0]
<1>1. f \in [Streams -> Nat] /\ \A s \in Streams : f[s] = 0
  OBVIOUS
<1> HIDE DEF f
<1>2. PICK g : IsSum(g, f, Streams) /\ Total(f) = g[Streams]
  BY <1>1, TotalIsSum
<1>3. g[Streams] = 0
  BY <1>1, <1>2, MuxAssumption, SumOfZeros
<1> QED BY <1>2, <1>3 DEF f

-----------------------------------------------------------------------------
(* The sum over the frames of one stream.                                   *)

Sizes(fr) == [i \in 1..Len(fr) |-> fr[i].bytes]

LEMMA SizesType ==
  ASSUME NEW fr \in Seq(Frames)
  PROVE  /\ Len(fr) \in Nat /\ IsFiniteSet(1..Len(fr))
         /\ DOMAIN fr = 1..Len(fr)
         /\ Sizes(fr) \in [1..Len(fr) -> Nat]
         /\ \A i \in 1..Len(fr) : fr[i] \in Frames /\ Sizes(fr)[i] = fr[i].bytes
<1>1. Len(fr) \in Nat /\ \A i \in 1..Len(fr) : fr[i] \in Frames
  OBVIOUS
<1>2. \A x \in Frames : x.bytes \in Nat
  BY DEF Frames
<1>3. IsFiniteSet(1..Len(fr))
  BY <1>1, FS_Interval
<1> QED BY <1>1, <1>2, <1>3 DEF Sizes

LEMMA BytesAreSum ==
  ASSUME NEW fr \in Seq(Frames)
  PROVE  \E g : IsSum(g, Sizes(fr), 1..Len(fr)) /\ SumBytes(fr) = g[1..Len(fr)]
<1> DEFINE S == 1..Len(fr)
           F(e) == e = [T \in SUBSET S |->
                          IF T = {} THEN 0 ELSE fr[Pick(T)].bytes + e[T \ {Pick(T)}]]
           g == CHOOSE e : F(e)
<1>1. /\ DOMAIN fr = S /\ IsFiniteSet(S)
      /\ \A i \in S : Sizes(fr)[i] = fr[i].bytes
  BY SizesType
<1>2. SumBytes(fr) = g[S]
  BY <1>1 DEF SumBytes, FoldSeq, FoldFunction, FoldFunctionOnSet, MapThenFoldSet, Pick
<1> HIDE DEF S
<1>3. \A T \in SUBSET S : T # {} => Sizes(fr)[Pick(T)] = fr[Pick(T)].bytes
  BY <1>1, Picked
<1>4. ASSUME NEW e PROVE F(e) <=> IsSum(e, Sizes(fr), S)
  <2> DEFINE a == [T \in SUBSET S |->
                     IF T = {} THEN 0 ELSE fr[Pick(T)].bytes + e[T \ {Pick(T)}]]
             b == [T \in SUBSET S |->
                     IF T = {} THEN 0 ELSE Sizes(fr)[Pick(T)] + e[T \ {Pick(T)}]]
  <2>1. a = b
    BY <1>3
  <2> QED BY <2>1 DEF IsSum
<1> HIDE DEF g, F
<1>5. \E e : F(e)
  BY <1>1, <1>4, SumExists
<1>6. F(g)
  BY <1>5 DEF g
<1> QED BY <1>2, <1>4, <1>6 DEF S

LEMMA BytesOfNone == SumBytes(<<>>) = 0
<1>1. <<>> \in Seq(Frames) /\ 1..Len(<<>>) = {}
  OBVIOUS
<1>2. PICK g : IsSum(g, Sizes(<<>>), {}) /\ SumBytes(<<>>) = g[{}]
  BY <1>1, BytesAreSum
<1>3. g[{}] = 0
  BY <1>2, SumUnfolds
<1> QED BY <1>2, <1>3

\* One more frame at the back.
LEMMA BytesOfAppend ==
  ASSUME NEW fr \in Seq(Frames), NEW f \in Frames
  PROVE  SumBytes(fr) \in Nat /\ SumBytes(Append(fr, f)) = SumBytes(fr) + f.bytes
<1> DEFINE n == Len(fr)
           m == Append(fr, f)
<1>1. /\ n \in Nat /\ m \in Seq(Frames) /\ Len(m) = n + 1 /\ m[n + 1] = f
      /\ \A i \in 1..n : m[i] = fr[i]
  OBVIOUS
<1> HIDE DEF m
<1>2. /\ Sizes(fr) \in [1..n -> Nat] /\ IsFiniteSet(1..n)
      /\ \A i \in 1..n : Sizes(fr)[i] = fr[i].bytes
  BY SizesType
<1>3. /\ Sizes(m) \in [1..n + 1 -> Nat] /\ IsFiniteSet(1..n + 1)
      /\ \A i \in 1..n + 1 : Sizes(m)[i] = m[i].bytes
  BY <1>1, SizesType
<1> HIDE DEF n
<1>4. PICK g : IsSum(g, Sizes(fr), 1..n) /\ SumBytes(fr) = g[1..n]
  BY BytesAreSum DEF n
<1>5. PICK e : IsSum(e, Sizes(m), 1..n + 1) /\ SumBytes(m) = e[1..n + 1]
  BY <1>1, BytesAreSum
<1>6. /\ n + 1 \in 1..n + 1 /\ (1..n + 1) \ {n + 1} = 1..n /\ 1..n \subseteq 1..n + 1
      /\ 1..n + 1 \in SUBSET (1..n + 1) /\ 1..n \in SUBSET (1..n)
  BY <1>1
<1>7. e[1..n + 1] = Sizes(m)[n + 1] + e[1..n] /\ e[1..n] \in Nat
  <2> DEFINE W == 1..n + 1
             k == n + 1
             V == 1..n
             z == Sizes(m)
  <2>1. /\ IsFiniteSet(W) /\ z \in [W -> Nat] /\ IsSum(e, z, W)
        /\ W \in SUBSET W /\ k \in W /\ V = W \ {k}
    BY <1>3, <1>5, <1>6
  <2> HIDE DEF W, k, V, z
  <2>2. e[W] = z[k] + e[V] /\ e[V] \in Nat
    BY <2>1, TakeOut
  <2> QED BY <2>2 DEF W, k, V, z
<1>9. \A i \in 1..n : Sizes(fr)[i] = Sizes(m)[i]
  BY <1>1, <1>2, <1>3, <1>6
<1>8. g[1..n] = e[1..n]
  <2> DEFINE T == 1..n
             W == 1..n + 1
  <2>1. T \subseteq T /\ T \subseteq W /\ IsFiniteSet(T) /\ IsFiniteSet(W)
    BY <1>2, <1>3, <1>6
  <2>2. /\ Sizes(fr) \in [T -> Nat] /\ Sizes(m) \in [W -> Nat]
        /\ IsSum(g, Sizes(fr), T) /\ IsSum(e, Sizes(m), W)
        /\ \A i \in T : Sizes(fr)[i] = Sizes(m)[i]
    BY ONLY <1>2, <1>3, <1>4, <1>5, <1>9
  <2> DEFINE x == Sizes(fr)
             y == Sizes(m)
  <2>3. /\ x \in [T -> Nat] /\ y \in [W -> Nat] /\ IsSum(g, x, T) /\ IsSum(e, y, W)
        /\ \A i \in T : x[i] = y[i]
    BY <2>2
  <2> HIDE DEF T, W, x, y
  <2>4. g[T] = e[T]
    BY ONLY <2>1, <2>3, SumsAlike
  <2> QED BY <2>4 DEF T
<1>10. Sizes(m)[n + 1] = f.bytes /\ f.bytes \in Nat
  BY <1>1, <1>3, <1>6 DEF Frames
<1> QED BY <1>4, <1>5, <1>7, <1>8, <1>10 DEF m

\* One frame less at the front.
LEMMA BytesOfTail ==
  ASSUME NEW fr \in Seq(Frames), fr # <<>>
  PROVE  /\ Tail(fr) \in Seq(Frames) /\ Head(fr) \in Frames
         /\ SumBytes(Tail(fr)) \in Nat /\ Head(fr).bytes \in Nat
         /\ SumBytes(fr) = Head(fr).bytes + SumBytes(Tail(fr))
<1> DEFINE n == Len(fr)
           m == Tail(fr)
<1>1. /\ n \in Nat /\ n # 0 /\ m \in Seq(Frames) /\ Len(m) = n - 1 /\ Head(fr) = fr[1]
      /\ \A i \in 1..n - 1 : m[i] = fr[i + 1]
      /\ Head(fr) \in Frames
  OBVIOUS
<1> HIDE DEF m
<1>2. /\ Sizes(fr) \in [1..n -> Nat] /\ IsFiniteSet(1..n)
      /\ \A i \in 1..n : Sizes(fr)[i] = fr[i].bytes
  BY SizesType
<1>3. /\ Sizes(m) \in [1..n - 1 -> Nat] /\ IsFiniteSet(1..n - 1)
      /\ \A i \in 1..n - 1 : Sizes(m)[i] = m[i].bytes
  BY <1>1, SizesType
<1>4. PICK g : IsSum(g, Sizes(fr), 1..n) /\ SumBytes(fr) = g[1..n]
  BY BytesAreSum DEF n
<1>5. PICK e : IsSum(e, Sizes(m), 1..n - 1) /\ SumBytes(m) = e[1..n - 1]
  BY <1>1, BytesAreSum
<1> HIDE DEF n
<1>6. g[{}] = 0 /\ e[{}] = 0
  BY <1>4, <1>5, SumOfNothing
<1> DEFINE Good == {k \in Nat : k <= n - 1 => g[1..k + 1] = fr[1].bytes + e[1..k]}
<1>8. 0 \in Good
  <2>1. 1..0 + 1 = {1} /\ 1..0 = {} /\ 1 \in 1..n /\ {1} \in SUBSET (1..n) /\ {1} \ {1} = {}
    BY <1>1
  <2>2. g[{1}] = Sizes(fr)[1] + g[{}] /\ Sizes(fr)[1] \in Nat
    <3> DEFINE W == 1..n
               z == Sizes(fr)
    <3>1. /\ IsFiniteSet(W) /\ z \in [W -> Nat] /\ IsSum(g, z, W)
          /\ {1} \in SUBSET W /\ {} = {1} \ {1}
      BY <1>2, <1>4, <2>1
    <3> HIDE DEF W, z
    <3>2. g[{1}] = z[1] + g[{}] /\ z[1] \in Nat
      BY <3>1, TakeOut
    <3> QED BY <3>2 DEF z
  <2>3. Sizes(fr)[1] = fr[1].bytes
    BY <1>2, <2>1
  <2> QED BY <1>6, <2>1, <2>2, <2>3
<1>9. ASSUME NEW k \in Nat, k \in Good PROVE k + 1 \in Good
  <2> SUFFICES ASSUME k + 1 <= n - 1 PROVE g[1..(k + 1) + 1] = fr[1].bytes + e[1..k + 1]
    OBVIOUS
  <2>1. g[1..k + 1] = fr[1].bytes + e[1..k]
    BY <1>1, <1>9
  <2> HIDE DEF Good
  <2>2. /\ (k + 1) + 1 \in 1..(k + 1) + 1 /\ (1..(k + 1) + 1) \ {(k + 1) + 1} = 1..k + 1
        /\ 1..(k + 1) + 1 \in SUBSET (1..n) /\ (k + 1) + 1 \in 1..n
    BY <1>1
  <2>3. /\ k + 1 \in 1..k + 1 /\ (1..k + 1) \ {k + 1} = 1..k
        /\ 1..k + 1 \in SUBSET (1..n - 1) /\ k + 1 \in 1..n - 1 /\ 1..k \in SUBSET (1..n - 1)
    BY <1>1
  <2>4. g[1..(k + 1) + 1] = Sizes(fr)[(k + 1) + 1] + g[1..k + 1]
    <3> DEFINE W == 1..n
               U == 1..(k + 1) + 1
               V == 1..k + 1
               x == (k + 1) + 1
               z == Sizes(fr)
    <3>1. /\ IsFiniteSet(W) /\ z \in [W -> Nat] /\ IsSum(g, z, W)
          /\ U \in SUBSET W /\ x \in U /\ V = U \ {x}
      BY <1>2, <1>4, <2>2
    <3> HIDE DEF W, U, V, x, z
    <3>2. g[U] = z[x] + g[V]
      BY <3>1, TakeOut
    <3> QED BY <3>2 DEF U, V, x, z
  <2>5. e[1..k + 1] = Sizes(m)[k + 1] + e[1..k] /\ e[1..k] \in Nat
    <3> DEFINE W == 1..n - 1
               U == 1..k + 1
               V == 1..k
               x == k + 1
               z == Sizes(m)
    <3>1. /\ IsFiniteSet(W) /\ z \in [W -> Nat] /\ IsSum(e, z, W)
          /\ U \in SUBSET W /\ x \in U /\ V = U \ {x}
      BY <1>3, <1>5, <2>3
    <3> HIDE DEF W, U, V, x, z
    <3>2. e[U] = z[x] + e[V]
      BY <3>1, TakeOut
    <3>3. Peels(e, z, W) /\ V \in SUBSET W
      BY <3>1, SumPeels
    <3>4. e[V] \in Nat
      BY <3>3 DEF Peels
    <3> QED BY <3>2, <3>4 DEF U, V, x, z
  <2>6. Sizes(m)[k + 1] = Sizes(fr)[(k + 1) + 1]
    <3>1. m[k + 1] = fr[(k + 1) + 1]
      BY <1>1, <2>3
    <3>2. Sizes(m)[k + 1] = m[k + 1].bytes
      BY <1>3, <2>3
    <3>3. Sizes(fr)[(k + 1) + 1] = fr[(k + 1) + 1].bytes
      BY <1>2, <2>2
    <3> QED BY <3>1, <3>2, <3>3
  <2>7. fr[1].bytes \in Nat /\ Sizes(m)[k + 1] \in Nat
    BY <1>1, <1>3, <2>3 DEF Frames
  <2> QED BY <2>1, <2>4, <2>5, <2>6, <2>7
<1> HIDE DEF Good
<1>10. Nat \subseteq Good
  BY <1>8, <1>9, NumbersInductive
<1>11. n - 1 \in Nat /\ (n - 1) + 1 = n /\ n - 1 <= n - 1
  BY <1>1
<1>12. g[1..n] = fr[1].bytes + e[1..n - 1]
  BY <1>10, <1>11 DEF Good
<1>13. e[1..n - 1] \in Nat /\ Head(fr).bytes \in Nat
  <2>1. 1..n - 1 \in SUBSET (1..n - 1)
    OBVIOUS
  <2>2. e[1..n - 1] \in Nat
    BY <1>3, <1>5, <2>1, SumPeels DEF Peels
  <2> QED BY <1>1, <2>2 DEF Frames
<1> QED BY <1>1, <1>4, <1>5, <1>12, <1>13 DEF m

(***************************************************************************)
(* Part 6.  The byte account.  What a stream is charged is what it holds   *)
(* back plus its frame in flight; the account is kept by every pair of an  *)
(* operation on the queues and its operation on the counters.              *)
(***************************************************************************)
Accounts == [stream : [Streams -> Nat], socket : Nat]

Owes(q, s) == SumBytes(q.items[s]) + FlightBytes(q, s)

Balanced(c) == c.socket = Total(c.stream)

Account(q, c) ==
  /\ c \in Accounts
  /\ q.closed => c = NothingCharged /\ q.queues = {}
  /\ ~q.closed =>
       /\ \A s \in Streams : c.stream[s] = Owes(q, s) /\ c.stream[s] <= MaxStreamQueuedBytes
       /\ Balanced(c)
       /\ c.socket <= MaxSocketQueuedBytes

LEMMA NothingBalanced == NothingCharged \in Accounts /\ Balanced(NothingCharged)
<1>1. [s \in Streams |-> 0] \in [Streams -> Nat]
  OBVIOUS
<1> QED BY <1>1, TotalOfZeros DEF NothingCharged, Accounts, Balanced

\* The sum follows when the counter of one stream changes by as much.
Moved(c, s, v) == [c EXCEPT !.socket = c.socket - c.stream[s] + v, !.stream[s] = v]

StillBalanced(d, c, s, v) ==
  /\ d \in Accounts /\ Balanced(d)
  /\ d.stream[s] = v /\ d.socket = c.socket - c.stream[s] + v
  /\ \A t \in Streams : t # s => d.stream[t] = c.stream[t]

LEMMA Rebalanced ==
  ASSUME NEW c \in Accounts, Balanced(c), NEW s \in Streams, NEW v \in Nat
  PROVE  StillBalanced(Moved(c, s, v), c, s, v)
<1> DEFINE d == Moved(c, s, v)
           f == c.stream
           h == [f EXCEPT ![s] = v]
           n == c.socket - f[s] + v
<1>1. f \in [Streams -> Nat] /\ c.socket \in Nat /\ c.socket = Total(f)
  BY DEF Accounts, Balanced
<1>2. d = [c EXCEPT !.socket = n, !.stream = h]
  BY DEF Accounts, Moved
<1> HIDE DEF f
<1>3. Total(f) \in Nat /\ f[s] \in Nat /\ f[s] <= Total(f) /\ Total(h) = Total(f) - f[s] + v
  BY <1>1, TotalChanges
<1>4. n \in Nat
  BY <1>1, <1>3
<1>5. /\ h \in [Streams -> Nat] /\ h[s] = v
      /\ \A t \in Streams : t # s => h[t] = f[t]
  BY <1>1
<1>6. n = Total(h)
  BY <1>1, <1>3
<1> HIDE DEF h, n, d
<1>7. d.stream = h /\ d.socket = n
  BY <1>2 DEF Accounts
<1>8. d \in Accounts
  BY <1>2, <1>4, <1>5 DEF Accounts
<1>9. Balanced(d)
  BY <1>6, <1>7 DEF Balanced
<1> QED BY <1>1, <1>3, <1>5, <1>7, <1>8, <1>9 DEF StillBalanced, d, f, n

\* An operation that keeps what every stream owes keeps the account.
LEMMA SameAccount ==
  ASSUME NEW q, NEW c, Account(q, c), ~q.closed, NEW r, ~r.closed,
         \A s \in Streams : Owes(r, s) = Owes(q, s)
  PROVE  Account(r, c)
  BY DEF Account

\* A drain moves one frame of one stream from its queue to the socket.
LEMMA DrainOwes ==
  ASSUME NEW q \in Senders, SenderInv(q), ~q.closed
  PROVE  \A s \in Streams : Owes(Drained(q), s) = Owes(q, s)
<1>1. CASE q.inFlight # NoStream \/ q.ready = <<>>
  BY <1>1 DEF Drained
<1>2. CASE q.inFlight = NoStream /\ q.ready # <<>>
  <2> DEFINE d == Send(q, 1)
             s == q.ready[1]
  <2>1. Drained(q) = d /\ s \in Streams /\ q.items[s] # <<>>
    BY <1>2, SendFirst
  <2>2. /\ d.items = [q.items EXCEPT ![s] = Tail(@)]
        /\ d.inFlight = s
    BY <1>2, <2>1, SendFacts
  <2>3. d.flight = Head(q.items[s])
    BY DEF Send, Senders
  <2> HIDE DEF d, s
  <2>4. q.items \in [Streams -> Seq(Frames)] /\ NoStream \notin Streams
    BY SenderFields, LimitsAssumption
  <2>5. ASSUME NEW t \in Streams PROVE Owes(d, t) = Owes(q, t)
    <3>1. FlightBytes(q, t) = 0
      BY <1>2, <2>4 DEF FlightBytes
    <3>2. CASE t # s
      <4>1. d.items[t] = q.items[t] /\ FlightBytes(d, t) = 0
        BY <2>2, <2>4, <3>2 DEF FlightBytes
      <4> QED BY <3>1, <4>1 DEF Owes
    <3>3. CASE t = s
      <4>1. d.items[t] = Tail(q.items[t]) /\ FlightBytes(d, t) = Head(q.items[t]).bytes
        BY <2>2, <2>3, <2>4, <3>3 DEF FlightBytes
      <4>2. q.items[t] \in Seq(Frames) /\ q.items[t] # <<>>
        BY <2>1, <2>4, <3>3
      <4>3. /\ SumBytes(Tail(q.items[t])) \in Nat /\ Head(q.items[t]).bytes \in Nat
            /\ SumBytes(q.items[t]) = Head(q.items[t]).bytes + SumBytes(Tail(q.items[t]))
        BY <4>2, BytesOfTail
      <4>4. Owes(d, t) = SumBytes(Tail(q.items[t])) + Head(q.items[t]).bytes
        BY <4>1 DEF Owes
      <4>5. Owes(q, t) = SumBytes(q.items[t]) + 0
        BY <3>1 DEF Owes
      <4> QED BY <4>3, <4>4, <4>5
    <3> QED BY <3>2, <3>3
  <2> QED BY <2>1, <2>5
<1> QED BY <1>1, <1>2

LEMMA OwesType ==
  ASSUME NEW q \in Senders, NEW s \in Streams
  PROVE  SumBytes(q.items[s]) \in Nat /\ FlightBytes(q, s) \in Nat
<1>1. q.items[s] \in Seq(Frames) /\ q.flight \in Frames
  BY SenderFields
<1>2. NoFrame \in Frames
  BY NothingType
<1>3. SumBytes(q.items[s]) \in Nat
  BY <1>1, <1>2, BytesOfAppend
<1>4. FlightBytes(q, s) \in Nat
  BY <1>1 DEF FlightBytes, Frames
<1> QED BY <1>3, <1>4

\* An accepted frame is charged to its stream.
LEMMA AcceptOwes ==
  ASSUME NEW q \in Senders, SenderInv(q), ~q.closed, NEW s \in Streams, NEW f \in Frames
  PROVE  /\ Owes(Accepted(q, s, f), s) = Owes(q, s) + f.bytes
         /\ \A t \in Streams : t # s => Owes(Accepted(q, s, f), t) = Owes(q, t)
         /\ Owes(q, s) \in Nat /\ f.bytes \in Nat
<1> DEFINE h == Held(q, s, f)
           r == InLine(h, s)
<1>1. /\ SenderInv(r) /\ ~r.closed
      /\ r.items = [q.items EXCEPT ![s] = Append(@, f)]
  BY EnqueuedInv
<1>2. r.inFlight = q.inFlight /\ r.flight = q.flight
  BY DEF InLine, Held, Senders
<1>3. Accepted(q, s, f) = Drained(r)
  BY DEF Accepted
<1> HIDE DEF r
<1>4. r \in Senders
  BY <1>1 DEF SenderInv
<1>5. \A t \in Streams : Owes(Drained(r), t) = Owes(r, t)
  BY <1>1, <1>4, DrainOwes
<1>6. q.items \in [Streams -> Seq(Frames)]
  BY SenderFields
<1>7. \A t \in Streams : FlightBytes(r, t) = FlightBytes(q, t)
  BY <1>2 DEF FlightBytes
<1>8. \A t \in Streams : t # s => Owes(r, t) = Owes(q, t)
  BY <1>1, <1>6, <1>7 DEF Owes
<1>9. Owes(r, s) = Owes(q, s) + f.bytes /\ Owes(q, s) \in Nat /\ f.bytes \in Nat
  <2>1. r.items[s] = Append(q.items[s], f) /\ q.items[s] \in Seq(Frames)
    BY <1>1, <1>6
  <2>2. SumBytes(r.items[s]) = SumBytes(q.items[s]) + f.bytes
    BY <2>1, BytesOfAppend
  <2>3. SumBytes(q.items[s]) \in Nat /\ FlightBytes(q, s) \in Nat /\ f.bytes \in Nat
    BY OwesType DEF Frames
  <2> QED BY <1>7, <2>2, <2>3 DEF Owes
<1> QED BY <1>3, <1>5, <1>8, <1>9

LEMMA AcceptCharges ==
  ASSUME NEW q \in Senders, SenderInv(q), ~q.closed, NEW c, Account(q, c),
         NEW s \in Streams, NEW f \in Frames, Exceeds(c, s, f) = "none"
  PROVE  Account(Accepted(q, s, f), Charged(c, s, f.bytes))
<1> DEFINE b == f.bytes
           d == Charged(c, s, b)
           a == Accepted(q, s, f)
<1>1. /\ c \in Accounts /\ Balanced(c) /\ c.stream[s] = Owes(q, s)
      /\ \A t \in Streams : c.stream[t] = Owes(q, t) /\ c.stream[t] <= MaxStreamQueuedBytes
  BY DEF Account
<1>2. /\ Owes(a, s) = Owes(q, s) + b
      /\ \A t \in Streams : t # s => Owes(a, t) = Owes(q, t)
      /\ Owes(q, s) \in Nat /\ b \in Nat
  BY AcceptOwes
<1>3. ~a.closed
  BY AcceptedInv
<1>4. c.stream[s] + b <= MaxStreamQueuedBytes /\ c.socket + b <= MaxSocketQueuedBytes
  <2>1. MaxStreamQueuedBytes \in Nat /\ MaxSocketQueuedBytes \in Nat /\ MaxFrameBytes \in Nat
        /\ c.socket \in Nat /\ c.stream[s] \in Nat
    BY <1>1, LimitsAssumption DEF Accounts
  <2>2. ~(b > MaxFrameBytes)
    BY DEF Exceeds
  <2>3. b <= MaxFrameBytes
    BY <1>2, <2>1, <2>2
  <2>4. ~(c.stream[s] + b > MaxStreamQueuedBytes)
    BY <2>3 DEF Exceeds
  <2>5. c.stream[s] + b <= MaxStreamQueuedBytes
    BY <1>2, <2>1, <2>4
  <2>6. ~(c.socket + b > MaxSocketQueuedBytes)
    BY <2>3, <2>5 DEF Exceeds
  <2> QED BY <1>2, <2>1, <2>5, <2>6
<1> HIDE DEF a, b
<1>5. d = Moved(c, s, c.stream[s] + b)
  <2>1. c.socket \in Nat /\ c.stream[s] \in Nat
    BY <1>1 DEF Accounts
  <2>2. c.socket + b = c.socket - c.stream[s] + (c.stream[s] + b)
    BY <1>2, <2>1
  <2>3. d = [c EXCEPT !.socket = c.socket + b, !.stream[s] = c.stream[s] + b]
    BY <1>1 DEF Charged, Accounts
  <2> QED BY <2>2, <2>3 DEF Moved
<1> HIDE DEF d
<1>6. c.stream[s] + b \in Nat /\ c.stream[s] \in Nat /\ c.socket \in Nat
  BY <1>1, <1>2 DEF Accounts
<1>7. /\ d \in Accounts /\ Balanced(d)
      /\ d.stream[s] = c.stream[s] + b
      /\ d.socket = c.socket - c.stream[s] + (c.stream[s] + b)
      /\ \A t \in Streams : t # s => d.stream[t] = c.stream[t]
  <2>1. StillBalanced(d, c, s, c.stream[s] + b)
    BY <1>1, <1>5, <1>6, Rebalanced
  <2> QED BY <2>1 DEF StillBalanced
<1>8. d.socket <= MaxSocketQueuedBytes
  BY <1>2, <1>4, <1>6, <1>7
<1>9. \A t \in Streams : d.stream[t] = Owes(a, t) /\ d.stream[t] <= MaxStreamQueuedBytes
  BY <1>1, <1>2, <1>4, <1>7
<1> QED BY <1>3, <1>7, <1>8, <1>9 DEF Account, a, b, d

\* A frame in flight of an open sender keeps the queue of its stream.
LEMMA QueueOfFlight ==
  ASSUME NEW q \in Senders, SenderInv(q), ~q.closed, NEW s \in Streams
  PROVE  /\ q.inFlight # NoStream => q.inFlight \in q.queues
         /\ s \notin q.queues => q.items[s] = <<>> /\ FlightBytes(q, s) = 0
  BY LimitsAssumption DEF SenderInv, NoLostWakeup, FlightBytes

\* A dropped backlog is refunded; the frame in flight stays charged.
LEMMA DropRefunds ==
  ASSUME NEW q \in Senders, SenderInv(q), ~q.closed, NEW c, Account(q, c), NEW s \in Streams
  PROVE  Account(Dropped(q, s), Refunded(c, q, s))
<1> DEFINE r == Dropped(q, s)
           d == Refunded(c, q, s)
           p == SumBytes(q.items[s])
           v == FlightBytes(q, s)
<1>1. CASE s \notin q.queues
  BY <1>1 DEF Dropped, Refunded
<1>2. CASE s \in q.queues
  <2>1. /\ r.items = [q.items EXCEPT ![s] = <<>>]
        /\ r.inFlight = q.inFlight /\ r.flight = q.flight /\ r.closed = q.closed
    BY <1>2 DEF Dropped, Senders
  <2>2. q.items \in [Streams -> Seq(Frames)] /\ p \in Nat /\ v \in Nat
    BY SenderFields, OwesType
  <2>3. /\ c \in Accounts /\ Balanced(c) /\ c.stream[s] = p + v
        /\ c.stream[s] <= MaxStreamQueuedBytes /\ c.socket <= MaxSocketQueuedBytes
        /\ \A t \in Streams : c.stream[t] = Owes(q, t) /\ c.stream[t] <= MaxStreamQueuedBytes
    BY DEF Account, Owes
  <2>4. c.socket \in Nat /\ c.stream[s] \in Nat
    BY <2>3 DEF Accounts
  <2>5. d = Moved(c, s, v)
    <3>1. d = [c EXCEPT !.socket = c.socket - p,
                        !.stream[s] = IF q.inFlight = s THEN c.stream[s] - p ELSE 0]
      BY <1>2, <2>3 DEF Refunded, Accounts
    <3>2. c.socket - p = c.socket - c.stream[s] + v
      BY <2>2, <2>3, <2>4
    <3>3. (IF q.inFlight = s THEN c.stream[s] - p ELSE 0) = v
      <4>1. CASE q.inFlight = s
        BY <2>2, <2>3, <2>4, <4>1
      <4>2. CASE q.inFlight # s
        BY <4>2 DEF FlightBytes
      <4> QED BY <4>1, <4>2
    <3> QED BY <3>1, <3>2, <3>3 DEF Moved
  <2> HIDE DEF r, d, p, v
  <2>6. /\ d \in Accounts /\ Balanced(d) /\ d.stream[s] = v
        /\ d.socket = c.socket - c.stream[s] + v
        /\ \A t \in Streams : t # s => d.stream[t] = c.stream[t]
    <3>1. StillBalanced(d, c, s, v)
      BY <2>2, <2>3, <2>5, Rebalanced
    <3> QED BY <3>1 DEF StillBalanced
  <2>7. d.socket <= MaxSocketQueuedBytes /\ d.stream[s] <= MaxStreamQueuedBytes
    <3>1. MaxStreamQueuedBytes \in Nat /\ MaxSocketQueuedBytes \in Nat
      BY LimitsAssumption
    <3> QED BY <2>2, <2>3, <2>4, <2>6, <3>1
  <2>8. \A t \in Streams : FlightBytes(r, t) = FlightBytes(q, t)
    BY <2>1 DEF FlightBytes
  <2>9. Owes(r, s) = v
    <3>1. SumBytes(r.items[s]) = 0
      BY <2>1, <2>2, BytesOfNone
    <3>2. FlightBytes(r, s) = v
      BY <2>8 DEF v
    <3> QED BY <2>2, <3>1, <3>2 DEF Owes
  <2>10. \A t \in Streams : t # s => Owes(r, t) = Owes(q, t)
    BY <2>1, <2>2, <2>8 DEF Owes
  <2>11. \A t \in Streams : d.stream[t] = Owes(r, t) /\ d.stream[t] <= MaxStreamQueuedBytes
    BY <2>3, <2>6, <2>7, <2>9, <2>10
  <2> QED BY <2>1, <2>6, <2>7, <2>11 DEF Account, r, d
<1> QED BY <1>1, <1>2

\* A frame the socket reports is no longer charged.
LEMMA ReleaseSettles ==
  ASSUME NEW q \in Senders, SenderInv(q), NEW c, Account(q, c), q.inFlight # NoStream
  PROVE  Account(Released(q), Settled(c, q))
<1> DEFINE s == q.inFlight
           r == Released(q)
           d == Settled(c, q)
           v == SumBytes(q.items[s])
           b == q.flight.bytes
<1>0. s \in Streams /\ q.closed \in BOOLEAN /\ NoStream \notin Streams
  BY SenderFields, LimitsAssumption
<1>1. CASE q.closed
  <2>1. q.queues = {} /\ c \in Accounts /\ c = NothingCharged
    BY <1>1 DEF Account
  <2>2. r = Landed(q) /\ d = c
    BY <2>1 DEF Released, Settled
  <2>3. Landed(q).queues = q.queues /\ Landed(q).closed = q.closed
    BY DEF Landed, Senders
  <2> QED BY <1>1, <2>1, <2>2, <2>3 DEF Account
<1>2. CASE ~q.closed
  <2>1. s \in q.queues
    BY <1>0, <1>2, QueueOfFlight
  <2>2. /\ r.items = q.items /\ r.inFlight = NoStream /\ r.closed = q.closed
    BY <2>1 DEF Released, Senders
  <2>3. v \in Nat /\ FlightBytes(q, s) = b /\ b \in Nat
    BY <1>0, OwesType DEF FlightBytes
  <2>4. /\ c \in Accounts /\ Balanced(c) /\ c.stream[s] = v + b
        /\ c.stream[s] <= MaxStreamQueuedBytes /\ c.socket <= MaxSocketQueuedBytes
        /\ \A t \in Streams : c.stream[t] = Owes(q, t) /\ c.stream[t] <= MaxStreamQueuedBytes
    BY <1>0, <1>2, <2>3 DEF Account, Owes
  <2>5. c.socket \in Nat /\ c.stream[s] \in Nat
    BY <1>0, <2>4 DEF Accounts
  <2>6. d = Moved(c, s, v)
    <3>1. d = [c EXCEPT !.socket = c.socket - b,
                        !.stream[s] = IF q.items[s] # <<>> THEN c.stream[s] - b ELSE 0]
      BY <1>0, <2>1, <2>4 DEF Settled, Accounts
    <3>2. c.socket - b = c.socket - c.stream[s] + v
      BY <2>3, <2>4, <2>5
    <3>3. (IF q.items[s] # <<>> THEN c.stream[s] - b ELSE 0) = v
      <4>1. CASE q.items[s] # <<>>
        BY <2>3, <2>4, <2>5, <4>1
      <4>2. CASE q.items[s] = <<>>
        BY <4>2, BytesOfNone
      <4> QED BY <4>1, <4>2
    <3> QED BY <3>1, <3>2, <3>3 DEF Moved
  <2> HIDE DEF r, d, v, b, s
  <2>7. /\ d \in Accounts /\ Balanced(d) /\ d.stream[s] = v
        /\ d.socket = c.socket - c.stream[s] + v
        /\ \A t \in Streams : t # s => d.stream[t] = c.stream[t]
    <3>1. StillBalanced(d, c, s, v)
      BY <1>0, <2>3, <2>4, <2>6, Rebalanced
    <3> QED BY <3>1 DEF StillBalanced
  <2>8. d.socket <= MaxSocketQueuedBytes /\ d.stream[s] <= MaxStreamQueuedBytes
    <3>1. MaxStreamQueuedBytes \in Nat /\ MaxSocketQueuedBytes \in Nat
      BY LimitsAssumption
    <3> QED BY <2>3, <2>4, <2>5, <2>7, <3>1
  <2>9. \A t \in Streams : FlightBytes(r, t) = 0
    BY <1>0, <2>2 DEF FlightBytes
  <2>10. Owes(r, s) = v
    BY <1>0, <2>2, <2>3, <2>9 DEF Owes, v
  <2>11. \A t \in Streams : t # s => Owes(r, t) = Owes(q, t)
    BY <2>2, <2>9 DEF Owes, FlightBytes, s
  <2>12. \A t \in Streams : d.stream[t] = Owes(r, t) /\ d.stream[t] <= MaxStreamQueuedBytes
    BY <2>4, <2>7, <2>8, <2>10, <2>11
  <2> QED BY <1>2, <2>2, <2>7, <2>8, <2>12 DEF Account, r, d
<1> QED BY <1>0, <1>1, <1>2

\* A closed sender owes nothing, and what is in flight is only forgotten.
LEMMA CloseClears ==
  ASSUME NEW q \in Senders
  PROVE  Account(Closed(q), NothingCharged)
<1>1. Closed(q).closed = TRUE /\ Closed(q).queues = {}
  BY DEF Closed, Senders
<1> QED BY <1>1, NothingBalanced DEF Account

LEMMA LandKeepsClosed ==
  ASSUME NEW q \in Senders, q.closed, NEW c, Account(q, c)
  PROVE  Account(Landed(q), c)
<1>1. Landed(q).closed = q.closed /\ Landed(q).queues = q.queues
  BY DEF Landed, Senders
<1> QED BY <1>1 DEF Account

\* A forced frame is charged, or the socket fails and nothing is.
LEMMA ForcedCharges ==
  ASSUME NEW q \in Senders, SenderInv(q), ~q.closed, NEW c, Account(q, c),
         NEW s \in Streams, NEW f \in Frames, NEW rest, Forced(q, c, s, f, rest)
  PROVE  Account(sender', charges')
<1>1. CASE sender' = q /\ charges' = c
  BY <1>1
<1>2. CASE /\ Exceeds(c, s, f) = "none"
           /\ sender' = Accepted(q, s, f) /\ charges' = Charged(c, s, f.bytes)
  BY <1>2, AcceptCharges
<1>3. CASE FailSocket(q)
  BY <1>3, CloseClears DEF FailSocket
<1> QED BY <1>1, <1>2, <1>3 DEF Forced

AccountKept == Account(sender, charges)

LEMMA PumpItemCharges ==
  ASSUME IInv, AccountKept, NEW s \in Streams, PumpItem(s)
  PROVE  AccountKept'
<1>1. /\ sender \in Senders /\ SenderInv(sender) /\ ~sender.closed /\ produced[s] \in Nat
      /\ Account(sender, charges)
  BY DEF IInv, TypeOK, PumpItem, Live, AccountKept
<1>2. PICK b \in ItemSizes :
        \/ UNCHANGED <<sender, charges>>
        \/ /\ Exceeds(charges, s, Frame("item", produced[s] + 1, b)) = "none"
           /\ sender' = Accepted(sender, s, Frame("item", produced[s] + 1, b))
           /\ charges' = Charged(charges, s, b)
        \/ Overflow(s)
        \/ FailSocket(sender)
  BY DEF PumpItem
<1>3. CASE UNCHANGED <<sender, charges>>
  BY <1>1, <1>3 DEF AccountKept
<1>4. CASE /\ Exceeds(charges, s, Frame("item", produced[s] + 1, b)) = "none"
           /\ sender' = Accepted(sender, s, Frame("item", produced[s] + 1, b))
           /\ charges' = Charged(charges, s, b)
  <2> DEFINE f == Frame("item", produced[s] + 1, b)
  <2>1. f \in Frames /\ f.bytes = b
    <3>1. produced[s] + 1 \in Nat /\ b \in Nat
      BY <1>1, FrameType
    <3> QED BY <3>1 DEF Frame, Frames
  <2> HIDE DEF f
  <2>2. /\ Exceeds(charges, s, f) = "none"
        /\ sender' = Accepted(sender, s, f) /\ charges' = Charged(charges, s, f.bytes)
    BY <1>4, <2>1 DEF f
  <2>3. Account(Accepted(sender, s, f), Charged(charges, s, f.bytes))
    BY <1>1, <2>1, <2>2, AcceptCharges
  <2> QED BY <2>2, <2>3 DEF AccountKept
<1>5. CASE Overflow(s)
  <2> DEFINE q == Dropped(sender, s)
             c == Refunded(charges, sender, s)
             e == Frame("error", 0, OverflowBytes)
  <2>1. e \in Frames
    <3>1. OverflowBytes \in Nat /\ 0 \in Nat
      BY FrameType
    <3> QED BY <3>1, FrameType
  <2>2. SenderInv(q) /\ q \in Senders /\ ~q.closed
    BY <1>1, DroppedInv DEF SenderInv
  <2>3. Account(q, c)
    BY <1>1, DropRefunds
  <2>4. Forced(q, c, s, e, /\ status' = [status EXCEPT ![s] = "gone"]
                           /\ returned' = [returned EXCEPT ![s] = @ \/ e.kind = "error"])
    BY <1>5 DEF Overflow, Terminal
  <2> HIDE DEF q, c, e
  <2> QED BY <2>1, <2>2, <2>3, <2>4, ForcedCharges DEF AccountKept
<1>6. CASE FailSocket(sender)
  BY <1>1, <1>6, CloseClears DEF FailSocket, AccountKept
<1> QED BY <1>2, <1>3, <1>4, <1>5, <1>6

LEMMA NextAccount ==
  ASSUME IInv, AccountKept, [Next]_muxVars
  PROVE  AccountKept'
<1>1. sender \in Senders /\ SenderInv(sender) /\ Account(sender, charges)
  BY DEF IInv, TypeOK, AccountKept
<1>2. ASSUME NEW s \in Streams, NEW f \in Frames, ~sender.closed, NEW rest,
             Forced(sender, charges, s, f, rest)
      PROVE  AccountKept'
  BY <1>1, <1>2, ForcedCharges DEF AccountKept
<1>3. \A b \in ErrorSizes \cup {EndBytes} :
        Frame("error", 0, b) \in Frames /\ Frame("end", 0, b) \in Frames
  <2>1. \A b \in ErrorSizes \cup {EndBytes} : b \in Nat /\ 0 \in Nat
    BY FrameType
  <2> QED BY <2>1, FrameType
<1>4. ASSUME NEW s \in Streams, NEW p \in PagePrefixes, HubRefuses(p, s)
      PROVE  AccountKept'
  BY <1>2, <1>3, <1>4 DEF HubRefuses, Listening
<1>5. ASSUME NEW s \in Streams, RefuseEndpoint(s)
      PROVE  AccountKept'
  BY <1>2, <1>3, <1>5 DEF RefuseEndpoint, Listening
<1>6. ASSUME NEW s \in Streams, PumpError(s)
      PROVE  AccountKept'
  BY <1>2, <1>3, <1>6 DEF PumpError, Live, Terminal
<1>7. ASSUME NEW s \in Streams, PumpEnd(s)
      PROVE  AccountKept'
  BY <1>2, <1>3, <1>7 DEF PumpEnd, Live, Terminal
<1>8. ASSUME NEW s \in Streams, Cancel(s)
      PROVE  AccountKept'
  BY <1>1, <1>8, DropRefunds DEF Cancel, Listening, AccountKept
<1>9. CASE SendDone
  <2> DEFINE r == Released(sender)
             d == Settled(charges, sender)
  <2>1. SenderInv(r) /\ r \in Senders /\ r.closed = sender.closed /\ Account(r, d)
    BY <1>1, <1>9, ReleasedInv, ReleaseSettles DEF SendDone, SenderInv
  <2>2. charges' = d /\ sender' = IF readyState = "open" THEN Drained(r) ELSE r
    BY <1>9 DEF SendDone
  <2> HIDE DEF r, d
  <2>3. CASE readyState = "open" /\ ~r.closed
    <3>1. ~Drained(r).closed /\ \A s \in Streams : Owes(Drained(r), s) = Owes(r, s)
      BY <2>1, <2>3, DrainedInv, DrainOwes
    <3>2. Account(Drained(r), d)
      BY <2>1, <2>3, <3>1, SameAccount
    <3> QED BY <2>2, <2>3, <3>2 DEF AccountKept
  <2>4. CASE ~(readyState = "open" /\ ~r.closed)
    <3>1. sender' = r
      BY <2>2, <2>4 DEF Drained
    <3> QED BY <2>1, <2>2, <3>1 DEF AccountKept
  <2> QED BY <2>3, <2>4
<1>10. CASE SendFailed
  <2>1. Landed(sender) \in Senders
    BY <1>1, LandedInv
  <2>2. CASE sender.closed
    BY <1>1, <1>10, <2>2, LandKeepsClosed DEF SendFailed, Fail, AccountKept
  <2>3. CASE ~sender.closed
    BY <1>10, <2>1, <2>3, CloseClears DEF SendFailed, Fail, FailSocket, AccountKept
  <2> QED BY <2>2, <2>3
<1>11. CASE \/ Malformed \/ SocketError
            \/ \E p \in PagePrefixes, s \in Streams : RejectOpen(p, s)
  BY <1>1, <1>11, CloseClears
  DEF Malformed, SocketError, RejectOpen, FailSocket, AccountKept
<1>12. CASE SocketClosed
  BY <1>1, <1>12, CloseClears DEF SocketClosed, FailSocket, AccountKept
<1>13. CASE \/ PeerCloses \/ UNCHANGED muxVars
            \/ \E p \in PagePrefixes, s \in Streams : Open(p, s)
            \/ \E s \in Streams : PumpLate(s)
  <2>1. UNCHANGED <<sender, charges>>
    BY <1>13 DEF PeerCloses, Open, PumpLate, muxVars
  <2> QED BY <1>1, <2>1 DEF AccountKept
<1>14. ASSUME NEW s \in Streams, PumpItem(s)
       PROVE  AccountKept'
  BY <1>14, PumpItemCharges
<1> QED BY <1>4, <1>5, <1>6, <1>7, <1>8, <1>9, <1>10, <1>11, <1>12, <1>13, <1>14
        DEF Next, Message, Pump, Socket

\* The counters of enqueue, drop, #drain's callback and close are exact and stay
\* within the limits: what a stream is charged is what it holds back plus its frame
\* in flight, the socket is charged the sum of its streams, and a closed socket
\* nothing.
THEOREM BytesAreAccounted == Spec => []BytesAccounted
<1>1. Init => AccountKept
  <2> SUFFICES ASSUME Init PROVE AccountKept
    OBVIOUS
  <2>1. /\ sender = NewSender /\ charges = NothingCharged
        /\ MaxStreamQueuedBytes \in Nat /\ MaxSocketQueuedBytes \in Nat
    BY LimitsAssumption DEF Init
  <2>2. ~NewSender.closed
    BY DEF NewSender
  <2>3. ASSUME NEW s \in Streams PROVE Owes(NewSender, s) = 0
    <3>1. NewSender.items[s] = <<>> /\ FlightBytes(NewSender, s) = 0
      BY LimitsAssumption DEF NewSender, NothingHeld, FlightBytes
    <3> QED BY <3>1, BytesOfNone DEF Owes
  <2>4. /\ \A s \in Streams : NothingCharged.stream[s] = 0
        /\ NothingCharged.socket = 0
    BY DEF NothingCharged
  <2> QED BY <2>1, <2>2, <2>3, <2>4, NothingBalanced DEF AccountKept, Account
<1>2. IInv /\ AccountKept /\ [Next]_muxVars => AccountKept'
  BY NextAccount
<1>3. IInv /\ AccountKept => BytesAccounted
  <2> SUFFICES ASSUME AccountKept PROVE BytesAccounted
    OBVIOUS
  <2>1. NothingCharged.socket = 0
    BY DEF NothingCharged
  <2> QED BY <2>1 DEF AccountKept, Account, Balanced, Total, Owes, BytesAccounted
<1> QED BY <1>1, <1>2, <1>3, InvariantHolds, PTL DEF Spec

-----------------------------------------------------------------------------
(***************************************************************************)
(* Part 6.  The line is fair: nobody gets in before a stream that waits,   *)
(* and each frame handed to the socket brings it one place nearer.         *)
(***************************************************************************)

\* Who joins at the back stands before nobody else.
LEMMA BeforeAppend ==
  ASSUME NEW line \in Seq(Streams), NEW s \in Streams, NEW t \in Streams, s # t
  PROVE  Before(Append(line, t), s) \subseteq Before(line, s)
<1> DEFINE new == Append(line, t)
<1>1. /\ Len(new) = Len(line) + 1 /\ Len(line) \in Nat /\ new[Len(line) + 1] = t
      /\ \A i \in 1..Len(line) : new[i] = line[i]
  OBVIOUS
<1> HIDE DEF new
<1>2. ASSUME NEW i \in 1..Len(new), NEW j \in (i + 1)..Len(new), new[j] = s
      PROVE  /\ i \in 1..Len(line) /\ j \in (i + 1)..Len(line)
             /\ new[i] = line[i] /\ line[j] = s
  <2>1. j # Len(line) + 1
    BY <1>1, <1>2
  <2>2. i \in 1..Len(line) /\ j \in (i + 1)..Len(line) /\ j \in 1..Len(line)
    BY <1>1, <2>1
  <2> QED BY <1>1, <1>2, <2>2
<1> QED BY <1>2 DEF Before, new

\* The first in line stands before everyone else in it, until it leaves.
LEMMA BeforeTail ==
  ASSUME NEW line \in Seq(Streams), line # <<>>,
         \A i, j \in 1..Len(line) : line[i] = line[j] => i = j,
         NEW s \in Streams, NEW k \in 1..Len(line), line[k] = s, s # line[1]
  PROVE  /\ Before(Tail(line), s) \subseteq Before(line, s)
         /\ line[1] \in Before(line, s) \ Before(Tail(line), s)
<1> DEFINE new == Tail(line)
<1>1. /\ Len(line) \in Nat /\ Len(line) >= 1 /\ Len(new) = Len(line) - 1
      /\ \A i \in 1..Len(new) : new[i] = line[i + 1]
  OBVIOUS
<1> HIDE DEF new
<1>2. ASSUME NEW i \in 1..Len(new), NEW j \in (i + 1)..Len(new), new[j] = s
      PROVE  /\ i + 1 \in 1..Len(line) /\ j + 1 \in ((i + 1) + 1)..Len(line)
             /\ new[i] = line[i + 1] /\ line[j + 1] = s /\ new[i] # line[1]
  <2>1. /\ i + 1 \in 1..Len(line) /\ j + 1 \in ((i + 1) + 1)..Len(line)
        /\ j \in 1..Len(new) /\ i + 1 # 1 /\ 1 \in 1..Len(line)
    BY <1>1
  <2> QED BY <1>1, <1>2, <2>1
<1>3. line[1] \in Before(line, s)
  <2>1. 1 \in 1..Len(line) /\ k \in (1 + 1)..Len(line)
    BY <1>1
  <2> QED BY <2>1 DEF Before
<1>4. Before(new, s) \subseteq Before(line, s) /\ line[1] \notin Before(new, s)
  BY <1>2 DEF Before
<1> QED BY <1>3, <1>4 DEF new

\* Who leaves the line lets nobody in before another.
LEMMA BeforeRemove ==
  ASSUME NEW line \in Seq(Streams), NEW s \in Streams, NEW t \in Streams, s # t,
         \A i, j \in 1..Len(line) : line[i] = line[j] => i = j
  PROVE  Before(RemoveFirst(line, t), s) \subseteq Before(line, s)
<1> DEFINE new == RemoveFirst(line, t)
<1>1. CASE ~ \E i \in 1..Len(line) : line[i] = t
  BY <1>1 DEF RemoveFirst
<1>2. CASE \E i \in 1..Len(line) : line[i] = t
  <2>1. PICK k \in 1..Len(line) : line[k] = t
    BY <1>2
  <2>2. SelectInSeq(line, LAMBDA v : v = t) = k
    <3>1. {i \in 1..Len(line) : line[i] = t} = {k}
      BY <2>1
    <3>2. Min({k}) = k
      <4>1. \E x \in {k} : \A y \in {k} : x <= y
        OBVIOUS
      <4>2. Min({k}) \in {k}
        BY <4>1 DEF Min
      <4> QED BY <4>2
    <3> QED BY <3>1, <3>2 DEF SelectInSeq
  <2>3. new = RemoveAt(line, k)
    BY <1>2, <2>2 DEF RemoveFirst
  <2>4. /\ Len(line) \in Nat /\ k \in Nat /\ 1 <= k /\ k <= Len(line)
        /\ Len(new) = Len(line) - 1
        /\ \A i \in 1..Len(new) : new[i] = IF i < k THEN line[i] ELSE line[i + 1]
    <3>1. /\ Len(RemoveAt(line, k)) = Len(line) - 1
          /\ \A i \in 1..(Len(line) - 1) :
               RemoveAt(line, k)[i] = IF i < k THEN line[i] ELSE line[i + 1]
      BY RemoveAtFacts
    <3>2. Len(line) \in Nat /\ k \in Nat /\ 1 <= k /\ k <= Len(line)
      OBVIOUS
    <3> HIDE DEF new
    <3> QED BY <2>3, <3>1, <3>2
  <2> HIDE DEF new
  <2> DEFINE at(n) == IF n < k THEN n ELSE n + 1
  <2>5. ASSUME NEW i \in 1..Len(new), NEW j \in (i + 1)..Len(new), new[j] = s
        PROVE  /\ at(i) \in 1..Len(line) /\ at(j) \in (at(i) + 1)..Len(line)
               /\ new[i] = line[at(i)] /\ line[at(j)] = s
    <3>1. j \in 1..Len(new)
      BY <2>4
    <3>2. new[i] = line[at(i)] /\ new[j] = line[at(j)]
      BY <2>4, <3>1
    <3>3. /\ i \in Nat /\ j \in Nat /\ 1 <= i /\ i < j /\ j <= Len(line) - 1
          /\ at(i) = (IF i < k THEN i ELSE i + 1) /\ at(j) = (IF j < k THEN j ELSE j + 1)
      BY <2>4
    <3> HIDE DEF at
    <3>4. at(i) \in 1..Len(line) /\ at(j) \in (at(i) + 1)..Len(line)
      <4>1. CASE j < k
        BY <2>4, <3>3, <4>1
      <4>2. CASE i < k /\ ~(j < k)
        BY <2>4, <3>3, <4>2
      <4>3. CASE ~(i < k)
        BY <2>4, <3>3, <4>3
      <4> QED BY <4>1, <4>2, <4>3
    <3> QED BY <2>5, <3>2, <3>4
  <2> HIDE DEF at
  <2>6. Before(new, s) \subseteq Before(line, s)
    <3> SUFFICES ASSUME NEW y \in Before(new, s) PROVE y \in Before(line, s)
      OBVIOUS
    <3>1. PICK i \in 1..Len(new) : y = new[i] /\ \E j \in (i + 1)..Len(new) : new[j] = s
      BY DEF Before
    <3>2. PICK j \in (i + 1)..Len(new) : new[j] = s
      BY <3>1
    <3>3. /\ at(i) \in 1..Len(line) /\ y = line[at(i)]
          /\ \E n \in (at(i) + 1)..Len(line) : line[n] = s
      BY <2>5, <3>1, <3>2
    <3> QED BY <3>3 DEF Before
  <2> QED BY <2>6 DEF new
<1> QED BY <1>1, <1>2

\* While a frame is in flight a new frame only waits; nobody is handed over.
LEMMA AcceptWaits ==
  ASSUME NEW q \in Senders, q.inFlight # NoStream, NEW t \in Streams, NEW f \in Frames
  PROVE  /\ \/ Accepted(q, t, f).ready = q.ready
            \/ t \notin q.flagged /\ Accepted(q, t, f).ready = Append(q.ready, t)
         /\ Accepted(q, t, f).wire = q.wire
         /\ Accepted(q, t, f).items[t] = Append(q.items[t], f)
<1> DEFINE h == Held(q, t, f)
           a == InLine(h, t)
<1>1. /\ h \in Senders /\ h.items = [q.items EXCEPT ![t] = Append(@, f)]
      /\ h.flagged = q.flagged /\ h.ready = q.ready /\ h.wire = q.wire
      /\ h.inFlight = q.inFlight /\ h.closed = q.closed
  BY HeldFacts
<1> HIDE DEF h
<1>2. /\ a.wire = h.wire /\ a.items = h.items /\ a.inFlight = h.inFlight
      /\ a.ready = h.ready \/ (t \notin h.flagged /\ a.ready = Append(h.ready, t))
  BY <1>1 DEF InLine, Senders
<1>3. Accepted(q, t, f) = a
  BY <1>1, <1>2 DEF Accepted, Drained, h
<1>4. h.items[t] = Append(q.items[t], f)
  BY <1>1, SenderFields
<1> QED BY <1>1, <1>2, <1>3, <1>4 DEF h

\* Nobody waits in an empty line.
LEMMA EmptyLineFair ==
  ASSUME NEW q \in Senders, SenderInv(q), q.ready = <<>>, NEW r
  PROVE  FairStep(q, r)
BY DEF FairStep, StillWaits, SenderInv, LineConsistent, Lined

\* An accepted frame lets nobody pass.
LEMMA AcceptFair ==
  ASSUME NEW q \in Senders, SenderInv(q), NEW t \in Streams, NEW f \in Frames,
         q.ready # <<>> => q.inFlight # NoStream
  PROVE  FairStep(q, Accepted(q, t, f))
<1> DEFINE a == Accepted(q, t, f)
<1>1. CASE q.ready = <<>>
  BY <1>1, EmptyLineFair
<1>2. CASE q.ready # <<>>
  <2>1. /\ a.ready = q.ready \/ (t \notin q.flagged /\ a.ready = Append(q.ready, t))
        /\ a.wire = q.wire
    <3>1. q.inFlight # NoStream
      BY <1>2
    <3>2. /\ a.ready = q.ready \/ (t \notin q.flagged /\ a.ready = Append(q.ready, t))
          /\ a.wire = q.wire
      BY <3>1, AcceptWaits
    <3> HIDE DEF a
    <3> QED BY <3>2
  <2>2. q.ready \in Seq(Streams)
    BY SenderFields
  <2> HIDE DEF a
  <2>3. \A s \in q.flagged : s \in Streams => Before(a.ready, s) \subseteq Before(q.ready, s)
    BY <2>1, <2>2, BeforeAppend
  <2> QED BY <2>1, <2>3 DEF FairStep, StillWaits, a
<1> QED BY <1>1, <1>2

\* What a drop takes away lets nobody pass either.
LEMMA DropLine ==
  ASSUME NEW q \in Senders, SenderInv(q), NEW t \in Streams
  PROVE  /\ Dropped(q, t).wire = q.wire /\ t \notin Dropped(q, t).flagged
         /\ Dropped(q, t).items[t] = <<>>
         /\ \A s \in Streams \ {t} :
              Before(Dropped(q, t).ready, s) \subseteq Before(q.ready, s)
<1>1. /\ q.ready \in Seq(Streams) /\ q.items \in [Streams -> Seq(Frames)]
      /\ \A i, j \in 1..Len(q.ready) : q.ready[i] = q.ready[j] => i = j
  BY SenderFields DEF SenderInv, LineConsistent, Lined
<1>2. CASE t \notin q.queues
  <2>1. Dropped(q, t) = q /\ q.items[t] = <<>> /\ t \notin q.flagged
    BY <1>2, LimitsAssumption DEF Dropped, SenderInv, NoLostWakeup
  <2> QED BY <2>1
<1>3. CASE t \in q.queues
  <2>1. /\ Dropped(q, t).wire = q.wire /\ Dropped(q, t).flagged = q.flagged \ {t}
        /\ Dropped(q, t).ready = RemoveFirst(q.ready, t)
        /\ Dropped(q, t).items = [q.items EXCEPT ![t] = <<>>]
    BY <1>3 DEF Dropped, Senders
  <2>2. \A s \in Streams \ {t} :
          Before(RemoveFirst(q.ready, t), s) \subseteq Before(q.ready, s)
    BY <1>1, BeforeRemove
  <2> QED BY <1>1, <2>1, <2>2
<1> QED BY <1>2, <1>3

\* The callback of send: the stream whose frame landed goes to the back, the first goes.
LEMMA SendDoneFair ==
  ASSUME NEW q \in Senders, SenderInv(q), q.inFlight # NoStream
  PROVE  FairStep(q, Released(q)) /\ FairStep(q, Drained(Released(q)))
<1> DEFINE r == Released(q)
           d == Drained(r)
           t == q.inFlight
<1>1. /\ SenderInv(r) /\ r \in Senders /\ r.closed = q.closed
  BY ReleasedInv DEF SenderInv
<1>2. /\ t \in Streams /\ NoStream \notin Streams /\ q.ready \in Seq(Streams)
      /\ t \notin q.flagged
  BY SenderFields, LimitsAssumption DEF SenderInv, NoLostWakeup
<1>3. r.wire = q.wire /\ (r.ready = q.ready \/ r.ready = Append(q.ready, t))
  BY DEF Released, Landed, Senders
<1> HIDE DEF r, t
<1>4. \A s \in q.flagged : s \in Streams => Before(r.ready, s) \subseteq Before(q.ready, s)
  BY <1>2, <1>3, BeforeAppend
<1>5. FairStep(q, r)
  BY <1>3, <1>4 DEF FairStep, StillWaits
<1>6. CASE r.closed \/ r.inFlight # NoStream \/ r.ready = <<>>
  <2>1. d = r
    BY <1>6 DEF Drained
  <2> QED BY <1>5, <2>1 DEF r
<1>7. CASE ~r.closed /\ r.inFlight = NoStream /\ r.ready # <<>>
  <2> DEFINE x == r.ready[1]
  <2>1. d = Send(r, 1) /\ x \in Streams /\ r.items[x] # <<>>
    BY <1>1, <1>7, SendFirst
  <2>2. /\ d.ready = Tail(r.ready) /\ d.flagged = r.flagged \ {x}
        /\ d.wire = [r.wire EXCEPT ![x] = Append(@, Head(r.items[x]))]
    <3>1. x = r.ready[1]
      OBVIOUS
    <3> HIDE DEF d, x
    <3>2. LET n == Send(r, 1) IN
          /\ n.ready = Tail(r.ready) /\ n.flagged = r.flagged \ {x}
          /\ n.wire = [r.wire EXCEPT ![x] = Append(@, Head(r.items[x]))]
      BY <1>1, <1>7, <2>1, <3>1, SendFacts
    <3> QED BY <2>1, <3>2
  <2>3. /\ r.ready \in Seq(Streams) /\ r.wire \in [Streams -> Seq(Frames)]
        /\ \A i, j \in 1..Len(r.ready) : r.ready[i] = r.ready[j] => i = j
        /\ \A s \in Streams : s \in r.flagged <=> \E i \in 1..Len(r.ready) : r.ready[i] = s
    BY <1>1, SenderFields DEF SenderInv, LineConsistent, Lined
  <2> HIDE DEF d, x
  <2>4. ASSUME NEW s \in Streams, s \in q.flagged, s \in d.flagged
        PROVE  /\ Before(d.ready, s) \subseteq Before(q.ready, s)
               /\ x \in Before(q.ready, s) \ Before(d.ready, s)
    <3>1. s \in r.flagged /\ s # x
      BY <2>2, <2>4
    <3>2. PICK k \in 1..Len(r.ready) : r.ready[k] = s
      BY <2>3, <3>1
    <3>3. /\ Before(Tail(r.ready), s) \subseteq Before(r.ready, s)
          /\ x \in Before(r.ready, s) \ Before(Tail(r.ready), s)
      <4>1. x = r.ready[1]
        BY DEF x
      <4>2. s # r.ready[1] /\ r.ready # <<>>
        BY <1>7, <3>1, <4>1
      <4>3. \A i, j \in 1..Len(r.ready) : r.ready[i] = r.ready[j] => i = j
        BY <2>3
      <4>4. r.ready \in Seq(Streams) /\ r.ready[k] = s
        BY <2>3, <3>2
      <4> HIDE DEF x
      <4> QED BY ONLY s \in Streams, k \in 1..Len(r.ready), <4>1, <4>2, <4>3, <4>4, BeforeTail
    <3> QED BY <1>4, <2>2, <2>4, <3>3
  <2>5. \A s \in Streams : d.wire[s] # q.wire[s] => s = x
    BY <1>3, <2>1, <2>2, <2>3
  <2>6. FairStep(q, d)
    BY <2>4, <2>5 DEF FairStep, StillWaits
  <2> QED BY <1>5, <2>6 DEF d, r
<1> QED BY <1>6, <1>7

\* A sender that is closed, or that hands nothing over and keeps its line, is fair.
LEMMA QuietFair ==
  ASSUME NEW q, NEW r, r.flagged = {} \/ (r.ready = q.ready /\ r.wire = q.wire)
  PROVE  FairStep(q, r)
BY DEF FairStep, StillWaits

\* A forced frame waits like any other, or the socket fails.
LEMMA ForcedFair ==
  ASSUME IInv, NEW s \in Streams, NEW f \in Frames, NEW rest,
         Forced(sender, charges, s, f, rest)
  PROVE  FairStep(sender, sender')
<1>1. /\ sender \in Senders /\ SenderInv(sender)
  BY DEF IInv, TypeOK
<1>2. CASE sender' = sender
  BY <1>2, QuietFair
<1>3. CASE readyState = "open" /\ sender' = Accepted(sender, s, f)
  <2>1. sender.closed \/ (sender.ready # <<>> => sender.inFlight # NoStream)
    BY <1>3 DEF IInv
  <2>2. sender.closed => sender.ready = <<>>
    BY <1>1 DEF SenderInv
  <2> QED BY <1>1, <1>3, <2>1, <2>2, AcceptFair
<1>4. CASE FailSocket(sender)
  <2>1. sender'.flagged = {}
    BY <1>1, <1>4 DEF FailSocket, Closed, Senders
  <2> QED BY <2>1, QuietFair
<1> QED BY <1>2, <1>3, <1>4 DEF Forced

\* A stream that overflows goes to the back with its report.
LEMMA PumpItemFair ==
  ASSUME IInv, NEW s \in Streams, PumpItem(s)
  PROVE  FairStep(sender, sender')
<1>1. /\ sender \in Senders /\ SenderInv(sender) /\ ~sender.closed /\ StreamInv(s)
      /\ status[s] = "open" /\ produced[s] \in Nat
  BY DEF IInv, TypeOK, PumpItem, Live
<1>2. PICK b \in ItemSizes :
        \/ UNCHANGED sender
        \/ readyState = "open" /\ sender' = Accepted(sender, s, Frame("item", produced[s] + 1, b))
        \/ readyState = "open" /\ Overflow(s)
        \/ FailSocket(sender)
  BY DEF PumpItem
<1>3. CASE UNCHANGED sender
  BY <1>3, QuietFair
<1>4. CASE readyState = "open" /\ sender' = Accepted(sender, s, Frame("item", produced[s] + 1, b))
  <2>1. Frame("item", produced[s] + 1, b) \in Frames
    <3>1. produced[s] + 1 \in Nat /\ b \in Nat
      BY <1>1, FrameType
    <3> QED BY <3>1, FrameType
  <2>2. sender.ready # <<>> => sender.inFlight # NoStream
    BY <1>1, <1>4 DEF IInv
  <2> QED BY <1>1, <1>4, <2>1, <2>2, AcceptFair
<1>5. CASE FailSocket(sender)
  <2>1. sender'.flagged = {}
    BY <1>1, <1>5 DEF FailSocket, Closed, Senders
  <2> QED BY <2>1, QuietFair
<1>6. CASE readyState = "open" /\ Overflow(s)
  <2> DEFINE q == Dropped(sender, s)
             e == Frame("error", 0, OverflowBytes)
  <2>1. e \in Frames /\ e.kind = "error"
    <3>1. OverflowBytes \in Nat /\ 0 \in Nat
      BY FrameType
    <3> QED BY <3>1, FrameType
  <2>2. /\ SenderInv(q) /\ q \in Senders /\ ~q.closed /\ q.inFlight = sender.inFlight
    BY <1>1, DroppedInv DEF SenderInv
  <2>3. /\ q.wire = sender.wire /\ s \notin q.flagged /\ q.items[s] = <<>>
        /\ \A t \in Streams \ {s} : Before(q.ready, t) \subseteq Before(sender.ready, t)
    BY <1>1, DropLine
  <2>4. sender' = Accepted(q, s, e) \/ FailSocket(q)
    BY <1>6 DEF Overflow, Terminal, Forced
  <2> HIDE DEF q, e
  <2>5. CASE FailSocket(q)
    <3>1. sender'.flagged = {}
      BY <2>2, <2>5 DEF FailSocket, Closed, Senders
    <3> QED BY <3>1, QuietFair
  <2>6. CASE sender.ready = <<>>
    BY <1>1, <2>6, EmptyLineFair
  <2>7. CASE sender' = Accepted(q, s, e) /\ sender.ready # <<>>
    <3>1. q.inFlight # NoStream
      BY <1>1, <1>6, <2>2, <2>7 DEF IInv
    <3>2. /\ sender'.ready = q.ready \/ sender'.ready = Append(q.ready, s)
          /\ sender'.wire = q.wire /\ sender'.items[s] = Append(q.items[s], e)
      BY <2>1, <2>2, <2>7, <3>1, AcceptWaits
    <3>3. q.ready \in Seq(Streams) /\ q.items \in [Streams -> Seq(Frames)]
      BY <2>2, SenderFields
    <3>4. \A t \in Streams \ {s} : Before(sender'.ready, t) \subseteq Before(sender.ready, t)
      BY <2>3, <3>2, <3>3, BeforeAppend
    <3>5. Head(sender'.items[s]) = e
      BY <2>1, <2>3, <3>2, <3>3
    <3>6. s \in sender.flagged => Head(sender.items[s]).kind = "item"
      <4>1. sender.items[s] \in Seq(Frames) /\ sender.wire[s] \in Seq(Frames)
        BY <1>1, SenderFields
      <4>2. s \in sender.flagged => sender.items[s] # <<>>
        BY <1>1 DEF SenderInv, NoLostWakeup
      <4>3. \A i \in 1..Len(Story(sender, s)) : Story(sender, s)[i].kind = "item"
        BY <1>1 DEF StreamInv, Ordered
      <4>4. sender.items[s] # <<>> =>
              /\ Len(sender.wire[s]) + 1 \in 1..Len(Story(sender, s))
              /\ Story(sender, s)[Len(sender.wire[s]) + 1] = sender.items[s][1]
        <5>1. /\ Len(sender.wire[s]) \in Nat /\ Len(sender.items[s]) \in Nat
              /\ sender.items[s] # <<>> => Len(sender.items[s]) >= 1
          BY <4>1
        <5>2. /\ Len(Story(sender, s)) = Len(sender.wire[s]) + Len(sender.items[s])
              /\ \A i \in 1..(Len(sender.wire[s]) + Len(sender.items[s])) :
                   Story(sender, s)[i] = IF i <= Len(sender.wire[s]) THEN sender.wire[s][i]
                                         ELSE sender.items[s][i - Len(sender.wire[s])]
          BY <4>1, ConcatProperties DEF Story
        <5>3. ASSUME NEW w \in Nat, NEW n \in Nat, n >= 1
              PROVE  w + 1 \in 1..(w + n) /\ ~(w + 1 <= w) /\ (w + 1) - w = 1
          BY <5>3
        <5> QED BY <5>1, <5>2, <5>3
      <4> QED BY <4>1, <4>2, <4>3, <4>4
    <3>7. ~StillWaits(sender, sender', s)
      BY <2>1, <3>5, <3>6 DEF StillWaits
    <3> QED BY <2>3, <3>2, <3>4, <3>7 DEF FairStep
  <2> QED BY <2>4, <2>5, <2>6, <2>7
<1> QED BY <1>2, <1>3, <1>4, <1>5, <1>6

\* NoOvertaking: whatever streams, limits and failures, nobody gets in before a stream
\* that waits in the line of #drain, and each frame handed to the socket is one of a
\* stream before it, which leaves (enqueue, drop, #drain and its callback).
THEOREM LineIsFair == Spec => NoOvertaking
<1>1. ASSUME IInv, Next PROVE FairStep(sender, sender')
  <2>1. sender \in Senders /\ SenderInv(sender)
    BY <1>1 DEF IInv, TypeOK
  <2>2. \A b \in ErrorSizes \cup {EndBytes} :
          Frame("error", 0, b) \in Frames /\ Frame("end", 0, b) \in Frames
    <3>1. \A b \in ErrorSizes \cup {EndBytes} : b \in Nat /\ 0 \in Nat
      BY FrameType
    <3> QED BY <3>1, FrameType
  <2>3. CASE UNCHANGED sender
    BY <2>3, QuietFair
  <2>4. CASE FailSocket(sender)
    <3>1. sender'.flagged = {}
      BY <2>1, <2>4 DEF FailSocket, Closed, Senders
    <3> QED BY <3>1, QuietFair
  <2>5. ASSUME NEW s \in Streams, NEW p \in PagePrefixes, HubRefuses(p, s)
        PROVE  FairStep(sender, sender')
    BY <1>1, <2>2, <2>5, ForcedFair DEF HubRefuses
  <2>6. ASSUME NEW s \in Streams, RefuseEndpoint(s) PROVE FairStep(sender, sender')
    BY <1>1, <2>2, <2>6, ForcedFair DEF RefuseEndpoint
  <2>7. ASSUME NEW s \in Streams, PumpEnd(s) \/ PumpError(s) PROVE FairStep(sender, sender')
    BY <1>1, <2>2, <2>7, ForcedFair DEF PumpEnd, PumpError, Terminal
  <2>8. ASSUME NEW s \in Streams, PumpItem(s) PROVE FairStep(sender, sender')
    BY <1>1, <2>8, PumpItemFair
  <2>9. ASSUME NEW s \in Streams, Cancel(s) PROVE FairStep(sender, sender')
    <3>1. sender' = Dropped(sender, s)
      BY <2>9 DEF Cancel
    <3>2. /\ sender'.wire = sender.wire /\ s \notin sender'.flagged
          /\ \A t \in Streams \ {s} : Before(sender'.ready, t) \subseteq Before(sender.ready, t)
      BY <2>1, <3>1, DropLine
    <3> QED BY <3>2 DEF FairStep, StillWaits
  <2>10. CASE SendDone
    BY <2>1, <2>10, SendDoneFair DEF SendDone
  <2>11. CASE SendFailed
    <3>1. Landed(sender) \in Senders
      BY <2>1, LandedInv
    <3>2. CASE sender.closed
      <4>1. sender.ready = <<>>
        BY <2>1, <3>2 DEF SenderInv
      <4> QED BY <2>1, <4>1, EmptyLineFair
    <3>3. CASE ~sender.closed
      <4>1. sender'.flagged = {}
        BY <2>11, <3>1, <3>3 DEF SendFailed, Fail, FailSocket, Closed, Senders
      <4> QED BY <4>1, QuietFair
    <3> QED BY <3>2, <3>3
  <2>12. \/ UNCHANGED sender \/ FailSocket(sender) \/ SendDone \/ SendFailed
         \/ \E s \in Streams :
              \/ \E p \in PagePrefixes : HubRefuses(p, s)
              \/ RefuseEndpoint(s) \/ Cancel(s)
              \/ PumpItem(s) \/ PumpEnd(s) \/ PumpError(s)
    BY <1>1 DEF Next, Message, Pump, Socket, Open, RejectOpen, PumpLate, Malformed,
       PeerCloses, SocketClosed, SocketError
  <2> QED BY <2>3, <2>4, <2>5, <2>6, <2>7, <2>8, <2>9, <2>10, <2>11, <2>12
<1>2. IInv /\ [Next]_muxVars => [FairStep(sender, sender')]_muxVars
  BY <1>1
<1> QED BY InvariantHolds, <1>2, PTL DEF Spec, NoOvertaking
=============================================================================
