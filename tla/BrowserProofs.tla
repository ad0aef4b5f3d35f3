--------------------------- MODULE BrowserProofs ----------------------------
(***************************************************************************)
(* Proofs about the browser: the asks it shows and answers, the page's     *)
(* side of the multiplexer, and the directory dialog.                      *)
(***************************************************************************)
EXTENDS HubAsks, PageMux, DirectoryBrowser, FiniteSetTheorems, SequenceTheorems, TLAPS

-----------------------------------------------------------------------------
(***************************************************************************)
(* An answer goes to the ask its user has seen, and the page shows what a host *)
(* has open, for any hosts, connections and asks.                          *)
(***************************************************************************)
Asks == AskHosts \X Nat \X Nat
AskWireFrames == [type : {"ready", "waterfall", "cancel"}, id : Nat]
AskFrames == [type : {"ready", "waterfall", "cancel"}, name : Asks, ask : Asks]
AskNamings == UNION {[D -> Asks] : D \in SUBSET Nat}

AskTypes ==
  /\ connects \in [AskHosts -> Nat] /\ offers \in [AskHosts -> Nat] /\ client \in [AskHosts -> Nat]
  /\ hostAsks \in [AskHosts -> SUBSET Nat] /\ askWire \in [AskHosts -> Seq(AskWireFrames)]
  /\ byRaw \in [AskHosts -> AskNamings] /\ askQueue \in Seq(AskFrames)
  /\ shown \subseteq [name : Asks, ask : Asks]
  /\ given \subseteq [to : Asks, ask : Asks] /\ heard \subseteq [to : Asks, ask : Asks]

\* Frame i of a queue opens, or withdraws, the ask.
Opens(q, i, n) == q[i].type = "waterfall" /\ q[i].ask = n
Withdraws(q, i, n) == q[i].type = "cancel" /\ q[i].ask = n
Says(q, i, type, id) == q[i].type = type /\ q[i].id = id

\* The hub has met the ask, of this connection of its host or of an earlier one.
Met(n) ==
  \/ n[2] < connects[n[1]]
  \/ n[2] = connects[n[1]] /\ n[3] \in DOMAIN byRaw[n[1]]

\* An ask is named by itself, and an answer to it is on its way or was heard.
IsShown(n) == \E s \in shown : s.ask = n
IsAnswered(n) == \E a \in given \cup heard : a.ask = n

\* What a host has sent on connection k: ready first, then its asks, each once, and its
\* withdrawals, each after the ask. It has offered m asks, some are open, the hub has
\* named some; the hub knows it by c.
WireIn(q, k, c, m, open, named) ==
  /\ k = 0 => c = 0 /\ m = 0 /\ q = <<>>
  /\ k # 0 /\ c = 0 => q # <<>>
  /\ \A id \in 1..m : id \in named \/ \E i \in 1..Len(q) : Says(q, i, "waterfall", id)
  /\ \A id \in 1..m : id \in named \/ id \in open \/ \E i \in 1..Len(q) : Says(q, i, "cancel", id)
  /\ \A i \in 1..Len(q) :
       /\ q[i].type = "ready" => i = 1 /\ q[i].id = k /\ c = 0
       /\ q[i].type # "ready" => (i > 1 \/ c # 0) /\ q[i].id \in 1..m
       /\ q[i].type = "waterfall" =>
            /\ q[i].id \notin named
            /\ \A j \in 1..Len(q) : Says(q, j, "waterfall", q[i].id) => j = i
       /\ q[i].type = "cancel" =>
            /\ q[i].id \notin open
            /\ q[i].id \in named \/ \E j \in 1..(i - 1) : Says(q, j, "waterfall", q[i].id)

AskWireOf(h) ==
  WireIn(askWire[h], connects[h], client[h], offers[h], hostAsks[h], DOMAIN byRaw[h])

\* What the hub has named on it.
AskNamed(h) ==
  /\ client[h] \in {0, connects[h]}
  /\ client[h] = 0 => DOMAIN byRaw[h] = {}
  /\ hostAsks[h] \subseteq 1..offers[h]
  /\ \A id \in DOMAIN byRaw[h] :
       /\ byRaw[h][id] = <<h, connects[h], id>> /\ id \in 1..offers[h]
       /\ <<h, connects[h], id>> \in DOMAIN mappings

\* A name is a name of its own.
AskNamesOwn == DOMAIN mappings \subseteq Asks /\ \A n \in DOMAIN mappings : mappings[n] = n

\* An ask is opened once, then shown, then answered.
AskQueued ==
  \A i \in 1..Len(askQueue) :
    LET f == askQueue[i] IN
    /\ f.type # "ready" => f.name = f.ask /\ Met(f.ask)
    /\ f.type = "waterfall" =>
         /\ \A j \in 1..Len(askQueue) : Opens(askQueue, j, f.ask) => j = i
         /\ \A j \in 1..(i - 1) : ~Withdraws(askQueue, j, f.ask)
         /\ ~IsShown(f.ask) /\ ~IsAnswered(f.ask)

AskSeen ==
  /\ \A s \in shown : s.name = s.ask /\ Met(s.ask) /\ ~IsAnswered(s.ask)
  /\ \A a \in given \cup heard : a.to = a.ask /\ Met(a.ask)

\* What a host has open is shown, will be, or is answered; what it has not is withdrawn,
\* will be, or is not shown.
StandsIn(n, open, w, q, seen, replied) ==
  /\ n[3] \in open =>
       /\ \A i \in 1..Len(q) : ~Withdraws(q, i, n)
       /\ \/ \E i \in 1..Len(q) : Opens(q, i, n)
          \/ \E s \in seen : s.ask = n
          \/ \E a \in replied : a.ask = n
  /\ n[3] \notin open =>
       \/ \E i \in 1..Len(w) : Says(w, i, "cancel", n[3])
       \/ \E i \in 1..Len(q) : Withdraws(q, i, n)
       \/ (\A s \in seen : s.ask # n) /\ (\A i \in 1..Len(q) : ~Opens(q, i, n))

AskStands(h) ==
  \A id \in DOMAIN byRaw[h] :
    StandsIn(<<h, connects[h], id>>, hostAsks[h], askWire[h], askQueue, shown, given \cup heard)

AskIInv ==
  /\ AskTypes /\ AskNamesOwn /\ AskQueued /\ AskSeen
  /\ \A h \in AskHosts : AskWireOf(h) /\ AskNamed(h) /\ AskStands(h)

-----------------------------------------------------------------------------
(* Types and sequences. *)

LEMMA AskFrameFields ==
  ASSUME NEW f \in AskFrames
  PROVE  f.type \in {"ready", "waterfall", "cancel"} /\ f.name \in Asks /\ f.ask \in Asks
  BY DEF AskFrames

LEMMA AskWireFields ==
  ASSUME NEW f \in AskWireFrames
  PROVE  f.type \in {"ready", "waterfall", "cancel"} /\ f.id \in Nat
  BY DEF AskWireFrames

LEMMA AskWireBuilt ==
  ASSUME NEW t \in {"ready", "waterfall", "cancel"}, NEW id \in Nat
  PROVE  LET f == [type |-> t, id |-> id] IN f \in AskWireFrames /\ f.type = t /\ f.id = id
  BY DEF AskWireFrames

LEMMA AskParts ==
  ASSUME NEW n \in Asks
  PROVE  n[1] \in AskHosts /\ n[2] \in Nat /\ n[3] \in Nat /\ n = <<n[1], n[2], n[3]>>
  BY DEF Asks

LEMMA LongerWire ==
  ASSUME NEW q \in Seq(AskWireFrames), NEW f \in AskWireFrames
  PROVE  LET p == Append(q, f) IN
         /\ p \in Seq(AskWireFrames) /\ Len(q) \in Nat /\ Len(p) = Len(q) + 1 /\ p[Len(q) + 1] = f /\ p # <<>>
         /\ \A i \in 1..Len(q) : p[i] = q[i] /\ i \in 1..Len(p)
         /\ \A i \in 1..Len(p) : i \in 1..Len(q) \/ i = Len(q) + 1
<1> DEFINE p == Append(q, f)
<1>1. /\ p \in Seq(AskWireFrames) /\ Len(q) \in Nat /\ Len(p) = Len(q) + 1 /\ p[Len(q) + 1] = f
      /\ \A i \in 1..Len(q) : p[i] = q[i] /\ i \in 1..Len(p)
      /\ \A i \in 1..Len(p) : i \in 1..Len(q) \/ i = Len(q) + 1
  OBVIOUS
<1>2. p # <<>>
  <2> HIDE DEF p
  <2> QED BY <1>1
<1> QED BY <1>1, <1>2

LEMMA ShorterWire ==
  ASSUME NEW q \in Seq(AskWireFrames), q # <<>>
  PROVE  LET p == Tail(q) IN
         /\ p \in Seq(AskWireFrames) /\ Len(q) \in Nat /\ Len(p) = Len(q) - 1 /\ 1 \in 1..Len(q)
         /\ Head(q) = q[1] /\ q[1] \in AskWireFrames
         /\ \A i \in 1..Len(p) : p[i] = q[i + 1] /\ i + 1 \in 1..Len(q)
         /\ \A i \in 1..Len(q) : i # 1 => i - 1 \in 1..Len(p) /\ p[i - 1] = q[i]
OBVIOUS

LEMMA LongerQueue ==
  ASSUME NEW q \in Seq(AskFrames), NEW f \in AskFrames
  PROVE  LET p == Append(q, f) IN
         /\ p \in Seq(AskFrames) /\ Len(q) \in Nat /\ Len(p) = Len(q) + 1 /\ p[Len(q) + 1] = f
         /\ \A i \in 1..Len(q) : p[i] = q[i] /\ i \in 1..Len(p)
         /\ \A i \in 1..Len(p) : i \in 1..Len(q) \/ i = Len(q) + 1
OBVIOUS

LEMMA ShorterQueue ==
  ASSUME NEW q \in Seq(AskFrames), q # <<>>
  PROVE  LET p == Tail(q) IN
         /\ p \in Seq(AskFrames) /\ Len(q) \in Nat /\ Len(p) = Len(q) - 1 /\ 1 \in 1..Len(q)
         /\ Head(q) = q[1] /\ q[1] \in AskFrames
         /\ \A i \in 1..Len(p) : p[i] = q[i + 1] /\ i + 1 \in 1..Len(q)
         /\ \A i \in 1..Len(q) : i # 1 => i - 1 \in 1..Len(p) /\ p[i - 1] = q[i]
OBVIOUS

-----------------------------------------------------------------------------
(* What a step leaves as it is. *)

\* A host it does not touch.
SameHost(h) ==
  /\ connects'[h] = connects[h] /\ offers'[h] = offers[h] /\ client'[h] = client[h]
  /\ hostAsks'[h] = hostAsks[h] /\ askWire'[h] = askWire[h] /\ byRaw'[h] = byRaw[h]

LEMMA WireRests ==
  ASSUME NEW h \in AskHosts, AskWireOf(h), SameHost(h)
  PROVE  AskWireOf(h)'
  BY DEF AskWireOf, SameHost

LEMMA NamedRests ==
  ASSUME NEW h \in AskHosts, AskNamed(h), SameHost(h),
         \A n \in DOMAIN mappings : n[1] = h => n \in DOMAIN mappings'
  PROVE  AskNamed(h)'
<1>1. \A id \in DOMAIN byRaw[h] : <<h, connects[h], id>> \in DOMAIN mappings'
  BY DEF AskNamed
<1> QED BY <1>1 DEF AskNamed, SameHost

\* The page's side.
LEMMA PageRests ==
  ASSUME AskTypes, AskQueued, AskSeen, UNCHANGED <<askQueue, shown>>,
         given' \cup heard' \subseteq given \cup heard,
         \A n \in Asks : Met(n) => Met(n)'
  PROVE  AskQueued' /\ AskSeen'
<1>1. \A i \in 1..Len(askQueue) : askQueue[i] \in AskFrames /\ askQueue[i].ask \in Asks
  BY AskFrameFields DEF AskTypes
<1>2. \A n : IsShown(n)' <=> IsShown(n)
  BY DEF IsShown
<1>3. \A n : IsAnswered(n)' => IsAnswered(n)
  BY DEF IsAnswered
<1>4. AskQueued'
  BY <1>1, <1>2, <1>3 DEF AskQueued, Opens, Withdraws
<1>5. (\A s \in shown : s.ask \in Asks) /\ (\A a \in given \cup heard : a.ask \in Asks)
  BY DEF AskTypes
<1>6. AskSeen'
  BY <1>3, <1>5 DEF AskSeen
<1> QED BY <1>4, <1>6

LEMMA StandsRests ==
  ASSUME NEW h \in AskHosts, AskStands(h), SameHost(h), UNCHANGED <<askQueue, shown, given, heard>>
  PROVE  AskStands(h)'
  BY DEF AskStands, SameHost

-----------------------------------------------------------------------------
LEMMA AsksInitially == ASSUME AsksInit PROVE AskIInv
<1>1. AskTypes
  <2>1. /\ connects \in [AskHosts -> Nat] /\ offers \in [AskHosts -> Nat] /\ client \in [AskHosts -> Nat]
        /\ hostAsks \in [AskHosts -> SUBSET Nat]
    BY DEF AsksInit
  <2>2. askWire \in [AskHosts -> Seq(AskWireFrames)] /\ askQueue \in Seq(AskFrames)
    BY DEF AsksInit
  <2>3. byRaw \in [AskHosts -> AskNamings]
    <3>1. <<>> \in [{} -> Asks]
      OBVIOUS
    <3>2. <<>> \in AskNamings
      BY <3>1 DEF AskNamings
    <3> QED BY <3>2 DEF AsksInit
  <2> QED BY <2>1, <2>2, <2>3 DEF AskTypes, AsksInit
<1>2. DOMAIN mappings = {} /\ \A h \in AskHosts : DOMAIN byRaw[h] = {}
  BY DEF AsksInit
<1>3. AskNamesOwn
  BY <1>2 DEF AskNamesOwn
<1>4. AskQueued
  BY DEF AsksInit, AskQueued
<1>5. AskSeen
  BY DEF AsksInit, AskSeen
<1>6. ASSUME NEW h \in AskHosts PROVE AskWireOf(h) /\ AskNamed(h) /\ AskStands(h)
  <2>1. AskWireOf(h)
    BY DEF AsksInit, AskWireOf, WireIn
  <2>2. AskNamed(h)
    BY <1>2 DEF AsksInit, AskNamed
  <2>3. AskStands(h)
    BY <1>2 DEF AskStands
  <2> QED BY <2>1, <2>2, <2>3
<1> QED BY <1>1, <1>3, <1>4, <1>5, <1>6 DEF AskIInv

-----------------------------------------------------------------------------
(* The host. *)

\* The host opens an ask.
LEMMA KeepsAskOpened ==
  ASSUME AskIInv, NEW h \in AskHosts, AskOpened(h)
  PROVE  AskIInv'
<1>0. /\ AskTypes /\ AskNamesOwn /\ AskQueued /\ AskSeen
      /\ \A g \in AskHosts : AskWireOf(g) /\ AskNamed(g) /\ AskStands(g)
  BY DEF AskIInv
<1> DEFINE k == offers[h] + 1
           q == askWire[h]
           f == [type |-> "waterfall", id |-> k]
           p == Append(q, f)
<1>1. /\ offers[h] \in Nat /\ connects[h] \in Nat /\ k \in Nat /\ q \in Seq(AskWireFrames) /\ hostAsks[h] \subseteq Nat
  BY <1>0 DEF AskTypes
<1>2. /\ connects[h] # 0 /\ offers' = [offers EXCEPT ![h] = k]
      /\ askWire' = [askWire EXCEPT ![h] = p]
      /\ hostAsks' = [hostAsks EXCEPT ![h] = @ \cup {k}]
      /\ UNCHANGED <<client, mappings, byRaw, askQueue, shown, given, heard, connects>>
  <2>1. offers' = [offers EXCEPT ![h] = k] /\ offers \in [AskHosts -> Nat]
    BY <1>0 DEF AskOpened, AskTypes
  <2>2. offers'[h] = k
    BY <2>1
  <2> QED BY <1>1, <2>1, <2>2 DEF AskOpened, hubSide
<1>3. f \in AskWireFrames /\ f.type = "waterfall" /\ f.id = k
  BY <1>1, AskWireBuilt
<1> HIDE DEF f
<1>4. /\ p \in Seq(AskWireFrames) /\ Len(q) \in Nat /\ Len(p) = Len(q) + 1 /\ p[Len(q) + 1] = f /\ p # <<>>
      /\ \A i \in 1..Len(q) : p[i] = q[i] /\ i \in 1..Len(p)
      /\ \A i \in 1..Len(p) : i \in 1..Len(q) \/ i = Len(q) + 1
  BY <1>1, <1>3, LongerWire
<1> HIDE DEF p, k
<1>5. /\ offers'[h] = k /\ askWire'[h] = p /\ hostAsks'[h] = hostAsks[h] \cup {k}
      /\ \A g \in AskHosts : g # h => SameHost(g)
  BY <1>0, <1>2 DEF AskTypes, SameHost
<1>6. AskTypes'
  BY <1>0, <1>1, <1>2, <1>4 DEF AskTypes
<1>7. AskNamesOwn' /\ AskQueued' /\ AskSeen'
  <2>1. \A n \in Asks : Met(n) => Met(n)'
    BY <1>2 DEF Met
  <2> QED BY <1>0, <1>2, <2>1, PageRests DEF AskNamesOwn
<1>8. k = offers[h] + 1 /\ 1..k = (1..offers[h]) \cup {k} /\ k \notin 1..offers[h]
  BY <1>1 DEF k
<1>9. AskNamed(h)'
  BY <1>0, <1>2, <1>5, <1>8 DEF AskNamed
<1>10. AskWireOf(h)'
  <2>1. \A id \in 1..k : id \in DOMAIN byRaw[h] \/ \E i \in 1..Len(p) : Says(p, i, "waterfall", id)
    <3> SUFFICES ASSUME NEW id \in 1..k, id \notin DOMAIN byRaw[h]
                 PROVE  \E i \in 1..Len(p) : Says(p, i, "waterfall", id)
      OBVIOUS
    <3>1. CASE id = k
      BY <1>3, <1>4, <3>1 DEF Says
    <3>2. CASE id # k
      <4>1. PICK i \in 1..Len(q) : Says(q, i, "waterfall", id)
        BY <1>0, <1>8, <3>2 DEF AskWireOf, WireIn
      <4> QED BY <1>4, <4>1 DEF Says
    <3> QED BY <3>1, <3>2
  <2>2. \A id \in 1..k : \/ id \in DOMAIN byRaw[h] \/ id \in hostAsks[h] \cup {k}
                         \/ \E i \in 1..Len(p) : Says(p, i, "cancel", id)
    <3> SUFFICES ASSUME NEW id \in 1..k, id \notin DOMAIN byRaw[h], id \notin hostAsks[h], id # k
                 PROVE  \E i \in 1..Len(p) : Says(p, i, "cancel", id)
      OBVIOUS
    <3>1. PICK i \in 1..Len(q) : Says(q, i, "cancel", id)
      BY <1>0, <1>8 DEF AskWireOf, WireIn
    <3> QED BY <1>4, <3>1 DEF Says
  <2>3. ASSUME NEW i \in 1..Len(p), i \in 1..Len(q)
        PROVE  /\ p[i].type = "ready" => i = 1 /\ p[i].id = connects[h] /\ client[h] = 0
               /\ p[i].type # "ready" => (i > 1 \/ client[h] # 0) /\ p[i].id \in 1..k
               /\ p[i].type = "waterfall" =>
                    /\ p[i].id \notin DOMAIN byRaw[h]
                    /\ \A j \in 1..Len(p) : Says(p, j, "waterfall", p[i].id) => j = i
               /\ p[i].type = "cancel" =>
                    /\ p[i].id \notin hostAsks[h] \cup {k}
                    /\ p[i].id \in DOMAIN byRaw[h] \/ \E j \in 1..(i - 1) : Says(p, j, "waterfall", p[i].id)
    <3> DEFINE x == q[i]
    <3>1. p[i] = x
      BY <1>4, <2>3
    <3>2. /\ x.type = "ready" => i = 1 /\ x.id = connects[h] /\ client[h] = 0
          /\ x.type # "ready" => (i > 1 \/ client[h] # 0) /\ x.id \in 1..offers[h]
          /\ x.type = "waterfall" =>
               /\ x.id \notin DOMAIN byRaw[h]
               /\ \A j \in 1..Len(q) : Says(q, j, "waterfall", x.id) => j = i
          /\ x.type = "cancel" =>
               /\ x.id \notin hostAsks[h]
               /\ x.id \in DOMAIN byRaw[h] \/ \E j \in 1..(i - 1) : Says(q, j, "waterfall", x.id)
      BY <1>0, <2>3 DEF AskWireOf, WireIn
    <3> HIDE DEF x
    <3>3. ASSUME x.type = "waterfall", NEW j \in 1..Len(p), Says(p, j, "waterfall", x.id) PROVE j = i
      <4>1. CASE j \in 1..Len(q)
        BY <1>4, <3>2, <3>3, <4>1 DEF Says
      <4>2. CASE j = Len(q) + 1
        <5>1. x.id = k
          BY <1>3, <1>4, <3>3, <4>2 DEF Says
        <5> QED BY <1>8, <3>2, <3>3, <5>1
      <4> QED BY <1>4, <4>1, <4>2
    <3>4. ASSUME x.type = "cancel", x.id \notin DOMAIN byRaw[h]
          PROVE  \E j \in 1..(i - 1) : Says(p, j, "waterfall", x.id)
      <4>1. PICK j \in 1..(i - 1) : Says(q, j, "waterfall", x.id)
        BY <3>2, <3>4
      <4>2. j \in 1..Len(q)
        BY <1>4, <2>3
      <4> QED BY <1>4, <4>1, <4>2 DEF Says
    <3> QED BY <1>8, <3>1, <3>2, <3>3, <3>4
  <2>4. ASSUME NEW i \in 1..Len(p), i = Len(q) + 1
        PROVE  /\ p[i].type = "waterfall" /\ p[i].id = k /\ (i > 1 \/ client[h] # 0)
               /\ p[i].id \notin DOMAIN byRaw[h]
               /\ \A j \in 1..Len(p) : Says(p, j, "waterfall", p[i].id) => j = i
    <3>1. p[i] = f
      BY <1>4, <2>4
    <3>2. i > 1 \/ client[h] # 0
      <4>1. CASE client[h] = 0
        <5>1. q # <<>>
          BY <1>0, <1>2, <4>1 DEF AskWireOf, WireIn
        <5>2. Len(q) > 0
          BY <1>1, <5>1
        <5> QED BY <1>4, <2>4, <5>2
      <4> QED BY <4>1
    <3>3. k \notin DOMAIN byRaw[h]
      BY <1>0, <1>8 DEF AskNamed
    <3>4. ASSUME NEW j \in 1..Len(p), Says(p, j, "waterfall", k) PROVE j = i
      <4>1. CASE j \in 1..Len(q)
        <5>1. q[j].type = "waterfall" /\ q[j].id = k
          BY <1>4, <3>4, <4>1 DEF Says
        <5>2. q[j].id \in 1..offers[h]
          BY <1>0, <4>1, <5>1 DEF AskWireOf, WireIn
        <5> QED BY <1>8, <5>1, <5>2
      <4> QED BY <1>4, <2>4, <4>1
    <3> QED BY <1>3, <3>1, <3>2, <3>3, <3>4
  <2>5. k \in 1..k
    BY <1>1, <1>8
  <2>6. ASSUME NEW i \in 1..Len(p)
        PROVE  /\ p[i].type = "ready" => i = 1 /\ p[i].id = connects[h] /\ client[h] = 0
               /\ p[i].type # "ready" => (i > 1 \/ client[h] # 0) /\ p[i].id \in 1..k
               /\ p[i].type = "waterfall" =>
                    /\ p[i].id \notin DOMAIN byRaw[h]
                    /\ \A j \in 1..Len(p) : Says(p, j, "waterfall", p[i].id) => j = i
               /\ p[i].type = "cancel" =>
                    /\ p[i].id \notin hostAsks[h] \cup {k}
                    /\ p[i].id \in DOMAIN byRaw[h] \/ \E j \in 1..(i - 1) : Says(p, j, "waterfall", p[i].id)
    <3>1. CASE i \in 1..Len(q)
      BY <2>3, <3>1
    <3>2. CASE i = Len(q) + 1
      BY <2>4, <2>5, <3>2
    <3> QED BY <1>4, <3>1, <3>2
  <2>7. connects'[h] = connects[h] /\ client'[h] = client[h] /\ byRaw'[h] = byRaw[h]
    BY <1>2
  <2>8. WireIn(p, connects[h], client[h], k, hostAsks[h] \cup {k}, DOMAIN byRaw[h])
    BY <1>2, <1>4, <2>1, <2>2, <2>6 DEF WireIn
  <2> QED BY <1>5, <2>7, <2>8 DEF AskWireOf
<1>11. AskStands(h)'
  <2> SUFFICES ASSUME NEW id \in DOMAIN byRaw[h]
               PROVE  StandsIn(<<h, connects[h], id>>, hostAsks[h] \cup {k}, p, askQueue, shown, given \cup heard)
    BY <1>2, <1>5 DEF AskStands
  <2>1. StandsIn(<<h, connects[h], id>>, hostAsks[h], q, askQueue, shown, given \cup heard)
    BY <1>0 DEF AskStands
  <2>2. id \in hostAsks[h] \cup {k} <=> id \in hostAsks[h]
    BY <1>0, <1>8 DEF AskNamed
  <2>3. (\E i \in 1..Len(q) : Says(q, i, "cancel", id)) => \E i \in 1..Len(p) : Says(p, i, "cancel", id)
    BY <1>4 DEF Says
  <2>4. <<h, connects[h], id>>[3] = id
    OBVIOUS
  <2> QED BY ONLY <2>1, <2>2, <2>3, <2>4 DEF StandsIn
<1>12. ASSUME NEW g \in AskHosts PROVE AskWireOf(g)' /\ AskNamed(g)' /\ AskStands(g)'
  <2>1. CASE g = h
    BY <1>9, <1>10, <1>11, <2>1
  <2>2. CASE g # h
    BY <1>0, <1>2, <1>5, <2>2, WireRests, NamedRests, StandsRests
  <2> QED BY <2>1, <2>2
<1> QED BY <1>6, <1>7, <1>12 DEF AskIInv

\* The host closes an ask.
LEMMA KeepsAskClosed ==
  ASSUME AskIInv, NEW h \in AskHosts, NEW id \in hostAsks[h], AskClosed(h, id)
  PROVE  AskIInv'
<1>0. /\ AskTypes /\ AskNamesOwn /\ AskQueued /\ AskSeen
      /\ \A g \in AskHosts : AskWireOf(g) /\ AskNamed(g) /\ AskStands(g)
  BY DEF AskIInv
<1> DEFINE q == askWire[h]
           f == [type |-> "cancel", id |-> id]
           p == Append(q, f)
           left == hostAsks[h] \ {id}
           named == DOMAIN byRaw[h]
<1>1. /\ offers[h] \in Nat /\ connects[h] \in Nat /\ q \in Seq(AskWireFrames) /\ hostAsks[h] \subseteq Nat
      /\ id \in Nat /\ id \in 1..offers[h]
  BY <1>0 DEF AskTypes, AskNamed
<1>2. /\ askWire' = [askWire EXCEPT ![h] = p] /\ hostAsks' = [hostAsks EXCEPT ![h] = left]
      /\ UNCHANGED <<client, mappings, byRaw, askQueue, shown, given, heard, connects, offers>>
  BY DEF AskClosed, hubSide
<1>3. f \in AskWireFrames /\ f.type = "cancel" /\ f.id = id
  BY <1>1, AskWireBuilt
<1> HIDE DEF f
<1>4. /\ p \in Seq(AskWireFrames) /\ Len(q) \in Nat /\ Len(p) = Len(q) + 1 /\ p[Len(q) + 1] = f /\ p # <<>>
      /\ \A i \in 1..Len(q) : p[i] = q[i] /\ i \in 1..Len(p)
      /\ \A i \in 1..Len(p) : i \in 1..Len(q) \/ i = Len(q) + 1
  BY <1>1, <1>3, LongerWire
<1> HIDE DEF p
<1>5. /\ askWire'[h] = p /\ hostAsks'[h] = left
      /\ connects'[h] = connects[h] /\ client'[h] = client[h] /\ byRaw'[h] = byRaw[h] /\ offers'[h] = offers[h]
      /\ \A g \in AskHosts : g # h => SameHost(g)
  BY <1>0, <1>2 DEF AskTypes, SameHost
<1>6. AskTypes'
  <2>1. left \in SUBSET Nat
    BY <1>1
  <2> QED BY <1>0, <1>1, <1>2, <1>4, <2>1 DEF AskTypes
<1>7. AskNamesOwn' /\ AskQueued' /\ AskSeen'
  <2>1. \A n \in Asks : Met(n) => Met(n)'
    BY <1>2 DEF Met
  <2> QED BY <1>0, <1>2, <2>1, PageRests DEF AskNamesOwn
<1>9. AskNamed(h)'
  BY <1>0, <1>2, <1>5 DEF AskNamed
<1>10. AskWireOf(h)'
  <2>0. WireIn(q, connects[h], client[h], offers[h], hostAsks[h], named)
    BY <1>0 DEF AskWireOf
  <2>1. connects[h] # 0
    BY <1>1, <2>0 DEF WireIn
  <2>2. \A x \in 1..offers[h] : x \in named \/ \E i \in 1..Len(p) : Says(p, i, "waterfall", x)
    <3> SUFFICES ASSUME NEW x \in 1..offers[h], x \notin named
                 PROVE  \E i \in 1..Len(p) : Says(p, i, "waterfall", x)
      OBVIOUS
    <3>1. PICK i \in 1..Len(q) : Says(q, i, "waterfall", x)
      BY <2>0 DEF WireIn
    <3> QED BY <1>4, <3>1 DEF Says
  <2>3. \A x \in 1..offers[h] : x \in named \/ x \in left \/ \E i \in 1..Len(p) : Says(p, i, "cancel", x)
    <3> SUFFICES ASSUME NEW x \in 1..offers[h], x \notin named, x \notin left
                 PROVE  \E i \in 1..Len(p) : Says(p, i, "cancel", x)
      OBVIOUS
    <3>1. CASE x = id
      BY <1>3, <1>4, <3>1 DEF Says
    <3>2. CASE x # id
      <4>1. PICK i \in 1..Len(q) : Says(q, i, "cancel", x)
        BY <2>0, <3>2 DEF WireIn
      <4> QED BY <1>4, <4>1 DEF Says
    <3> QED BY <3>1, <3>2
  <2>4. ASSUME NEW i \in 1..Len(p)
        PROVE  /\ p[i].type = "ready" => i = 1 /\ p[i].id = connects[h] /\ client[h] = 0
               /\ p[i].type # "ready" => (i > 1 \/ client[h] # 0) /\ p[i].id \in 1..offers[h]
               /\ p[i].type = "waterfall" =>
                    /\ p[i].id \notin named
                    /\ \A j \in 1..Len(p) : Says(p, j, "waterfall", p[i].id) => j = i
               /\ p[i].type = "cancel" =>
                    /\ p[i].id \notin left
                    /\ p[i].id \in named \/ \E j \in 1..(i - 1) : Says(p, j, "waterfall", p[i].id)
    <3>1. CASE i \in 1..Len(q)
      <4> DEFINE x == q[i]
      <4>1. p[i] = x
        BY <1>4, <3>1
      <4>2. /\ x.type = "ready" => i = 1 /\ x.id = connects[h] /\ client[h] = 0
            /\ x.type # "ready" => (i > 1 \/ client[h] # 0) /\ x.id \in 1..offers[h]
            /\ x.type = "waterfall" =>
                 /\ x.id \notin named
                 /\ \A j \in 1..Len(q) : Says(q, j, "waterfall", x.id) => j = i
            /\ x.type = "cancel" =>
                 /\ x.id \notin hostAsks[h]
                 /\ x.id \in named \/ \E j \in 1..(i - 1) : Says(q, j, "waterfall", x.id)
        BY <2>0, <3>1 DEF WireIn
      <4> HIDE DEF x
      <4>3. ASSUME x.type = "waterfall", NEW j \in 1..Len(p), Says(p, j, "waterfall", x.id) PROVE j = i
        <5>1. j \in 1..Len(q)
          BY <1>3, <1>4, <4>3 DEF Says
        <5> QED BY <1>4, <4>2, <4>3, <5>1 DEF Says
      <4>4. ASSUME x.type = "cancel", x.id \notin named
            PROVE  \E j \in 1..(i - 1) : Says(p, j, "waterfall", x.id)
        <5>1. PICK j \in 1..(i - 1) : Says(q, j, "waterfall", x.id)
          BY <4>2, <4>4
        <5>2. j \in 1..Len(q)
          BY <1>4, <3>1
        <5> QED BY <1>4, <5>1, <5>2 DEF Says
      <4> QED BY <4>1, <4>2, <4>3, <4>4
    <3>2. CASE i = Len(q) + 1
      <4>1. p[i] = f
        BY <1>4, <3>2
      <4>2. i > 1 \/ client[h] # 0
        <5>1. CASE client[h] = 0
          <6>1. q # <<>>
            BY <2>0, <2>1, <5>1 DEF WireIn
          <6>2. Len(q) > 0
            BY <1>1, <6>1
          <6> QED BY <1>4, <3>2, <6>2
        <5> QED BY <5>1
      <4>3. id \in named \/ \E j \in 1..(i - 1) : Says(p, j, "waterfall", id)
        <5>1. CASE id \notin named
          <6>1. PICK j \in 1..Len(q) : Says(q, j, "waterfall", id)
            BY <1>1, <2>0, <5>1 DEF WireIn
          <6>2. j \in 1..(i - 1)
            BY <1>4, <3>2
          <6> QED BY <1>4, <6>1, <6>2 DEF Says
        <5> QED BY <5>1
      <4> QED BY <1>1, <1>3, <4>1, <4>2, <4>3
    <3> QED BY <1>4, <3>1, <3>2
  <2>5. WireIn(p, connects[h], client[h], offers[h], left, named)
    BY <1>4, <2>1, <2>2, <2>3, <2>4 DEF WireIn
  <2> QED BY <1>5, <2>5 DEF AskWireOf
<1>11. AskStands(h)'
  <2> SUFFICES ASSUME NEW x \in named
               PROVE  StandsIn(<<h, connects[h], x>>, left, p, askQueue, shown, given \cup heard)
    BY <1>2, <1>5 DEF AskStands
  <2>1. StandsIn(<<h, connects[h], x>>, hostAsks[h], q, askQueue, shown, given \cup heard)
    BY <1>0 DEF AskStands
  <2>2. x \in left => x \in hostAsks[h]
    OBVIOUS
  <2>3. x \notin left /\ x \in hostAsks[h] => \E i \in 1..Len(p) : Says(p, i, "cancel", x)
    BY <1>3, <1>4 DEF Says
  <2>4. (\E i \in 1..Len(q) : Says(q, i, "cancel", x)) => \E i \in 1..Len(p) : Says(p, i, "cancel", x)
    BY <1>4 DEF Says
  <2>5. <<h, connects[h], x>>[3] = x
    OBVIOUS
  <2> QED BY ONLY <2>1, <2>2, <2>3, <2>4, <2>5 DEF StandsIn
<1>12. ASSUME NEW g \in AskHosts PROVE AskWireOf(g)' /\ AskNamed(g)' /\ AskStands(g)'
  <2>1. CASE g = h
    BY <1>9, <1>10, <1>11, <2>1
  <2>2. CASE g # h
    BY <1>0, <1>2, <1>5, <2>2, WireRests, NamedRests, StandsRests
  <2> QED BY <2>1, <2>2
<1> QED BY <1>6, <1>7, <1>12 DEF AskIInv

\* An answer arrives: the host takes it, or finds nothing it is for.
LEMMA KeepsAnswerArrives ==
  ASSUME AskIInv, NEW a \in given, AnswerArrives(a)
  PROVE  AskIInv'
<1>0. /\ AskTypes /\ AskNamesOwn /\ AskQueued /\ AskSeen
      /\ \A g \in AskHosts : AskWireOf(g) /\ AskNamed(g) /\ AskStands(g)
  BY DEF AskIInv
<1> DEFINE n == a.ask
           h == n[1]
           id == n[3]
<1>1. /\ a.to = n /\ Met(n) /\ n \in Asks /\ a \in given \cup heard
  BY <1>0 DEF AskSeen, AskTypes
<1>2. h \in AskHosts /\ n = <<h, n[2], id>>
  BY <1>1, AskParts
<1> HIDE DEF n
<1>3. /\ given' = given \ {a}
      /\ UNCHANGED <<mappings, byRaw, askQueue, client, askWire, shown, connects, offers>>
  BY DEF AnswerArrives, hubSide
<1>4. CASE n[2] = connects[h] /\ id \in hostAsks[h]
  <2>1. hostAsks' = [hostAsks EXCEPT ![h] = @ \ {id}] /\ heard' = heard \cup {a}
    BY <1>1, <1>4 DEF AnswerArrives
  <2>2. given' \cup heard' = given \cup heard
    BY <1>3, <2>1
  <2>3. /\ hostAsks'[h] = hostAsks[h] \ {id} /\ \A g \in AskHosts : g # h => SameHost(g)
        /\ connects'[h] = connects[h] /\ client'[h] = client[h] /\ byRaw'[h] = byRaw[h]
        /\ offers'[h] = offers[h] /\ askWire'[h] = askWire[h]
    BY <1>0, <1>2, <1>3, <2>1 DEF AskTypes, SameHost
  <2>4. AskTypes'
    <3>1. hostAsks' \in [AskHosts -> SUBSET Nat]
      BY <1>0, <2>1 DEF AskTypes
    <3> QED BY <1>0, <1>3, <2>1, <3>1 DEF AskTypes
  <2>5. AskNamesOwn' /\ AskQueued' /\ AskSeen'
    <3>1. \A m \in Asks : Met(m) => Met(m)'
      BY <1>3 DEF Met
    <3> QED BY <1>0, <1>3, <2>2, <3>1, PageRests DEF AskNamesOwn
  <2>6. id \in DOMAIN byRaw[h]
    <3>1. connects[h] \in Nat
      BY <1>0, <1>2 DEF AskTypes
    <3> QED BY <1>1, <1>4, <3>1 DEF Met
  <2>7. AskWireOf(h)'
    <3>1. WireIn(askWire[h], connects[h], client[h], offers[h], hostAsks[h], DOMAIN byRaw[h])
      BY <1>0, <1>2 DEF AskWireOf
    <3>2. WireIn(askWire[h], connects[h], client[h], offers[h], hostAsks[h] \ {id}, DOMAIN byRaw[h])
      BY ONLY <2>6, <3>1 DEF WireIn
    <3> QED BY <2>3, <3>2 DEF AskWireOf
  <2>8. AskNamed(h)'
    BY <1>0, <1>2, <1>3, <2>3 DEF AskNamed
  <2>9. AskStands(h)'
    <3> SUFFICES ASSUME NEW x \in DOMAIN byRaw[h]
                 PROVE  StandsIn(<<h, connects[h], x>>, hostAsks[h] \ {id}, askWire[h], askQueue, shown, given \cup heard)
      BY <1>2, <1>3, <2>2, <2>3 DEF AskStands
    <3>1. StandsIn(<<h, connects[h], x>>, hostAsks[h], askWire[h], askQueue, shown, given \cup heard)
      BY <1>0, <1>2 DEF AskStands
    <3>2. <<h, connects[h], x>>[3] = x
      OBVIOUS
    <3>3. CASE x # id
      BY ONLY <3>1, <3>2, <3>3 DEF StandsIn
    <3>4. CASE x = id
      <4>1. <<h, connects[h], x>> = n
        BY <1>2, <1>4, <3>4
      <4>2. IsAnswered(n)
        BY <1>1 DEF IsAnswered, n
      <4>3. \A s \in shown : s.ask # n
        BY <1>0, <4>2 DEF AskSeen
      <4>4. \A i \in 1..Len(askQueue) : ~Opens(askQueue, i, n)
        BY <1>0, <4>2 DEF AskQueued, Opens
      <4> QED BY ONLY <3>2, <3>4, <4>1, <4>3, <4>4 DEF StandsIn
    <3> QED BY <3>3, <3>4
  <2>10. ASSUME NEW g \in AskHosts PROVE AskWireOf(g)' /\ AskNamed(g)' /\ AskStands(g)'
    <3>1. CASE g = h
      BY <2>7, <2>8, <2>9, <3>1
    <3>2. CASE g # h
      <4>1. SameHost(g)
        BY <2>3, <3>2
      <4>2. AskStands(g)'
        BY <1>0, <1>3, <2>2, <4>1 DEF AskStands, SameHost
      <4> QED BY <1>0, <1>3, <4>1, <4>2, WireRests, NamedRests
    <3> QED BY <3>1, <3>2
  <2> QED BY <2>4, <2>5, <2>10 DEF AskIInv
<1>5. CASE ~(n[2] = connects[h] /\ id \in hostAsks[h])
  <2>1. UNCHANGED <<hostAsks, heard>>
    BY <1>1, <1>5 DEF AnswerArrives
  <2>2. given' \cup heard' \subseteq given \cup heard
    BY <1>3, <2>1
  <2>3. \A g \in AskHosts : SameHost(g)
    BY <1>3, <2>1 DEF SameHost
  <2>4. AskTypes'
    BY <1>0, <1>3, <2>1 DEF AskTypes
  <2>5. AskNamesOwn' /\ AskQueued' /\ AskSeen'
    <3>1. \A m \in Asks : Met(m) => Met(m)'
      BY <1>3 DEF Met
    <3> QED BY <1>0, <1>3, <2>2, <3>1, PageRests DEF AskNamesOwn
  <2>6. ASSUME NEW g \in AskHosts PROVE AskStands(g)'
    <3> SUFFICES ASSUME NEW x \in DOMAIN byRaw[g]
                 PROVE  StandsIn(<<g, connects[g], x>>, hostAsks[g], askWire[g], askQueue, shown, given' \cup heard')
      BY <1>3, <2>1 DEF AskStands
    <3> DEFINE m == <<g, connects[g], x>>
    <3>1. StandsIn(m, hostAsks[g], askWire[g], askQueue, shown, given \cup heard)
      BY <1>0 DEF AskStands
    <3>2. m[1] = g /\ m[2] = connects[g] /\ m[3] = x
      OBVIOUS
    <3> HIDE DEF m
    <3>3. x \in hostAsks[g] => n # m
      BY <1>5, <3>2
    <3>4. x \in hostAsks[g] /\ (\E b \in given \cup heard : b.ask = m) => \E b \in given' \cup heard' : b.ask = m
      BY <1>3, <2>1, <3>3 DEF n
    <3>5. StandsIn(m, hostAsks[g], askWire[g], askQueue, shown, given' \cup heard')
      BY ONLY <3>1, <3>2, <3>4 DEF StandsIn
    <3> QED BY <3>5 DEF m
  <2>7. ASSUME NEW g \in AskHosts PROVE AskWireOf(g)' /\ AskNamed(g)'
    BY <1>0, <1>3, <2>3, WireRests, NamedRests
  <2> QED BY <2>4, <2>5, <2>6, <2>7 DEF AskIInv
<1> QED BY <1>4, <1>5

-----------------------------------------------------------------------------
(* The hub's pump of a host. *)

\* The host has a new connection: its asks count anew, and those of the last are forgotten.
LEMMA KeepsConnect ==
  ASSUME AskIInv, NEW h \in AskHosts, Connect(h)
  PROVE  AskIInv'
<1>0. /\ AskTypes /\ AskNamesOwn /\ AskQueued /\ AskSeen
      /\ \A g \in AskHosts : AskWireOf(g) /\ AskNamed(g) /\ AskStands(g)
  BY DEF AskIInv
<1> DEFINE k == connects[h] + 1
           f == [type |-> "ready", id |-> k]
<1>1. connects[h] \in Nat /\ k \in Nat /\ k # 0
  BY <1>0 DEF AskTypes
<1>2. f \in AskWireFrames /\ f.type = "ready" /\ f.id = k
  BY <1>1, AskWireBuilt
<1> HIDE DEF f
<1>3. /\ connects' = [connects EXCEPT ![h] = k] /\ mappings' = Forgotten(h)
      /\ byRaw' = [byRaw EXCEPT ![h] = <<>>] /\ client' = [client EXCEPT ![h] = 0]
      /\ hostAsks' = [hostAsks EXCEPT ![h] = {}] /\ askWire' = [askWire EXCEPT ![h] = <<f>>]
      /\ offers' = [offers EXCEPT ![h] = 0] /\ UNCHANGED <<askQueue, shown, given, heard>>
  <2>1. connects' = [connects EXCEPT ![h] = k] /\ connects'[h] = k
    BY <1>0 DEF Connect, AskTypes
  <2> QED BY <2>1 DEF Connect, f
<1> HIDE DEF k
<1>4. <<>> \in AskNamings /\ DOMAIN <<>> = {}
  <2>1. <<>> \in [{} -> Asks]
    OBVIOUS
  <2> QED BY <2>1 DEF AskNamings
<1>5. <<f>> \in Seq(AskWireFrames) /\ Len(<<f>>) = 1 /\ <<f>>[1] = f /\ <<f>> # <<>>
  BY <1>2
<1>6. /\ connects'[h] = k /\ DOMAIN byRaw'[h] = {} /\ client'[h] = 0 /\ hostAsks'[h] = {}
      /\ askWire'[h] = <<f>> /\ offers'[h] = 0 /\ \A g \in AskHosts : g # h => SameHost(g)
  BY <1>0, <1>3, <1>4 DEF AskTypes, SameHost
<1>7. AskTypes'
  BY <1>0, <1>1, <1>3, <1>4, <1>5 DEF AskTypes
<1>8. /\ DOMAIN mappings' = {n \in DOMAIN mappings : n[1] # h}
      /\ \A n \in DOMAIN mappings' : mappings'[n] = mappings[n]
  <2> DEFINE D == DOMAIN mappings \ {n \in DOMAIN mappings : mappings[n][1] = h}
  <2>1. mappings' = [n \in D |-> mappings[n]]
    BY <1>3 DEF Forgotten, Without, AskNames
  <2>2. \A n : n \in D <=> n \in DOMAIN mappings /\ n[1] # h
    BY <1>0 DEF AskNamesOwn
  <2> HIDE DEF D
  <2>3. DOMAIN mappings' = D /\ \A n \in D : mappings'[n] = mappings[n]
    BY <2>1
  <2> QED BY <2>2, <2>3
<1>9. AskNamesOwn'
  BY <1>0, <1>8 DEF AskNamesOwn
<1>10. \A n \in Asks : Met(n) => Met(n)'
  <2> SUFFICES ASSUME NEW n \in Asks, Met(n) PROVE Met(n)'
    OBVIOUS
  <2>1. n[1] \in AskHosts /\ n[2] \in Nat
    BY AskParts
  <2>2. CASE n[1] = h
    BY <1>1, <1>6, <2>1, <2>2 DEF Met, k
  <2>3. CASE n[1] # h
    BY <1>6, <2>1, <2>3 DEF Met, SameHost
  <2> QED BY <2>2, <2>3
<1>11. AskQueued' /\ AskSeen'
  BY <1>0, <1>3, <1>10, PageRests
<1>12. AskWireOf(h)'
  <2>1. WireIn(<<f>>, k, 0, 0, {}, {})
    <3> DEFINE q == <<f>>
    <3>1. Len(q) = 1 /\ q[1] = f /\ q # <<>>
      BY <1>5
    <3> HIDE DEF q
    <3>2. WireIn(q, k, 0, 0, {}, {})
      BY <1>1, <1>2, <3>1 DEF WireIn
    <3> QED BY <3>2 DEF q
  <2> QED BY <1>6, <2>1 DEF AskWireOf
<1>13. AskNamed(h)' /\ AskStands(h)'
  BY <1>6 DEF AskNamed, AskStands
<1>14. ASSUME NEW g \in AskHosts PROVE AskWireOf(g)' /\ AskNamed(g)' /\ AskStands(g)'
  <2>1. CASE g = h
    BY <1>12, <1>13, <2>1
  <2>2. CASE g # h
    <3>1. \A n \in DOMAIN mappings : n[1] = g => n \in DOMAIN mappings'
      BY <1>8, <2>2
    <3> QED BY <1>0, <1>3, <1>6, <2>2, <3>1, WireRests, NamedRests, StandsRests
  <2> QED BY <2>1, <2>2
<1> QED BY <1>7, <1>9, <1>11, <1>14 DEF AskIInv

-----------------------------------------------------------------------------
(* The hub reads a frame. *)

\* What is on the wire without its first frame.
LEMMA WireRead ==
  ASSUME NEW q \in Seq(AskWireFrames), q # <<>>, NEW k, NEW c \in Nat, NEW c2 \in Nat, NEW m \in Nat,
         NEW open, NEW named, NEW named2,
         WireIn(q, k, c, m, open, named), k # 0, c2 # 0,
         named2 = IF q[1].type = "waterfall" THEN named \cup {q[1].id} ELSE named
  PROVE  WireIn(Tail(q), k, c2, m, open, named2)
<1> DEFINE p == Tail(q)
<1>1. /\ p \in Seq(AskWireFrames) /\ Len(q) \in Nat /\ Len(p) = Len(q) - 1 /\ 1 \in 1..Len(q)
      /\ q[1] \in AskWireFrames
      /\ \A i \in 1..Len(p) : p[i] = q[i + 1] /\ i + 1 \in 1..Len(q)
      /\ \A i \in 1..Len(q) : i # 1 => i - 1 \in 1..Len(p) /\ p[i - 1] = q[i]
  BY ShorterWire
<1> HIDE DEF p
<1>2. \A x \in 1..m : x \in named2 \/ \E i \in 1..Len(p) : Says(p, i, "waterfall", x)
  <2> SUFFICES ASSUME NEW x \in 1..m, x \notin named2
               PROVE  \E i \in 1..Len(p) : Says(p, i, "waterfall", x)
    OBVIOUS
  <2>1. PICK i \in 1..Len(q) : Says(q, i, "waterfall", x)
    BY DEF WireIn
  <2>2. i # 1
    BY <2>1 DEF Says
  <2> QED BY <1>1, <2>1, <2>2 DEF Says
<1>3. \A x \in 1..m : x \in named2 \/ x \in open \/ \E i \in 1..Len(p) : Says(p, i, "cancel", x)
  <2> SUFFICES ASSUME NEW x \in 1..m, x \notin named2, x \notin open
               PROVE  \E i \in 1..Len(p) : Says(p, i, "cancel", x)
    OBVIOUS
  <2>1. PICK i \in 1..Len(q) : Says(q, i, "cancel", x)
    BY DEF WireIn
  <2>2. i # 1
    <3> SUFFICES ASSUME i = 1 PROVE FALSE
      OBVIOUS
    <3>1. q[1].type = "cancel" /\ q[1].id = x
      BY <2>1 DEF Says
    <3>2. x \in named \/ \E j \in 1..(1 - 1) : Says(q, j, "waterfall", x)
      BY <1>1, <3>1 DEF WireIn
    <3> QED BY <3>1, <3>2
  <2> QED BY <1>1, <2>1, <2>2 DEF Says
<1>4. ASSUME NEW i \in 1..Len(p)
      PROVE  /\ p[i].type = "ready" => i = 1 /\ p[i].id = k /\ c2 = 0
             /\ p[i].type # "ready" => (i > 1 \/ c2 # 0) /\ p[i].id \in 1..m
             /\ p[i].type = "waterfall" =>
                  /\ p[i].id \notin named2
                  /\ \A j \in 1..Len(p) : Says(p, j, "waterfall", p[i].id) => j = i
             /\ p[i].type = "cancel" =>
                  /\ p[i].id \notin open
                  /\ p[i].id \in named2 \/ \E j \in 1..(i - 1) : Says(p, j, "waterfall", p[i].id)
  <2> DEFINE b == i + 1
             x == q[b]
  <2>1. p[i] = x /\ b \in 1..Len(q) /\ b # 1 /\ i = b - 1
    <3>1. p[i] = x /\ b \in 1..Len(q)
      BY <1>1
    <3>2. i \in Nat /\ i >= 1
      BY <1>1
    <3> QED BY <3>1, <3>2
  <2> HIDE DEF b
  <2>2. /\ x.type = "ready" => b = 1
        /\ x.type # "ready" => x.id \in 1..m
        /\ x.type = "waterfall" =>
             /\ x.id \notin named
             /\ \A j \in 1..Len(q) : Says(q, j, "waterfall", x.id) => j = b
        /\ x.type = "cancel" =>
             /\ x.id \notin open
             /\ x.id \in named \/ \E j \in 1..(b - 1) : Says(q, j, "waterfall", x.id)
    BY <2>1 DEF WireIn
  <2> HIDE DEF x
  <2>3. ASSUME x.type = "waterfall" PROVE x.id \notin named2
    <3>1. ~Says(q, 1, "waterfall", x.id)
      BY <1>1, <2>1, <2>2, <2>3
    <3> QED BY <2>2, <2>3, <3>1 DEF Says
  <2>4. ASSUME x.type = "waterfall", NEW j \in 1..Len(p), Says(p, j, "waterfall", x.id) PROVE j = i
    <3>1. Says(q, j + 1, "waterfall", x.id) /\ j + 1 \in 1..Len(q)
      BY <1>1, <2>4 DEF Says
    <3>2. j + 1 = b
      BY <2>2, <2>4, <3>1
    <3> QED BY <2>1, <3>2
  <2>5. ASSUME x.type = "cancel", x.id \notin named2
        PROVE  \E j \in 1..(i - 1) : Says(p, j, "waterfall", x.id)
    <3>1. PICK j \in 1..(b - 1) : Says(q, j, "waterfall", x.id)
      BY <2>2, <2>5
    <3>2. j # 1
      BY <2>5, <3>1 DEF Says
    <3>3. j \in 1..Len(q) /\ j - 1 \in 1..(i - 1)
      BY <1>1, <2>1, <3>1, <3>2
    <3>4. Says(p, j - 1, "waterfall", x.id)
      BY <1>1, <3>1, <3>2, <3>3 DEF Says
    <3> QED BY <3>3, <3>4
  <2> QED BY <2>1, <2>2, <2>3, <2>4, <2>5
<1>5. WireIn(p, k, c2, m, open, named2)
  BY <1>2, <1>3, <1>4 DEF WireIn
<1> QED BY <1>5 DEF p

\* One more frame for the page.
LEMMA StandsLonger ==
  ASSUME NEW q \in Seq(AskFrames), NEW f \in AskFrames, NEW n, NEW open, NEW w, NEW seen, NEW replied,
         StandsIn(n, open, w, q, seen, replied), f.type # "ready" => f.ask # n
  PROVE  StandsIn(n, open, w, Append(q, f), seen, replied)
<1> DEFINE p == Append(q, f)
<1>1. /\ p[Len(q) + 1] = f
      /\ \A i \in 1..Len(q) : p[i] = q[i] /\ i \in 1..Len(p)
      /\ \A i \in 1..Len(p) : i \in 1..Len(q) \/ i = Len(q) + 1
  BY LongerQueue
<1> HIDE DEF p
<1>2. /\ (\E i \in 1..Len(p) : Opens(p, i, n)) <=> \E i \in 1..Len(q) : Opens(q, i, n)
      /\ (\E i \in 1..Len(p) : Withdraws(p, i, n)) <=> \E i \in 1..Len(q) : Withdraws(q, i, n)
  BY <1>1 DEF Opens, Withdraws
<1>3. StandsIn(n, open, w, p, seen, replied)
  BY ONLY <1>2, StandsIn(n, open, w, q, seen, replied) DEF StandsIn
<1> QED BY <1>3 DEF p

\* One frame less to read, not the ask's withdrawal.
LEMMA StandsRead ==
  ASSUME NEW w \in Seq(AskWireFrames), w # <<>>, NEW n, NEW open, NEW q, NEW seen, NEW replied,
         StandsIn(n, open, w, q, seen, replied), ~Says(w, 1, "cancel", n[3])
  PROVE  StandsIn(n, open, Tail(w), q, seen, replied)
<1> DEFINE p == Tail(w)
<1>1. \A i \in 1..Len(w) : i # 1 => i - 1 \in 1..Len(p) /\ p[i - 1] = w[i]
  BY ShorterWire
<1> HIDE DEF p
<1>2. (\E i \in 1..Len(w) : Says(w, i, "cancel", n[3])) => \E i \in 1..Len(p) : Says(p, i, "cancel", n[3])
  BY <1>1 DEF Says
<1>3. StandsIn(n, open, p, q, seen, replied)
  BY ONLY <1>2, StandsIn(n, open, w, q, seen, replied) DEF StandsIn
<1> QED BY <1>3 DEF p

LEMMA QueuedLonger ==
  ASSUME AskTypes, AskQueued, AskSeen, NEW f \in AskFrames, askQueue' = Append(askQueue, f),
         UNCHANGED <<shown, given, heard>>, \A n \in Asks : Met(n) => Met(n)',
         f.type # "ready" => f.name = f.ask /\ Met(f.ask)',
         f.type = "waterfall" => ~Met(f.ask)
  PROVE  AskQueued' /\ AskSeen'
<1> DEFINE q == askQueue
           p == askQueue'
<1>1. /\ q \in Seq(AskFrames) /\ Len(q) \in Nat /\ p[Len(q) + 1] = f
      /\ \A i \in 1..Len(q) : p[i] = q[i] /\ i \in 1..Len(p)
      /\ \A i \in 1..Len(p) : i \in 1..Len(q) \/ i = Len(q) + 1
      /\ \A i \in 1..Len(q) : q[i].ask \in Asks
  <2>1. q \in Seq(AskFrames)
    BY DEF AskTypes
  <2>2. \A i \in 1..Len(q) : q[i] \in AskFrames
    BY <2>1
  <2> QED BY <2>1, <2>2, LongerQueue, AskFrameFields
<1>2. (\A s \in shown : s.ask \in Asks) /\ (\A a \in given \cup heard : a.ask \in Asks)
  BY DEF AskTypes
<1> HIDE DEF p
<1>3. /\ \A n : IsShown(n)' <=> IsShown(n)
      /\ \A n : IsAnswered(n)' <=> IsAnswered(n)
  BY DEF IsShown, IsAnswered
<1>4. AskSeen'
  BY <1>2, <1>3 DEF AskSeen
<1>5. ASSUME NEW i \in 1..Len(p), NEW x \in AskFrames, p[i] = x
      PROVE  /\ x.type # "ready" => x.name = x.ask /\ Met(x.ask)'
             /\ x.type = "waterfall" =>
                  /\ \A j \in 1..Len(p) : Opens(p, j, x.ask) => j = i
                  /\ \A j \in 1..(i - 1) : ~Withdraws(p, j, x.ask)
                  /\ ~IsShown(x.ask)' /\ ~IsAnswered(x.ask)'
  <2>1. CASE i \in 1..Len(q)
    <3>1. q[i] = x /\ x.ask \in Asks
      BY <1>1, <1>5, <2>1
    <3>2. /\ x.type # "ready" => x.name = x.ask /\ Met(x.ask)
          /\ x.type = "waterfall" =>
               /\ \A j \in 1..Len(q) : Opens(q, j, x.ask) => j = i
               /\ \A j \in 1..(i - 1) : ~Withdraws(q, j, x.ask)
               /\ ~IsShown(x.ask) /\ ~IsAnswered(x.ask)
      BY <2>1, <3>1 DEF AskQueued
    <3>3. x.type # "ready" => x.name = x.ask /\ Met(x.ask)'
      BY <3>1, <3>2
    <3>4. ASSUME x.type = "waterfall", NEW j \in 1..Len(p), Opens(p, j, x.ask) PROVE j = i
      <4>1. j # Len(q) + 1
        <5> SUFFICES ASSUME j = Len(q) + 1 PROVE FALSE
          OBVIOUS
        <5>1. f.type = "waterfall" /\ f.ask = x.ask
          BY <1>1, <3>4 DEF Opens
        <5> QED BY <3>2, <3>4, <5>1
      <4>2. j \in 1..Len(q) /\ Opens(q, j, x.ask)
        BY <1>1, <3>4, <4>1 DEF Opens
      <4> QED BY <3>2, <3>4, <4>2
    <3>5. ASSUME x.type = "waterfall", NEW j \in 1..(i - 1) PROVE ~Withdraws(p, j, x.ask)
      <4>1. j \in 1..Len(q)
        BY <1>1, <2>1
      <4> QED BY <1>1, <3>2, <3>5, <4>1 DEF Withdraws
    <3> QED BY <1>3, <3>1, <3>2, <3>3, <3>4, <3>5
  <2>2. CASE i = Len(q) + 1
    <3>1. x = f
      BY <1>1, <1>5, <2>2
    <3>2. ASSUME f.type = "waterfall"
          PROVE  /\ \A j \in 1..Len(q) : q[j].type # "ready" => q[j].ask # f.ask
                 /\ ~IsShown(f.ask) /\ ~IsAnswered(f.ask)
      <4>1. ~Met(f.ask)
        BY <3>2
      <4>2. \A j \in 1..Len(q) : q[j].type # "ready" => Met(q[j].ask)
        BY DEF AskQueued
      <4>3. (\A s \in shown : Met(s.ask)) /\ (\A a \in given \cup heard : Met(a.ask))
        BY DEF AskSeen
      <4> QED BY <4>1, <4>2, <4>3 DEF IsShown, IsAnswered
    <3>3. ASSUME f.type = "waterfall", NEW j \in 1..Len(p), Opens(p, j, f.ask) PROVE j = i
      BY <1>1, <2>2, <3>2, <3>3 DEF Opens
    <3>4. ASSUME f.type = "waterfall", NEW j \in 1..(i - 1) PROVE ~Withdraws(p, j, f.ask)
      <4>1. j \in 1..Len(q)
        BY <1>1, <2>2
      <4> QED BY <1>1, <3>2, <3>4, <4>1 DEF Withdraws
    <3> QED BY <1>3, <3>1, <3>2, <3>3, <3>4
  <2> QED BY <1>1, <2>1, <2>2
<1>6. \A i \in 1..Len(p) : p[i] \in AskFrames
  BY <1>1
<1>7. AskQueued'
  BY <1>5, <1>6 DEF AskQueued, p, Opens, Withdraws
<1> QED BY <1>4, <1>7

\* What a read changes of the rest.
LEMMA OthersRest ==
  ASSUME AskTypes, NEW h \in AskHosts, NEW g \in AskHosts, g # h, SameHost(g), AskStands(g),
         UNCHANGED <<shown, given, heard>>,
         \/ askQueue' = askQueue
         \/ \E f \in AskFrames : f.ask[1] = h /\ askQueue' = Append(askQueue, f)
  PROVE  AskStands(g)'
<1> SUFFICES ASSUME NEW x \in DOMAIN byRaw[g]
             PROVE  StandsIn(<<g, connects[g], x>>, hostAsks[g], askWire[g], askQueue', shown, given \cup heard)
  BY DEF AskStands, SameHost
<1>1. StandsIn(<<g, connects[g], x>>, hostAsks[g], askWire[g], askQueue, shown, given \cup heard)
  BY DEF AskStands
<1>2. CASE askQueue' = askQueue
  BY <1>1, <1>2
<1>3. CASE \E f \in AskFrames : f.ask[1] = h /\ askQueue' = Append(askQueue, f)
  <2>1. PICK f \in AskFrames : f.ask[1] = h /\ askQueue' = Append(askQueue, f)
    BY <1>3
  <2>2. f.ask # <<g, connects[g], x>>
    BY <2>1
  <2>3. askQueue \in Seq(AskFrames)
    BY DEF AskTypes
  <2> QED BY <1>1, <2>1, <2>2, <2>3, StandsLonger
<1> QED BY <1>2, <1>3

\* The hub reads a frame of a host.
LEMMA KeepsAskFrame ==
  ASSUME AskIInv, NEW h \in AskHosts, AskFrame(h)
  PROVE  AskIInv'
<1>0. /\ AskTypes /\ AskNamesOwn /\ AskQueued /\ AskSeen
      /\ \A g \in AskHosts : AskWireOf(g) /\ AskNamed(g) /\ AskStands(g)
  BY DEF AskIInv
<1> DEFINE named == DOMAIN byRaw[h]
           open == hostAsks[h]
           replied == given \cup heard
<1>1. PICK q : q = askWire[h]
  OBVIOUS
<1>2. PICK f : f = q[1]
  OBVIOUS
<1>3. PICK k : k = connects[h]
  OBVIOUS
<1>4. PICK c : c = client[h]
  OBVIOUS
<1>5. /\ q \in Seq(AskWireFrames) /\ q # <<>> /\ Head(askWire[h]) = f /\ f \in AskWireFrames /\ 1 \in 1..Len(q)
      /\ k \in Nat /\ c \in Nat /\ offers[h] \in Nat
      /\ Tail(q) \in Seq(AskWireFrames)
  <2>1. q \in Seq(AskWireFrames) /\ q # <<>>
    BY <1>0, <1>1 DEF AskTypes, AskFrame
  <2>2. k \in Nat /\ c \in Nat /\ offers[h] \in Nat
    BY <1>0, <1>3, <1>4 DEF AskTypes
  <2> QED BY <1>1, <1>2, <2>1, <2>2, ShorterWire
<1>6. f.type \in {"ready", "waterfall", "cancel"} /\ f.id \in Nat
  BY <1>5, AskWireFields
<1>7. WireIn(q, k, c, offers[h], open, named)
  BY <1>0, <1>1, <1>3, <1>4 DEF AskWireOf
<1>8. /\ k # 0
      /\ f.type = "ready" => f.id = k /\ c = 0
      /\ f.type # "ready" => c = k /\ f.id \in 1..offers[h]
      /\ f.type = "waterfall" => f.id \notin named
      /\ f.type = "cancel" => f.id \notin open /\ f.id \in named
  <2>1. k # 0
    BY <1>5, <1>7 DEF WireIn
  <2>2. /\ f.type = "ready" => f.id = k /\ c = 0
        /\ f.type # "ready" => (1 > 1 \/ c # 0) /\ f.id \in 1..offers[h]
        /\ f.type = "waterfall" => f.id \notin named
        /\ f.type = "cancel" =>
             f.id \notin open /\ (f.id \in named \/ \E j \in 1..(1 - 1) : Says(q, j, "waterfall", f.id))
    BY <1>2, <1>5, <1>7 DEF WireIn
  <2>3. c \in {0, k}
    BY <1>0, <1>3, <1>4 DEF AskNamed
  <2> QED BY <2>1, <2>2, <2>3
<1>9. /\ askWire' = [askWire EXCEPT ![h] = Tail(q)]
      /\ UNCHANGED <<hostAsks, shown, given, heard, pageReady, connects, offers>>
  BY <1>1 DEF AskFrame
<1>10. askWire' \in [AskHosts -> Seq(AskWireFrames)] /\ askWire'[h] = Tail(q)
  BY <1>0, <1>5, <1>9 DEF AskTypes
<1>11. askQueue \in Seq(AskFrames)
  BY <1>0 DEF AskTypes
<1>12. CASE f.type = "ready"
  <2> DEFINE F == [type |-> f.type, name |-> <<h, 0, 0>>, ask |-> <<h, c, f.id>>]
  <2>1. /\ client' = [client EXCEPT ![h] = k] /\ byRaw' = [byRaw EXCEPT ![h] = <<>>] /\ mappings' = mappings
        /\ askQueue' = Append(askQueue, F)
    BY <1>4, <1>5, <1>8, <1>12 DEF AskFrame, Named
  <2>2. F \in AskFrames /\ F.type = "ready" /\ F.ask[1] = h
    BY <1>5, <1>6, <1>12 DEF AskFrames, Asks
  <2> HIDE DEF F
  <2>3. named = {}
    BY <1>0, <1>4, <1>8, <1>12 DEF AskNamed
  <2>4. <<>> \in AskNamings /\ DOMAIN <<>> = {}
    <3>1. <<>> \in [{} -> Asks]
      OBVIOUS
    <3> QED BY <3>1 DEF AskNamings
  <2>5. /\ client'[h] = k /\ DOMAIN byRaw'[h] = {}
        /\ \A g \in AskHosts : g # h => SameHost(g)
    BY <1>0, <1>9, <2>1, <2>4 DEF AskTypes, SameHost
  <2>6. askQueue' \in Seq(AskFrames)
    BY <1>11, <2>1, <2>2, LongerQueue
  <2>7. AskTypes'
    BY <1>0, <1>5, <1>9, <1>10, <2>1, <2>4, <2>6 DEF AskTypes
  <2>8. \A n \in Asks : Met(n) => Met(n)'
    <3> SUFFICES ASSUME NEW n \in Asks, Met(n) PROVE Met(n)'
      OBVIOUS
    <3>1. n[1] \in AskHosts
      BY AskParts
    <3>2. DOMAIN byRaw'[n[1]] = DOMAIN byRaw[n[1]]
      BY <2>3, <2>5, <3>1 DEF SameHost
    <3> QED BY <1>9, <3>2 DEF Met
  <2>9. AskQueued' /\ AskSeen'
    BY <1>0, <1>9, <2>1, <2>2, <2>8, QueuedLonger
  <2>10. AskNamesOwn'
    BY <1>0, <2>1 DEF AskNamesOwn
  <2>11. AskWireOf(h)'
    <3>1. WireIn(Tail(q), k, k, offers[h], open, named)
      BY <1>2, <1>5, <1>7, <1>8, <1>12, WireRead
    <3> QED BY <1>3, <1>9, <1>10, <2>3, <2>5, <3>1 DEF AskWireOf
  <2>12. AskNamed(h)' /\ AskStands(h)'
    BY <1>0, <1>3, <1>9, <2>5 DEF AskNamed, AskStands
  <2>13. ASSUME NEW g \in AskHosts PROVE AskWireOf(g)' /\ AskNamed(g)' /\ AskStands(g)'
    <3>1. CASE g = h
      BY <2>11, <2>12, <3>1
    <3>2. CASE g # h
      BY <1>0, <1>9, <2>1, <2>2, <2>5, <3>2, WireRests, NamedRests, OthersRest
    <3> QED BY <3>1, <3>2
  <2> QED BY <2>7, <2>9, <2>10, <2>13 DEF AskIInv
<1>13. CASE f.type = "waterfall"
  <2>1. PICK n : n = <<h, k, f.id>>
    OBVIOUS
  <2>2. n \in Asks /\ n[1] = h /\ n[2] = k /\ n[3] = f.id
    BY <1>5, <1>6, <2>1 DEF Asks
  <2> DEFINE B == [i \in named \cup {f.id} |-> IF i = f.id THEN n ELSE byRaw[h][i]]
             F == [type |-> f.type, name |-> n, ask |-> n]
  <2>3. /\ c = k
        /\ byRaw' = [byRaw EXCEPT ![h] = B]
        /\ mappings' = [m \in DOMAIN mappings \cup {n} |-> IF m = n THEN n ELSE mappings[m]]
        /\ client' = client
    <3>1. c = k /\ Synthetic(h, client[h], f.id) = n /\ <<h, client[h], f.id>> = n
      BY <1>4, <1>8, <1>13, <2>1 DEF Synthetic
    <3> QED BY <1>5, <1>13, <3>1 DEF AskFrame, AskNames
  <2>4. byRaw \in [AskHosts -> AskNamings] /\ byRaw'[h] = B /\ B[f.id] = n
    BY <1>0, <2>3 DEF AskTypes
  <2>5. askQueue' = Append(askQueue, F)
    <3>1. Named(h, f) = F
      BY <1>4, <1>13, <2>1, <2>3, <2>4 DEF Named
    <3> QED BY <1>5, <1>13, <3>1 DEF AskFrame
  <2>6. F \in AskFrames /\ F.type = "waterfall" /\ F.name = n /\ F.ask = n
    BY <1>13, <2>2 DEF AskFrames
  <2> HIDE DEF F
  <2>7. B \in AskNamings /\ DOMAIN B = named \cup {f.id} /\ \A i \in named : B[i] = byRaw[h][i]
    <3>1. PICK D \in SUBSET Nat : byRaw[h] \in [D -> Asks]
      BY <2>4 DEF AskNamings
    <3>2. named = D
      BY <3>1
    <3>3. B \in [D \cup {f.id} -> Asks] /\ D \cup {f.id} \in SUBSET Nat
      BY <1>6, <2>2, <3>1, <3>2
    <3>4. f.id \notin named
      BY <1>8, <1>13
    <3> QED BY <3>3, <3>4 DEF AskNamings
  <2> HIDE DEF B
  <2>8. \A g \in AskHosts : g # h => SameHost(g)
    BY <1>0, <1>9, <2>3 DEF AskTypes, SameHost
  <2>9. askQueue' \in Seq(AskFrames)
    BY <1>11, <2>5, <2>6, LongerQueue
  <2>10. AskTypes'
    <3>1. byRaw' \in [AskHosts -> AskNamings]
      BY <2>3, <2>4, <2>7
    <3> QED BY <1>0, <1>9, <1>10, <2>3, <2>9, <3>1 DEF AskTypes
  <2>11. /\ ~Met(n) /\ Met(n)'
         /\ \A m \in Asks : Met(m) => Met(m)'
    <3>1. ~Met(n)
      BY <1>3, <1>5, <1>8, <1>13, <2>2 DEF Met
    <3>2. Met(n)'
      BY <1>3, <1>9, <2>2, <2>4, <2>7 DEF Met
    <3>3. ASSUME NEW m \in Asks, Met(m) PROVE Met(m)'
      <4>1. m[1] \in AskHosts
        BY AskParts
      <4>2. DOMAIN byRaw[m[1]] \subseteq DOMAIN byRaw'[m[1]]
        BY <2>4, <2>7, <2>8, <4>1 DEF SameHost
      <4> QED BY <1>9, <3>3, <4>2 DEF Met
    <3> QED BY <3>1, <3>2, <3>3
  <2>12. AskQueued' /\ AskSeen'
    BY <1>0, <1>9, <2>5, <2>6, <2>11, QueuedLonger
  <2>13. /\ DOMAIN mappings' = DOMAIN mappings \cup {n} /\ AskNamesOwn'
    BY <1>0, <2>2, <2>3 DEF AskNamesOwn
  <2>14. AskWireOf(h)'
    <3>1. WireIn(Tail(q), k, k, offers[h], open, named \cup {f.id})
      BY <1>2, <1>5, <1>7, <1>8, <1>13, WireRead
    <3> QED BY <1>3, <1>4, <1>9, <1>10, <2>3, <2>4, <2>7, <3>1 DEF AskWireOf
  <2>15. AskNamed(h)'
    <3>1. ASSUME NEW id \in named \cup {f.id}
          PROVE  B[id] = <<h, k, id>> /\ id \in 1..offers[h] /\ <<h, k, id>> \in DOMAIN mappings'
      <4>1. CASE id = f.id
        BY <1>8, <1>13, <2>1, <2>4, <2>13, <4>1
      <4>2. CASE id \in named
        BY <1>0, <1>3, <2>7, <2>13, <4>2 DEF AskNamed
      <4> QED BY <4>1, <4>2
    <3>2. client'[h] = k /\ connects'[h] = k /\ hostAsks'[h] \subseteq 1..offers'[h] /\ offers'[h] = offers[h]
      BY <1>0, <1>3, <1>4, <1>9, <2>3 DEF AskNamed
    <3>3. byRaw'[h] = B /\ DOMAIN B = named \cup {f.id}
      BY <2>4, <2>7
    <3> QED BY <1>8, <3>1, <3>2, <3>3 DEF AskNamed
  <2>16. AskStands(h)'
    <3>1. ASSUME NEW id \in named
          PROVE  StandsIn(<<h, k, id>>, open, Tail(q), askQueue', shown, replied)
      <4> DEFINE m == <<h, k, id>>
      <4>1. StandsIn(m, open, q, askQueue, shown, replied)
        BY <1>0, <1>1, <1>3 DEF AskStands
      <4>2. m # n /\ m[3] = id
        BY <1>8, <1>13, <2>1
      <4> HIDE DEF m
      <4>3. ~Says(q, 1, "cancel", m[3])
        BY <1>2, <1>13 DEF Says
      <4>4. StandsIn(m, open, Tail(q), askQueue, shown, replied)
        BY <1>5, <4>1, <4>3, StandsRead
      <4>5. StandsIn(m, open, Tail(q), Append(askQueue, F), shown, replied)
        BY <1>11, <2>6, <4>2, <4>4, StandsLonger
      <4> QED BY <2>5, <4>5 DEF m
    <3>2. StandsIn(n, open, Tail(q), askQueue', shown, replied)
      <4> DEFINE p == askQueue'
      <4>1. /\ p[Len(askQueue) + 1] = F /\ Len(askQueue) + 1 \in 1..Len(p)
            /\ \A i \in 1..Len(askQueue) : p[i] = askQueue[i]
            /\ \A i \in 1..Len(p) : i \in 1..Len(askQueue) \/ i = Len(askQueue) + 1
        BY <1>11, <2>5, <2>6, LongerQueue
      <4>2. Opens(p, Len(askQueue) + 1, n)
        BY <2>6, <4>1 DEF Opens
      <4>3. \A i \in 1..Len(p) : ~Withdraws(p, i, n)
        <5>1. \A i \in 1..Len(askQueue) : ~Withdraws(askQueue, i, n)
          BY <1>0, <2>11 DEF AskQueued, Withdraws
        <5> QED BY <2>6, <4>1, <5>1 DEF Withdraws
      <4>4. f.id \notin open => \E i \in 1..Len(Tail(q)) : Says(Tail(q), i, "cancel", f.id)
        <5> SUFFICES ASSUME f.id \notin open
                     PROVE  \E i \in 1..Len(Tail(q)) : Says(Tail(q), i, "cancel", f.id)
          OBVIOUS
        <5>1. PICK i \in 1..Len(q) : Says(q, i, "cancel", f.id)
          BY <1>7, <1>8, <1>13 DEF WireIn
        <5>2. i # 1
          BY <1>2, <1>13, <5>1 DEF Says
        <5>3. i - 1 \in 1..Len(Tail(q)) /\ Tail(q)[i - 1] = q[i]
          BY <1>5, <5>2, ShorterWire
        <5> QED BY <5>1, <5>3 DEF Says
      <4>5. n[3] = f.id
        BY <2>2
      <4> HIDE DEF p
      <4>6. StandsIn(n, open, Tail(q), p, shown, replied)
        BY ONLY <4>1, <4>2, <4>3, <4>4, <4>5 DEF StandsIn
      <4> QED BY <4>6 DEF p
    <3>3. ASSUME NEW id \in DOMAIN B
          PROVE  StandsIn(<<h, k, id>>, open, Tail(q), askQueue', shown, replied)
      BY <2>1, <2>7, <3>1, <3>2
    <3>4. /\ byRaw'[h] = B /\ connects'[h] = k /\ hostAsks'[h] = open /\ askWire'[h] = Tail(q)
          /\ shown' = shown /\ given' \cup heard' = replied
      BY <1>3, <1>9, <1>10, <2>4
    <3> QED BY <3>3, <3>4 DEF AskStands
  <2>17. ASSUME NEW g \in AskHosts PROVE AskWireOf(g)' /\ AskNamed(g)' /\ AskStands(g)'
    <3>1. CASE g = h
      BY <2>14, <2>15, <2>16, <3>1
    <3>2. CASE g # h
      BY <1>0, <1>9, <2>2, <2>5, <2>6, <2>8, <2>13, <3>2, WireRests, NamedRests, OthersRest
    <3> QED BY <3>1, <3>2
  <2> QED BY <2>10, <2>12, <2>13, <2>17 DEF AskIInv
<1>14. CASE f.type = "cancel"
  <2>1. PICK n : n = <<h, k, f.id>>
    OBVIOUS
  <2>2. n \in Asks /\ n[1] = h /\ n[2] = k /\ n[3] = f.id
    BY <1>5, <1>6, <2>1 DEF Asks
  <2> DEFINE F == [type |-> f.type, name |-> n, ask |-> n]
  <2>3. /\ UNCHANGED <<client, byRaw, mappings>>
        /\ byRaw[h][f.id] = n /\ c = k
    BY <1>0, <1>3, <1>5, <1>8, <1>14, <2>1 DEF AskFrame, AskNamed
  <2>4. askQueue' = Append(askQueue, F)
    <3>1. Named(h, f) = F
      BY <1>4, <1>14, <2>1, <2>3 DEF Named
    <3> QED BY <1>5, <1>8, <1>14, <3>1 DEF AskFrame
  <2>5. F \in AskFrames /\ F.type = "cancel" /\ F.name = n /\ F.ask = n
    BY <1>14, <2>2 DEF AskFrames
  <2> HIDE DEF F
  <2>6. \A g \in AskHosts : g # h => SameHost(g)
    BY <1>0, <1>9, <2>3 DEF AskTypes, SameHost
  <2>7. askQueue' \in Seq(AskFrames)
    BY <1>11, <2>4, <2>5, LongerQueue
  <2>8. AskTypes'
    BY <1>0, <1>9, <1>10, <2>3, <2>7 DEF AskTypes
  <2>9. Met(n)' /\ \A m \in Asks : Met(m) => Met(m)'
    <3>1. Met(n)
      BY <1>3, <1>8, <1>14, <2>2 DEF Met
    <3>2. \A m : Met(m)' <=> Met(m)
      BY <1>9, <2>3 DEF Met
    <3> QED BY <3>1, <3>2
  <2>10. AskQueued' /\ AskSeen'
    BY <1>0, <1>9, <2>4, <2>5, <2>9, QueuedLonger
  <2>11. AskNamesOwn'
    BY <1>0, <2>3 DEF AskNamesOwn
  <2>12. AskWireOf(h)'
    <3>1. WireIn(Tail(q), k, k, offers[h], open, named)
      BY <1>2, <1>5, <1>7, <1>8, <1>14, WireRead
    <3> QED BY <1>3, <1>4, <1>9, <1>10, <2>3, <3>1 DEF AskWireOf
  <2>13. AskNamed(h)'
    BY <1>0, <1>9, <2>3 DEF AskNamed
  <2>14. AskStands(h)'
    <3> SUFFICES ASSUME NEW id \in named
                 PROVE  StandsIn(<<h, k, id>>, open, Tail(q), askQueue', shown, replied)
      BY <1>3, <1>9, <1>10, <2>3 DEF AskStands
    <3> DEFINE m == <<h, k, id>>
    <3>1. StandsIn(m, open, q, askQueue, shown, replied)
      BY <1>0, <1>1, <1>3 DEF AskStands
    <3>2. m[3] = id /\ (id # f.id => m # n) /\ (id = f.id => m = n)
      BY <2>1
    <3> HIDE DEF m
    <3>3. CASE id # f.id
      <4>1. ~Says(q, 1, "cancel", m[3])
        BY <1>2, <3>2, <3>3 DEF Says
      <4>2. StandsIn(m, open, Tail(q), askQueue, shown, replied)
        BY <1>5, <3>1, <4>1, StandsRead
      <4>3. StandsIn(m, open, Tail(q), Append(askQueue, F), shown, replied)
        BY <1>11, <2>5, <3>2, <3>3, <4>2, StandsLonger
      <4> QED BY <2>4, <4>3 DEF m
    <3>4. CASE id = f.id
      <4> DEFINE p == askQueue'
      <4>1. p[Len(askQueue) + 1] = F /\ Len(askQueue) + 1 \in 1..Len(p)
        BY <1>11, <2>4, <2>5, LongerQueue
      <4>2. Withdraws(p, Len(askQueue) + 1, m)
        BY <2>5, <3>2, <3>4, <4>1 DEF Withdraws
      <4>3. m[3] \notin open
        BY <1>8, <1>14, <3>2, <3>4
      <4> HIDE DEF p
      <4>4. StandsIn(m, open, Tail(q), p, shown, replied)
        BY ONLY <4>1, <4>2, <4>3 DEF StandsIn
      <4> QED BY <4>4 DEF p, m
    <3> QED BY <3>3, <3>4
  <2>15. ASSUME NEW g \in AskHosts PROVE AskWireOf(g)' /\ AskNamed(g)' /\ AskStands(g)'
    <3>1. CASE g = h
      BY <2>12, <2>13, <2>14, <3>1
    <3>2. CASE g # h
      BY <1>0, <1>9, <2>2, <2>3, <2>4, <2>5, <2>6, <3>2, WireRests, NamedRests, OthersRest
    <3> QED BY <3>1, <3>2
  <2> QED BY <2>8, <2>10, <2>11, <2>15 DEF AskIInv
<1> QED BY <1>6, <1>12, <1>13, <1>14

-----------------------------------------------------------------------------
(* The page. *)

\* One frame less for the page, which shows now what it says.
LEMMA StandsShown ==
  ASSUME NEW q \in Seq(AskFrames), q # <<>>, NEW n, NEW open, NEW w, NEW seen, NEW seen2, NEW replied,
         StandsIn(n, open, w, q, seen, replied),
         Opens(q, 1, n) => \E s \in seen2 : s.ask = n,
         Withdraws(q, 1, n) => /\ \A s \in seen2 : s.ask # n
                               /\ \A i \in 1..Len(q) : i # 1 => ~Opens(q, i, n),
         ~Opens(q, 1, n) /\ ~Withdraws(q, 1, n) =>
           ((\E s \in seen2 : s.ask = n) <=> \E s \in seen : s.ask = n)
  PROVE  StandsIn(n, open, w, Tail(q), seen2, replied)
<1> DEFINE p == Tail(q)
<1>1. /\ 1 \in 1..Len(q)
      /\ \A i \in 1..Len(p) : p[i] = q[i + 1] /\ i + 1 \in 1..Len(q) /\ i + 1 # 1
      /\ \A i \in 1..Len(q) : i # 1 => i - 1 \in 1..Len(p) /\ p[i - 1] = q[i]
  <2>1. \A i \in 1..Len(p) : i + 1 # 1
    OBVIOUS
  <2> QED BY <2>1, ShorterQueue
<1> HIDE DEF p
<1>2. /\ (\E i \in 1..Len(q) : Opens(q, i, n)) => Opens(q, 1, n) \/ \E i \in 1..Len(p) : Opens(p, i, n)
      /\ (\E i \in 1..Len(p) : Opens(p, i, n)) => \E i \in 1..Len(q) : i # 1 /\ Opens(q, i, n)
      /\ (\E i \in 1..Len(q) : Withdraws(q, i, n)) =>
           Withdraws(q, 1, n) \/ \E i \in 1..Len(p) : Withdraws(p, i, n)
      /\ (\E i \in 1..Len(p) : Withdraws(p, i, n)) => \E i \in 1..Len(q) : Withdraws(q, i, n)
      /\ Opens(q, 1, n) => \E i \in 1..Len(q) : Opens(q, i, n)
      /\ Withdraws(q, 1, n) => \E i \in 1..Len(q) : Withdraws(q, i, n)
  <2>2. \A i \in 1..Len(p) : /\ Opens(p, i, n) => Opens(q, i + 1, n)
                             /\ Withdraws(p, i, n) => Withdraws(q, i + 1, n)
    BY <1>1 DEF Opens, Withdraws
  <2>3. ASSUME NEW i \in 1..Len(q), Opens(q, i, n), ~Opens(q, 1, n) PROVE \E j \in 1..Len(p) : Opens(p, j, n)
    <3>1. i # 1
      BY <2>3
    <3>2. i - 1 \in 1..Len(p)
      BY <1>1, <3>1
    <3>3. Opens(p, i - 1, n)
      BY <1>1, <2>3, <3>1 DEF Opens
    <3> QED BY <3>2, <3>3
  <2>4. ASSUME NEW i \in 1..Len(q), Withdraws(q, i, n), ~Withdraws(q, 1, n)
        PROVE  \E j \in 1..Len(p) : Withdraws(p, j, n)
    <3>1. i # 1
      BY <2>4
    <3>2. i - 1 \in 1..Len(p)
      BY <1>1, <3>1
    <3>3. Withdraws(p, i - 1, n)
      BY <1>1, <2>4, <3>1 DEF Withdraws
    <3> QED BY <3>2, <3>3
  <2>5. (\E i \in 1..Len(p) : Opens(p, i, n)) => \E i \in 1..Len(q) : i # 1 /\ Opens(q, i, n)
    BY <1>1, <2>2
  <2>6. (\E i \in 1..Len(p) : Withdraws(p, i, n)) => \E i \in 1..Len(q) : Withdraws(q, i, n)
    BY <1>1, <2>2
  <2> QED BY <1>1, <2>3, <2>4, <2>5, <2>6
<1>3. CASE n[3] \in open
  <2>1. (\A i \in 1..Len(p) : ~Withdraws(p, i, n)) /\ ~Withdraws(q, 1, n)
    BY <1>2, <1>3 DEF StandsIn
  <2>2. \/ \E i \in 1..Len(p) : Opens(p, i, n)
        \/ \E s \in seen2 : s.ask = n
        \/ \E a \in replied : a.ask = n
    BY <1>2, <1>3, <2>1 DEF StandsIn
  <2>3. StandsIn(n, open, w, p, seen2, replied)
    BY ONLY <1>3, <2>1, <2>2 DEF StandsIn
  <2> QED BY <2>3 DEF p
<1>4. CASE n[3] \notin open
  <2>1. \/ \E i \in 1..Len(w) : Says(w, i, "cancel", n[3])
        \/ \E i \in 1..Len(p) : Withdraws(p, i, n)
        \/ (\A s \in seen2 : s.ask # n) /\ (\A i \in 1..Len(p) : ~Opens(p, i, n))
    BY <1>2, <1>4 DEF StandsIn
  <2>2. StandsIn(n, open, w, p, seen2, replied)
    BY ONLY <1>4, <2>1 DEF StandsIn
  <2> QED BY <2>2 DEF p
<1> QED BY <1>3, <1>4

\* The page reads a frame.
LEMMA KeepsPageFrame ==
  ASSUME AskIInv, PageFrame
  PROVE  AskIInv'
<1>0. /\ AskTypes /\ AskNamesOwn /\ AskQueued /\ AskSeen
      /\ \A g \in AskHosts : AskWireOf(g) /\ AskNamed(g) /\ AskStands(g)
  BY DEF AskIInv
<1>1. PICK q : q = askQueue
  OBVIOUS
<1>2. PICK f : f = q[1]
  OBVIOUS
<1> DEFINE p == Tail(q)
<1>3. /\ q \in Seq(AskFrames) /\ q # <<>> /\ Head(askQueue) = f /\ f \in AskFrames
      /\ p \in Seq(AskFrames) /\ 1 \in 1..Len(q) /\ Len(q) \in Nat /\ Len(p) = Len(q) - 1
      /\ \A i \in 1..Len(p) : p[i] = q[i + 1] /\ i + 1 \in 1..Len(q)
  <2>1. q \in Seq(AskFrames) /\ q # <<>>
    BY <1>0, <1>1 DEF AskTypes, PageFrame
  <2> QED BY <1>1, <1>2, <2>1, ShorterQueue
<1>4. f.type \in {"ready", "waterfall", "cancel"} /\ f.name \in Asks /\ f.ask \in Asks
  BY <1>3, AskFrameFields
<1> DEFINE new == [name |-> f.name, ask |-> f.ask]
           left == {s \in shown : s.name # f.name}
<1>5. /\ askQueue' = p
      /\ shown' = CASE f.type = "waterfall" -> left \cup {new}
                    [] f.type = "cancel"    -> left
                    [] OTHER                -> shown
      /\ UNCHANGED <<hostAsks, client, askWire, mappings, byRaw, given, heard, connects, offers>>
  BY <1>1, <1>3 DEF PageFrame
<1>6. /\ f.type # "ready" => f.name = f.ask /\ Met(f.ask)
      /\ f.type = "waterfall" =>
           /\ \A j \in 1..Len(q) : Opens(q, j, f.ask) => j = 1
           /\ ~IsShown(f.ask) /\ ~IsAnswered(f.ask)
  BY <1>0, <1>1, <1>2, <1>3 DEF AskQueued
<1>7. \A s \in shown : s \in [name : Asks, ask : Asks] /\ s.name = s.ask /\ Met(s.ask) /\ ~IsAnswered(s.ask)
  BY <1>0 DEF AskTypes, AskSeen
<1>8. new \in [name : Asks, ask : Asks] /\ new.name = f.name /\ new.ask = f.ask
  BY <1>4
<1> HIDE DEF new
<1>9. /\ f.type = "waterfall" => shown' = {s \in shown : s.ask # f.ask} \cup {new}
      /\ f.type = "cancel" => shown' = {s \in shown : s.ask # f.ask}
      /\ f.type = "ready" => shown' = shown
  BY <1>4, <1>5, <1>6, <1>7
<1>10. \A n : IsAnswered(n)' <=> IsAnswered(n)
  BY <1>5 DEF IsAnswered
<1>11. \A n : Met(n)' <=> Met(n)
  BY <1>5 DEF Met
<1>12. /\ f.type = "waterfall" => IsShown(f.ask)'
       /\ f.type = "cancel" => ~IsShown(f.ask)'
       /\ \A n : n # f.ask \/ f.type = "ready" => (IsShown(n)' <=> IsShown(n))
  BY <1>4, <1>8, <1>9 DEF IsShown
<1> HIDE DEF p
<1>13. AskTypes'
  <2>1. shown' \subseteq [name : Asks, ask : Asks]
    BY <1>4, <1>7, <1>8, <1>9
  <2> QED BY <1>0, <1>3, <1>5, <2>1 DEF AskTypes
<1>14. AskSeen'
  <2>1. ASSUME NEW s \in shown' PROVE s.name = s.ask /\ Met(s.ask) /\ ~IsAnswered(s.ask)
    <3>1. CASE s \in shown
      BY <1>7, <3>1
    <3>2. CASE s \notin shown
      <4>1. f.type = "waterfall" /\ s = new
        BY <1>4, <1>9, <2>1, <3>2
      <4> QED BY <1>6, <1>8, <4>1
    <3> QED BY <3>1, <3>2
  <2>2. \A a \in given \cup heard : a.to = a.ask /\ Met(a.ask)
    BY <1>0 DEF AskSeen
  <2>3. ASSUME NEW s \in shown' PROVE s.name = s.ask /\ Met(s.ask)' /\ ~IsAnswered(s.ask)'
    <3>1. PICK n : n = s.ask
      OBVIOUS
    <3> QED BY <1>10, <1>11, <2>1, <3>1
  <2>4. \A a \in given' \cup heard' : a.to = a.ask /\ Met(a.ask)'
    BY <1>5, <1>11, <2>2
  <2> QED BY <2>3, <2>4 DEF AskSeen
<1>15. ASSUME NEW i \in 1..Len(p), NEW x \in AskFrames, p[i] = x
       PROVE  /\ x.type # "ready" => x.name = x.ask /\ Met(x.ask)'
              /\ x.type = "waterfall" =>
                   /\ \A j \in 1..Len(p) : Opens(p, j, x.ask) => j = i
                   /\ \A j \in 1..(i - 1) : ~Withdraws(p, j, x.ask)
                   /\ ~IsShown(x.ask)' /\ ~IsAnswered(x.ask)'
  <2> DEFINE b == i + 1
  <2>1. q[b] = x /\ b \in 1..Len(q) /\ i \in Nat /\ i >= 1
    BY <1>3, <1>15
  <2>2. b # 1 /\ i = b - 1
    BY <2>1
  <2> HIDE DEF b
  <2>3. /\ x.type # "ready" => x.name = x.ask /\ Met(x.ask)
        /\ x.type = "waterfall" =>
             /\ \A j \in 1..Len(q) : Opens(q, j, x.ask) => j = b
             /\ \A j \in 1..(b - 1) : ~Withdraws(q, j, x.ask)
             /\ ~IsShown(x.ask) /\ ~IsAnswered(x.ask)
    BY <1>0, <1>1, <2>1 DEF AskQueued
  <2>4. ASSUME x.type = "waterfall", NEW j \in 1..Len(p), Opens(p, j, x.ask) PROVE j = i
    <3>1. Opens(q, j + 1, x.ask) /\ j + 1 \in 1..Len(q)
      BY <1>3, <2>4 DEF Opens
    <3> QED BY <2>2, <2>3, <2>4, <3>1
  <2>5. ASSUME x.type = "waterfall", NEW j \in 1..(i - 1) PROVE ~Withdraws(p, j, x.ask)
    <3>1. j \in 1..Len(p) /\ j + 1 \in 1..(b - 1)
      BY <1>3, <2>1, <2>2
    <3> QED BY <1>3, <2>3, <2>5, <3>1 DEF Withdraws
  <2>6. ASSUME x.type = "waterfall" PROVE ~IsShown(x.ask)' /\ ~IsAnswered(x.ask)'
    <3>1. f.type # "waterfall" \/ f.ask # x.ask
      BY <1>2, <1>3, <2>2, <2>3, <2>6 DEF Opens
    <3> QED BY <1>4, <1>10, <1>12, <2>3, <2>6, <3>1
  <2> QED BY <1>11, <2>3, <2>4, <2>5, <2>6
<1>16. AskQueued'
  <2>1. \A i \in 1..Len(p) : p[i] \in AskFrames
    BY <1>3
  <2> QED BY <1>5, <1>15, <2>1 DEF AskQueued, Opens, Withdraws
<1>17. AskNamesOwn'
  BY <1>0, <1>5 DEF AskNamesOwn
<1>18. ASSUME NEW g \in AskHosts PROVE AskWireOf(g)' /\ AskNamed(g)' /\ AskStands(g)'
  <2>1. AskWireOf(g)' /\ AskNamed(g)'
    BY <1>0, <1>5, WireRests, NamedRests DEF SameHost
  <2>2. AskStands(g)'
    <3> SUFFICES ASSUME NEW id \in DOMAIN byRaw[g]
                 PROVE  StandsIn(<<g, connects[g], id>>, hostAsks[g], askWire[g], p, shown', given \cup heard)
      BY <1>5 DEF AskStands
    <3>1. PICK n : n = <<g, connects[g], id>>
      OBVIOUS
    <3>2. StandsIn(n, hostAsks[g], askWire[g], q, shown, given \cup heard)
      BY <1>0, <1>1, <3>1 DEF AskStands
    <3>3. Opens(q, 1, n) => \E s \in shown' : s.ask = n
      BY <1>2, <1>12 DEF Opens, IsShown
    <3>4. ASSUME Withdraws(q, 1, n)
          PROVE  /\ \A s \in shown' : s.ask # n
                 /\ \A i \in 1..Len(q) : i # 1 => ~Opens(q, i, n)
      <4>1. \A s \in shown' : s.ask # n
        BY <1>2, <1>12, <3>4 DEF Withdraws, IsShown
      <4>2. ASSUME NEW i \in 1..Len(q), i # 1, Opens(q, i, n) PROVE FALSE
        <5>1. 1 \in 1..(i - 1)
          BY <1>3, <4>2
        <5> QED BY <1>0, <1>1, <3>4, <4>2, <5>1 DEF AskQueued, Opens
      <4> QED BY <4>1, <4>2
    <3>5. ~Opens(q, 1, n) /\ ~Withdraws(q, 1, n) =>
            ((\E s \in shown' : s.ask = n) <=> \E s \in shown : s.ask = n)
      BY <1>2, <1>4, <1>12 DEF Opens, Withdraws, IsShown
    <3>6. StandsIn(n, hostAsks[g], askWire[g], Tail(q), shown', given \cup heard)
      BY <1>3, <3>2, <3>3, <3>4, <3>5, StandsShown
    <3> QED BY <3>1, <3>6 DEF p
  <2> QED BY <2>1, <2>2
<1> QED BY <1>13, <1>14, <1>16, <1>17, <1>18 DEF AskIInv

\* The user answers what the page shows.
LEMMA KeepsAnswer ==
  ASSUME AskIInv, NEW s \in shown, Answer(s)
  PROVE  AskIInv'
<1>0. /\ AskTypes /\ AskNamesOwn /\ AskQueued /\ AskSeen
      /\ \A g \in AskHosts : AskWireOf(g) /\ AskNamed(g) /\ AskStands(g)
  BY DEF AskIInv
<1>1. PICK n : n = s.ask
  OBVIOUS
<1>2. n \in Asks /\ s.name = n /\ Met(n) /\ ~IsAnswered(n)
  BY <1>0, <1>1 DEF AskTypes, AskSeen
<1> DEFINE answer == [to |-> n, ask |-> n]
<1>3. /\ shown' = shown \ {s}
      /\ given' = IF n \in DOMAIN mappings THEN given \cup {answer} ELSE given
      /\ UNCHANGED <<hostAsks, client, askWire, mappings, byRaw, askQueue, heard, connects, offers>>
  BY <1>0, <1>1, <1>2 DEF Answer, AskNames, AskNamesOwn, hubSide
<1>4. answer \in [to : Asks, ask : Asks] /\ answer.to = n /\ answer.ask = n
  BY <1>2
<1> HIDE DEF answer
<1>5. AskTypes'
  BY <1>0, <1>3, <1>4 DEF AskTypes
<1>6. \A m : Met(m)' <=> Met(m)
  BY <1>3 DEF Met
<1>7. /\ \A m : IsShown(m)' => IsShown(m)
      /\ ~IsShown(n)'
      /\ \A m : m # n /\ IsShown(m) => IsShown(m)'
  <2>1. \A x \in shown : x.ask = n => x = s
    <3>1. \A x \in shown : x \in [name : Asks, ask : Asks] /\ x.name = x.ask
      BY <1>0 DEF AskTypes, AskSeen
    <3> QED BY <1>1, <3>1
  <2> QED BY <1>1, <1>3, <2>1 DEF IsShown
<1>8. /\ \A m : m # n => (IsAnswered(m)' <=> IsAnswered(m))
      /\ \A m : IsAnswered(m) => IsAnswered(m)'
      /\ n \in DOMAIN mappings => IsAnswered(n)'
  BY <1>3, <1>4 DEF IsAnswered
<1>9. AskSeen'
  <2>1. ASSUME NEW x \in shown' PROVE x.name = x.ask /\ Met(x.ask)' /\ ~IsAnswered(x.ask)'
    <3>1. PICK m : m = x.ask
      OBVIOUS
    <3>2. x \in shown /\ x.name = x.ask /\ Met(m) /\ ~IsAnswered(m)
      BY <1>0, <1>3, <3>1 DEF AskSeen
    <3>3. m # n
      BY <1>7, <3>1 DEF IsShown
    <3> QED BY <1>6, <1>8, <3>1, <3>2, <3>3
  <2>2. ASSUME NEW a \in given' \cup heard' PROVE a.to = a.ask /\ Met(a.ask)'
    <3>1. a \in given \cup heard \/ a = answer
      BY <1>3
    <3>2. a.to = a.ask /\ Met(a.ask)
      BY <1>0, <1>2, <1>4, <3>1 DEF AskSeen
    <3> QED BY <1>6, <3>2
  <2> QED BY <2>1, <2>2 DEF AskSeen
<1>10. AskQueued'
  <2>1. \A i \in 1..Len(askQueue) : askQueue[i].type = "waterfall" => askQueue[i].ask # n
    <3>1. IsShown(n)
      BY <1>1 DEF IsShown
    <3> QED BY <1>0, <3>1 DEF AskQueued
  <2>2. ASSUME NEW i \in 1..Len(askQueue), NEW x, askQueue[i] = x
        PROVE  /\ x.type # "ready" => x.name = x.ask /\ Met(x.ask)'
               /\ x.type = "waterfall" =>
                    /\ \A j \in 1..Len(askQueue) : Opens(askQueue, j, x.ask) => j = i
                    /\ \A j \in 1..(i - 1) : ~Withdraws(askQueue, j, x.ask)
                    /\ ~IsShown(x.ask)' /\ ~IsAnswered(x.ask)'
    <3>1. /\ x.type # "ready" => x.name = x.ask /\ Met(x.ask)
          /\ x.type = "waterfall" =>
               /\ \A j \in 1..Len(askQueue) : Opens(askQueue, j, x.ask) => j = i
               /\ \A j \in 1..(i - 1) : ~Withdraws(askQueue, j, x.ask)
               /\ ~IsShown(x.ask) /\ ~IsAnswered(x.ask)
      BY <1>0, <2>2 DEF AskQueued
    <3>2. x.type = "waterfall" => x.ask # n
      BY <2>1, <2>2
    <3> QED BY <1>6, <1>7, <1>8, <3>1, <3>2
  <2> QED BY <1>3, <2>2 DEF AskQueued, Opens, Withdraws
<1>11. AskNamesOwn'
  BY <1>0, <1>3 DEF AskNamesOwn
<1>12. ASSUME NEW g \in AskHosts PROVE AskWireOf(g)' /\ AskNamed(g)' /\ AskStands(g)'
  <2>1. AskWireOf(g)' /\ AskNamed(g)'
    BY <1>0, <1>3, WireRests, NamedRests DEF SameHost
  <2>2. AskStands(g)'
    <3> SUFFICES ASSUME NEW id \in DOMAIN byRaw[g]
                 PROVE  StandsIn(<<g, connects[g], id>>, hostAsks[g], askWire[g], askQueue, shown', given' \cup heard')
      BY <1>3 DEF AskStands
    <3>1. PICK m : m = <<g, connects[g], id>>
      OBVIOUS
    <3>2. StandsIn(m, hostAsks[g], askWire[g], askQueue, shown, given \cup heard)
      BY <1>0, <3>1 DEF AskStands
    \* The hub has the name of an ask of the present connection, and takes the answer.
    <3>3. m \in DOMAIN mappings
      BY <1>0, <3>1 DEF AskNamed
    <3>4. (\A x \in shown : x.ask # m) => \A x \in shown' : x.ask # m
      BY <1>3
    <3>5. (\E x \in shown : x.ask = m) => (\E x \in shown' : x.ask = m) \/ \E a \in given' \cup heard' : a.ask = m
      <4>1. CASE m = n
        <5>1. IsAnswered(n)'
          BY <1>8, <3>3, <4>1
        <5> QED BY <4>1, <5>1 DEF IsAnswered
      <4>2. CASE m # n
        BY <1>7, <4>2 DEF IsShown
      <4> QED BY <4>1, <4>2
    <3>6. (\E a \in given \cup heard : a.ask = m) => \E a \in given' \cup heard' : a.ask = m
      BY <1>8 DEF IsAnswered
    <3>7. StandsIn(m, hostAsks[g], askWire[g], askQueue, shown', given' \cup heard')
      BY ONLY <3>2, <3>4, <3>5, <3>6 DEF StandsIn
    <3> QED BY <3>1, <3>7
  <2> QED BY <2>1, <2>2
<1> QED BY <1>5, <1>9, <1>10, <1>11, <1>12 DEF AskIInv

-----------------------------------------------------------------------------
(* The results. *)

LEMMA AskStep == ASSUME AskIInv, [AsksNext]_askVars PROVE AskIInv'
<1>1. ASSUME NEW h \in AskHosts, Connect(h) PROVE AskIInv'
  BY <1>1, KeepsConnect
<1>2. ASSUME NEW h \in AskHosts, AskFrame(h) PROVE AskIInv'
  BY <1>2, KeepsAskFrame
<1>3. ASSUME NEW h \in AskHosts, AskOpened(h) PROVE AskIInv'
  BY <1>3, KeepsAskOpened
<1>4. ASSUME NEW h \in AskHosts, NEW id \in hostAsks[h], AskClosed(h, id) PROVE AskIInv'
  BY <1>4, KeepsAskClosed
<1>5. ASSUME NEW a \in given, AnswerArrives(a) PROVE AskIInv'
  BY <1>5, KeepsAnswerArrives
<1>6. ASSUME NEW s \in shown, Answer(s) PROVE AskIInv'
  BY <1>6, KeepsAnswer
<1>7. CASE PageFrame
  BY <1>7, KeepsPageFrame
<1>8. CASE UNCHANGED askVars
  <2>0. /\ AskTypes /\ AskNamesOwn /\ AskQueued /\ AskSeen
        /\ \A g \in AskHosts : AskWireOf(g) /\ AskNamed(g) /\ AskStands(g)
    BY DEF AskIInv
  <2>1. UNCHANGED <<hostAsks, client, askWire, mappings, byRaw, askQueue, shown, given, heard, connects, offers>>
    BY <1>8 DEF askVars
  <2>2. \A n : Met(n) <=> Met(n)'
    BY <2>1 DEF Met
  <2>3. AskTypes' /\ AskNamesOwn' /\ AskQueued' /\ AskSeen'
    <3>1. AskTypes'
      BY <2>0, <2>1 DEF AskTypes
    <3>2. AskNamesOwn'
      BY <2>0, <2>1 DEF AskNamesOwn
    <3> QED BY <2>0, <2>1, <2>2, <3>1, <3>2, PageRests
  <2>4. ASSUME NEW g \in AskHosts PROVE AskWireOf(g)' /\ AskNamed(g)' /\ AskStands(g)'
    BY <2>0, <2>1, WireRests, NamedRests, StandsRests DEF SameHost
  <2> QED BY <2>3, <2>4 DEF AskIInv
<1> QED BY <1>1, <1>2, <1>3, <1>4, <1>5, <1>6, <1>7, <1>8 DEF AsksNext

\* What the hub, the hosts and the page know of an ask fits together, in whatever order
\* hosts connect, asks come and go, and answers travel.
THEOREM AsksInvariantHolds == AsksSpec => []AskIInv
  BY AsksInitially, AskStep, PTL DEF AsksSpec

\* What the page shows or will show, by its queue.
LEMMA WillShow ==
  ASSUME AskIInv, NEW n, n \in PageWillShow(n[1])
  PROVE  /\ \A i \in 1..Len(askQueue) : ~Withdraws(askQueue, i, n)
         /\ (\E i \in 1..Len(askQueue) : Opens(askQueue, i, n)) \/ (\E s \in shown : s.ask = n)
<1> DEFINE q == askQueue
           U == {i \in 1..Len(q) : q[i].ask[1] = n[1]}
           js == {i \in U : q[i].ask = n /\ q[i].type # "ready"}
<1>1. Len(q) \in Nat
  BY DEF AskIInv, AskTypes
<1>2. IF js = {} THEN \E s \in shown : s.ask = n
      ELSE \E j \in js : q[j].type = "waterfall" /\ \A i \in js : i <= j
  BY DEF PageWillShow, Underway
<1>3. \A i \in 1..Len(q) : Withdraws(q, i, n) => i \in js
  BY DEF Withdraws
<1>4. \A j \in js : q[j].type = "waterfall" => j \in 1..Len(q) /\ Opens(q, j, n)
  BY DEF Opens
<1> HIDE DEF js
<1>5. CASE js = {}
  BY <1>2, <1>3, <1>5
<1>6. CASE js # {}
  <2>1. PICK j \in js : q[j].type = "waterfall" /\ \A i \in js : i <= j
    BY <1>2, <1>6
  <2>2. j \in 1..Len(q) /\ Opens(q, j, n)
    BY <1>4, <2>1
  <2>3. ASSUME NEW i \in 1..Len(q), Withdraws(q, i, n) PROVE FALSE
    <3>1. i <= j /\ i # j
      BY <1>3, <2>1, <2>2, <2>3 DEF Opens, Withdraws
    <3>2. i \in 1..(j - 1)
      BY <1>1, <2>2, <3>1
    <3> QED BY <2>2, <2>3, <3>2 DEF AskIInv, AskQueued, Opens
  <2> QED BY <2>2, <2>3
<1> QED BY <1>5, <1>6

\* What the page has to show, it does.
LEMMA ToShow ==
  ASSUME AskIInv, NEW n \in Asks,
         \A i \in 1..Len(askQueue) : ~Withdraws(askQueue, i, n),
         (\E i \in 1..Len(askQueue) : Opens(askQueue, i, n)) \/ (\E s \in shown : s.ask = n)
  PROVE  n \in PageWillShow(n[1])
<1> DEFINE q == askQueue
           U == {i \in 1..Len(q) : q[i].ask[1] = n[1]}
           js == {i \in U : q[i].ask = n /\ q[i].type # "ready"}
           known == {f.ask : f \in {q[i] : i \in U} \cup shown}
<1>1. \A i \in 1..Len(q) : q[i].type \in {"ready", "waterfall", "cancel"}
  <2>1. q \in Seq(AskFrames)
    BY DEF AskIInv, AskTypes
  <2>2. \A i \in 1..Len(q) : q[i] \in AskFrames
    BY <2>1
  <2> QED BY <2>2, AskFrameFields
<1>2. \A i \in 1..Len(q) : Opens(q, i, n) => i \in js /\ q[i] \in {q[j] : j \in U} /\ q[i].ask = n
  BY DEF Opens
<1>3. n \in known
  BY <1>2
<1>4. \A i \in js : i \in 1..Len(q) /\ Opens(q, i, n)
  BY <1>1 DEF Opens, Withdraws
<1>5. \A i, j \in js : i = j
  <2>1. AskQueued
    BY DEF AskIInv
  <2> QED BY <1>4, <2>1 DEF AskQueued, Opens
<1>6. IF js = {} THEN \E s \in shown : s.ask = n
      ELSE \E j \in js : q[j].type = "waterfall" /\ \A i \in js : i <= j
  <2>1. CASE js = {}
    BY <1>2, <2>1
  <2>2. CASE js # {}
    <3>1. PICK j \in js : TRUE
      BY <2>2
    <3>2. j \in Int /\ q[j].type = "waterfall"
      BY <1>4, <3>1 DEF Opens
    <3>3. \A i \in js : i <= j
      BY <1>5, <3>1, <3>2
    <3> QED BY <2>2, <3>1, <3>2, <3>3
  <2> QED BY <2>1, <2>2
<1> QED BY <1>3, <1>6 DEF PageWillShow, Underway

LEMMA AsksFit == ASSUME AskIInv PROVE AsksSound
<1>0. /\ AskTypes /\ AskNamesOwn /\ AskQueued /\ AskSeen
      /\ \A g \in AskHosts : AskWireOf(g) /\ AskNamed(g) /\ AskStands(g)
  BY DEF AskIInv
<1>1. AnswersRight
  BY <1>0 DEF AskSeen, AnswersRight
<1>2. ASSUME NEW h \in AskHosts, client[h] # 0, client[h] = connects[h], askWire[h] = <<>>
      PROVE  LET mine == {n \in PageWillShow(h) : n[1] = h /\ n[2] = client[h]}
                 replied == {a.ask : a \in given \cup heard} IN
             /\ {n[3] : n \in mine} \subseteq hostAsks[h]
             /\ \A id \in hostAsks[h] : <<h, client[h], id>> \in mine \cup replied
             /\ \A n \in mine : \E m \in AskNames(mappings) : mappings[m] = n
  <2> DEFINE mine == {n \in PageWillShow(h) : n[1] = h /\ n[2] = client[h]}
             replied == {a.ask : a \in given \cup heard}
             q == askQueue
  <2>1. /\ Len(askWire[h]) = 0
        /\ WireIn(askWire[h], connects[h], client[h], offers[h], hostAsks[h], DOMAIN byRaw[h])
    BY <1>0, <1>2 DEF AskWireOf
  <2>2. \A id \in hostAsks[h] : id \in DOMAIN byRaw[h]
    <3>1. hostAsks[h] \subseteq 1..offers[h]
      BY <1>0 DEF AskNamed
    <3> QED BY <2>1, <3>1 DEF WireIn
  <2>3. ASSUME NEW n \in mine
        PROVE  /\ n = <<h, connects[h], n[3]>> /\ n[3] \in DOMAIN byRaw[h] /\ n[3] \in hostAsks[h]
    <3>1. n \in PageWillShow(n[1]) /\ n[1] = h /\ n[2] = connects[h]
      BY <1>2
    <3>2. /\ \A i \in 1..Len(q) : ~Withdraws(q, i, n)
          /\ (\E i \in 1..Len(q) : Opens(q, i, n)) \/ (\E s \in shown : s.ask = n)
      BY <3>1, WillShow
    <3>3. n \in Asks /\ Met(n)
      <4>1. CASE \E i \in 1..Len(q) : Opens(q, i, n)
        <5>1. PICK i \in 1..Len(q) : Opens(q, i, n)
          BY <4>1
        <5>2. q \in Seq(AskFrames)
          BY <1>0 DEF AskTypes
        <5>3. q[i] \in AskFrames
          BY <5>2
        <5> QED BY <1>0, <5>1, <5>3, AskFrameFields DEF AskQueued, Opens
      <4>2. CASE \E s \in shown : s.ask = n
        BY <1>0, <4>2 DEF AskTypes, AskSeen
      <4> QED BY <3>2, <4>1, <4>2
    <3>4. n = <<h, connects[h], n[3]>>
      BY <3>1, <3>3, AskParts
    <3>5. n[3] \in DOMAIN byRaw[h]
      <4>1. connects[h] \in Nat
        BY <1>0 DEF AskTypes
      <4> QED BY <3>1, <3>3, <4>1 DEF Met
    <3>6. n[3] \in hostAsks[h]
      <4>1. StandsIn(n, hostAsks[h], askWire[h], q, shown, given \cup heard)
        BY <1>0, <3>4, <3>5 DEF AskStands
      <4> QED BY <2>1, <3>2, <4>1 DEF StandsIn
    <3> QED BY <3>4, <3>5, <3>6
  <2>4. {n[3] : n \in mine} \subseteq hostAsks[h]
    BY <2>3
  <2>5. \A n \in mine : \E m \in AskNames(mappings) : mappings[m] = n
    <3> SUFFICES ASSUME NEW n \in mine PROVE \E m \in AskNames(mappings) : mappings[m] = n
      OBVIOUS
    <3>1. n \in DOMAIN mappings
      BY <1>0, <2>3 DEF AskNamed
    <3> QED BY <1>0, <3>1 DEF AskNames, AskNamesOwn
  <2>6. ASSUME NEW id \in hostAsks[h] PROVE <<h, client[h], id>> \in mine \cup replied
    <3>1. PICK n : n = <<h, connects[h], id>>
      OBVIOUS
    <3>2. StandsIn(n, hostAsks[h], askWire[h], q, shown, given \cup heard)
      BY <1>0, <2>2, <2>6, <3>1 DEF AskStands
    <3>3. /\ n[1] = h /\ n[2] = connects[h] /\ n[3] = id /\ n \in Asks
      <4>1. connects[h] \in Nat /\ id \in Nat
        BY <1>0, <2>6 DEF AskTypes
      <4> QED BY <3>1, <4>1 DEF Asks
    <3>4. /\ \A i \in 1..Len(q) : ~Withdraws(q, i, n)
          /\ \/ \E i \in 1..Len(q) : Opens(q, i, n)
             \/ \E s \in shown : s.ask = n
             \/ \E a \in given \cup heard : a.ask = n
      BY <2>6, <3>2, <3>3 DEF StandsIn
    <3>5. CASE \E a \in given \cup heard : a.ask = n
      BY <1>2, <3>1, <3>5
    <3>6. CASE (\E i \in 1..Len(q) : Opens(q, i, n)) \/ (\E s \in shown : s.ask = n)
      <4>1. n \in PageWillShow(n[1])
        BY <3>3, <3>4, <3>6, ToShow
      <4> QED BY <1>2, <3>1, <3>3, <4>1
    <3> QED BY <3>4, <3>5, <3>6
  <2> QED BY <2>4, <2>5, <2>6
<1>3. AsksAgree
  BY <1>2 DEF AsksAgree
<1> QED BY <1>1, <1>3 DEF AsksSound

\* AsksSound: an answer goes to the ask the user has seen, and while a connection lasts the
\* page shows what its host has open.
THEOREM AsksAreSound == AsksSpec => []AsksSound
  BY AsksInvariantHolds, AsksFit, PTL

-----------------------------------------------------------------------------
(***************************************************************************)
(* The page's side of the multiplexer gives every stream the items of its  *)
(* own opening, all of them and in order, and leaves none without a socket *)
(* that will tell it of its end.                                           *)
(***************************************************************************)
SocketStates == {"connecting", "open", "closing", "refused", "closed"}
PageRecords == [at : {"new", "waiting", "running", "over"}, epoch : Nat,
                ready : {"pending", "resolved", "rejected"},
                end : {"none", "end", "error", "failed", "cancelled"}, items : Seq(Nat \X Nat)]
PageFrames == {"item", "end", "error"} \X Records \X Nat
Servings == UNION {[D -> Nat] : D \in SUBSET Records}

PageTypes ==
  /\ sockets \in Seq(SocketStates) /\ socket \in {0, Len(sockets)} /\ socketPromise \in BOOLEAN
  /\ record \in [Records -> PageRecords]
  /\ downlink \in Seq(Seq(PageFrames)) /\ Len(downlink) = Len(sockets)
  /\ serving \in Seq(Servings) /\ Len(serving) = Len(sockets)

\* Only the page's own socket is on its way or open, and somebody waits for it until it is.
PageSocket ==
  /\ \A e \in 1..Len(sockets) : sockets[e] \in {"connecting", "open"} => socket = e
  /\ socketPromise => socket # 0 /\ sockets[socket] \in {"connecting", "refused"}
  /\ socket # 0 =>
       sockets[socket] # "closed" /\ (sockets[socket] \in {"connecting", "refused"} => socketPromise)

PageStreams ==
  \A r \in Records :
    /\ record[r].at = "waiting" => socketPromise
    /\ record[r].at = "running" =>
         /\ record[r].epoch \in 1..Len(sockets) /\ record[r].ready = "resolved"
         /\ record[r].epoch = Len(sockets) => socket = record[r].epoch
    /\ record[r].at \in {"new", "waiting"} => record[r].items = <<>>
    /\ record[r].end = "end" => record[r].ready = "resolved" /\ record[r].at = "over"
    /\ \A i \in 1..Len(record[r].items) : record[r].items[i] = <<record[r].epoch, i>>

\* A server has open what the page runs on its socket, and has sent frames of nothing else.
PageServed ==
  \A e \in 1..Len(sockets) :
    /\ sockets[e] # "open" => DOMAIN serving[e] = {}
    /\ \A r \in DOMAIN serving[e] : record[r].at = "running" /\ record[r].epoch = e
    /\ \A i \in 1..Len(downlink[e]) :
         LET f == downlink[e][i] IN
         /\ record[f[2]].at \in {"running", "over"} /\ record[f[2]].epoch = e
         /\ f[1] # "item" => f[2] \notin DOMAIN serving[e]

\* The items of r on their way count on from n, without a gap, up to m.
ItemOf(f, r) == f[1] = "item" /\ f[2] = r
ItemsFrom(q, r, n) ==
  \A i \in 1..Len(q) : ItemOf(q[i], r) =>
    \/ q[i][3] = n + 1 /\ \A k \in 1..(i - 1) : ~ItemOf(q[k], r)
    \/ \E j \in 1..(i - 1) : /\ ItemOf(q[j], r) /\ q[i][3] = q[j][3] + 1
                             /\ \A k \in (j + 1)..(i - 1) : ~ItemOf(q[k], r)
ItemsUpTo(q, r, n, m) ==
  \/ m = n /\ \A k \in 1..Len(q) : ~ItemOf(q[k], r)
  \/ \E j \in 1..Len(q) : /\ ItemOf(q[j], r) /\ q[j][3] = m
                          /\ \A k \in (j + 1)..Len(q) : ~ItemOf(q[k], r)

PageCounts ==
  \A r \in Records : record[r].at = "running" /\ record[r].epoch = socket =>
    /\ ItemsFrom(downlink[socket], r, Len(record[r].items))
    /\ r \in DOMAIN serving[socket] =>
         ItemsUpTo(downlink[socket], r, Len(record[r].items), serving[socket][r])

PageIInv == PageTypes /\ PageSocket /\ PageStreams /\ PageServed /\ PageCounts

-----------------------------------------------------------------------------
(* Records and frames. *)

LEMMA PageFields ==
  ASSUME NEW rec \in PageRecords
  PROVE  /\ rec.at \in {"new", "waiting", "running", "over"} /\ rec.epoch \in Nat
         /\ rec.ready \in {"pending", "resolved", "rejected"}
         /\ rec.end \in {"none", "end", "error", "failed", "cancelled"} /\ rec.items \in Seq(Nat \X Nat)
  BY DEF PageRecords

LEMMA FinishedFields ==
  ASSUME NEW rec \in PageRecords, NEW how \in {"end", "error", "failed", "cancelled"}
  PROVE  /\ Finished(rec, how) \in PageRecords /\ Finished(rec, how).at = "over"
         /\ Finished(rec, how).epoch = rec.epoch /\ Finished(rec, how).ready = rec.ready
         /\ Finished(rec, how).items = rec.items
         /\ Finished(rec, how).end \in {rec.end, how}
         /\ rec.at # "over" => Finished(rec, how).end = how
  BY DEF Finished, PageRecords

LEMMA RunningFields ==
  ASSUME NEW rec \in PageRecords, NEW e \in Nat
  PROVE  /\ Running(rec, e) \in PageRecords /\ Running(rec, e).at = "running"
         /\ Running(rec, e).epoch = e /\ Running(rec, e).ready = "resolved"
         /\ Running(rec, e).items = rec.items /\ Running(rec, e).end = rec.end
  BY DEF Running, PageRecords

LEMMA NewRecordType == NewRecord \in PageRecords /\ NewRecord.at = "new"
  BY DEF NewRecord, PageRecords

LEMMA ServingsFields ==
  ASSUME NEW f \in Servings
  PROVE  DOMAIN f \in SUBSET Records /\ \A r \in DOMAIN f : f[r] \in Nat
  BY DEF Servings

LEMMA ServingsBuilt ==
  ASSUME NEW D \in SUBSET Records, NEW f, f = [r \in D |-> f[r]], \A r \in D : f[r] \in Nat
  PROVE  f \in Servings
<1>1. f \in [D -> Nat]
  OBVIOUS
<1> QED BY <1>1 DEF Servings

LEMMA NothingServed == <<>> \in Servings /\ DOMAIN <<>> = {}
<1>1. <<>> \in [{} -> Nat] /\ DOMAIN <<>> = {}
  OBVIOUS
<1> QED BY <1>1 DEF Servings

-----------------------------------------------------------------------------
(* Items in order. *)

LEMMA OtherAdded ==
  ASSUME NEW q \in Seq(PageFrames), NEW f \in PageFrames, NEW r \in Records, NEW n \in Nat, NEW m \in Nat,
         ~ItemOf(f, r)
  PROVE  /\ ItemsFrom(q, r, n) => ItemsFrom(Append(q, f), r, n)
         /\ ItemsUpTo(q, r, n, m) => ItemsUpTo(Append(q, f), r, n, m)
<1> DEFINE p == Append(q, f)
<1>1. /\ Len(q) \in Nat /\ Len(p) = Len(q) + 1 /\ p[Len(q) + 1] = f
      /\ \A i \in 1..Len(q) : p[i] = q[i]
  OBVIOUS
<1> HIDE DEF p
<1>2. ASSUME NEW i \in 1..Len(p), ItemOf(p[i], r)
      PROVE  /\ i \in 1..Len(q) /\ p[i] = q[i]
             /\ \A j \in 1..(i - 1) : j \in 1..Len(q) /\ p[j] = q[j]
  BY <1>1, <1>2
<1>3. ItemsFrom(q, r, n) => ItemsFrom(p, r, n)
  <2> SUFFICES ASSUME ItemsFrom(q, r, n), NEW i \in 1..Len(p), ItemOf(p[i], r)
               PROVE  \/ p[i][3] = n + 1 /\ \A k \in 1..(i - 1) : ~ItemOf(p[k], r)
                      \/ \E j \in 1..(i - 1) : /\ ItemOf(p[j], r) /\ p[i][3] = p[j][3] + 1
                                               /\ \A k \in (j + 1)..(i - 1) : ~ItemOf(p[k], r)
    BY DEF ItemsFrom
  <2>1. /\ i \in 1..Len(q) /\ p[i] = q[i]
        /\ \A j \in 1..(i - 1) : j \in 1..Len(q) /\ p[j] = q[j]
    BY <1>2
  <2>2. \A j \in 1..(i - 1) : \A k \in (j + 1)..(i - 1) : k \in 1..(i - 1)
    OBVIOUS
  <2> HIDE DEF ItemOf
  <2> QED BY <2>1, <2>2 DEF ItemsFrom
<1>4. ItemsUpTo(q, r, n, m) => ItemsUpTo(p, r, n, m)
  <2> HIDE DEF ItemOf
  <2>1. ASSUME m = n, \A k \in 1..Len(q) : ~ItemOf(q[k], r)
        PROVE  ItemsUpTo(p, r, n, m)
    <3>1. \A k \in 1..Len(p) : ~ItemOf(p[k], r)
      BY <1>2, <2>1
    <3> QED BY <2>1, <3>1 DEF ItemsUpTo
  <2>2. ASSUME NEW j \in 1..Len(q), ItemOf(q[j], r), q[j][3] = m,
               \A k \in (j + 1)..Len(q) : ~ItemOf(q[k], r)
        PROVE  ItemsUpTo(p, r, n, m)
    <3>1. \A k \in (j + 1)..Len(p) : ~ItemOf(p[k], r)
      <4> SUFFICES ASSUME NEW k \in (j + 1)..Len(p), ItemOf(p[k], r) PROVE FALSE
        OBVIOUS
      <4>1. k \in 1..Len(p)
        BY <1>1
      <4>2. k \in (j + 1)..Len(q) /\ p[k] = q[k]
        BY <1>1, <1>2, <4>1
      <4> QED BY <2>2, <4>2
    <3>2. j \in 1..Len(p) /\ p[j] = q[j]
      BY <1>1
    <3> QED BY <2>2, <3>1, <3>2 DEF ItemsUpTo
  <2> QED BY <2>1, <2>2 DEF ItemsUpTo
<1> QED BY <1>3, <1>4 DEF p

LEMMA ItemAdded ==
  ASSUME NEW q \in Seq(PageFrames), NEW r \in Records, NEW n \in Nat, NEW m \in Nat,
         ItemsFrom(q, r, n), ItemsUpTo(q, r, n, m)
  PROVE  /\ ItemsFrom(Append(q, <<"item", r, m + 1>>), r, n)
         /\ ItemsUpTo(Append(q, <<"item", r, m + 1>>), r, n, m + 1)
<1> DEFINE f == <<"item", r, m + 1>>
           p == Append(q, f)
<1>1. /\ Len(q) \in Nat /\ Len(p) = Len(q) + 1 /\ p[Len(q) + 1] = f
      /\ \A i \in 1..Len(q) : p[i] = q[i]
  OBVIOUS
<1>2. ItemOf(f, r) /\ f[3] = m + 1
  BY DEF ItemOf
<1> HIDE DEF p, f
<1>3. ItemsUpTo(p, r, n, m + 1)
  <2>1. Len(q) + 1 \in 1..Len(p) /\ \A k \in (Len(q) + 1 + 1)..Len(p) : ~ItemOf(p[k], r)
    BY <1>1
  <2> QED BY <1>1, <1>2, <2>1 DEF ItemsUpTo
<1>4. ASSUME NEW i \in 1..Len(p), ItemOf(p[i], r)
      PROVE  \/ p[i][3] = n + 1 /\ \A k \in 1..(i - 1) : ~ItemOf(p[k], r)
             \/ \E j \in 1..(i - 1) : /\ ItemOf(p[j], r) /\ p[i][3] = p[j][3] + 1
                                      /\ \A k \in (j + 1)..(i - 1) : ~ItemOf(p[k], r)
  <2>1. CASE i = Len(q) + 1
    <3>1. p[i][3] = m + 1 /\ i - 1 = Len(q)
      BY <1>1, <1>2, <2>1
    <3>2. CASE m = n /\ \A k \in 1..Len(q) : ~ItemOf(q[k], r)
      BY <1>1, <3>1, <3>2
    <3>3. ASSUME NEW j \in 1..Len(q), ItemOf(q[j], r), q[j][3] = m,
                 \A k \in (j + 1)..Len(q) : ~ItemOf(q[k], r)
          PROVE  \E x \in 1..(i - 1) : /\ ItemOf(p[x], r) /\ p[i][3] = p[x][3] + 1
                                       /\ \A k \in (x + 1)..(i - 1) : ~ItemOf(p[k], r)
      <4>1. \A k \in (j + 1)..Len(q) : p[k] = q[k]
        BY <1>1
      <4> QED BY <1>1, <3>1, <3>3, <4>1
    <3> QED BY <3>2, <3>3 DEF ItemsUpTo
  <2>2. CASE i # Len(q) + 1
    <3>1. i \in 1..Len(q) /\ p[i] = q[i] /\ \A k \in 1..(i - 1) : p[k] = q[k]
      BY <1>1, <2>2
    <3>2. \A j \in 1..(i - 1) : \A k \in (j + 1)..(i - 1) : k \in 1..(i - 1)
      OBVIOUS
    <3> QED BY <1>4, <3>1, <3>2 DEF ItemsFrom
  <2> QED BY <2>1, <2>2
<1>5. ItemsFrom(p, r, n)
  BY <1>4 DEF ItemsFrom
<1> QED BY <1>3, <1>5 DEF p, f

LEMMA FrameTaken ==
  ASSUME NEW q \in Seq(PageFrames), q # <<>>, NEW r \in Records, NEW n \in Nat, NEW m \in Nat,
         ItemsFrom(q, r, n)
  PROVE  /\ ItemOf(Head(q), r) =>
              /\ Head(q)[3] = n + 1 /\ ItemsFrom(Tail(q), r, n + 1)
              /\ ItemsUpTo(q, r, n, m) => ItemsUpTo(Tail(q), r, n + 1, m)
         /\ ~ItemOf(Head(q), r) =>
              /\ ItemsFrom(Tail(q), r, n)
              /\ ItemsUpTo(q, r, n, m) => ItemsUpTo(Tail(q), r, n, m)
<1> DEFINE p == Tail(q)
           h == Head(q)
<1>1. /\ Len(q) \in Nat /\ Len(p) = Len(q) - 1 /\ h = q[1] /\ 1 \in 1..Len(q)
      /\ \A i \in 1..Len(p) : p[i] = q[i + 1] /\ i + 1 \in 1..Len(q)
  OBVIOUS
<1> HIDE DEF p, h
<1>2. \A i \in 2..Len(q) : i - 1 \in 1..Len(p) /\ p[i - 1] = q[i]
  BY <1>1
\* Where an item of the tail comes from.
<1>3. ASSUME NEW i \in 1..Len(p), ItemOf(p[i], r)
      PROVE  \/ p[i][3] = n + 1 /\ ~ItemOf(h, r) /\ \A k \in 1..(i - 1) : ~ItemOf(p[k], r)
             \/ ItemOf(h, r) /\ p[i][3] = h[3] + 1 /\ \A k \in 1..(i - 1) : ~ItemOf(p[k], r)
             \/ \E j \in 1..(i - 1) : /\ ItemOf(p[j], r) /\ p[i][3] = p[j][3] + 1
                                      /\ \A k \in (j + 1)..(i - 1) : ~ItemOf(p[k], r)
  <2>1. p[i] = q[i + 1] /\ i + 1 \in 1..Len(q) /\ (i + 1) - 1 = i
    BY <1>1
  <2>2. \A k \in 1..(i - 1) : p[k] = q[k + 1] /\ k + 1 \in 2..i
    BY <1>1
  <2>3. \/ q[i + 1][3] = n + 1 /\ \A k \in 1..i : ~ItemOf(q[k], r)
        \/ \E j \in 1..i : /\ ItemOf(q[j], r) /\ q[i + 1][3] = q[j][3] + 1
                           /\ \A k \in (j + 1)..i : ~ItemOf(q[k], r)
    BY <1>3, <2>1 DEF ItemsFrom
  <2>4. CASE q[i + 1][3] = n + 1 /\ \A k \in 1..i : ~ItemOf(q[k], r)
    <3>1. 1 \in 1..i /\ \A k \in 2..i : k \in 1..i
      OBVIOUS
    <3> QED BY <1>1, <2>1, <2>2, <2>4, <3>1
  <2>5. ASSUME NEW j \in 1..i, ItemOf(q[j], r), q[i + 1][3] = q[j][3] + 1,
               \A k \in (j + 1)..i : ~ItemOf(q[k], r)
        PROVE  \/ ItemOf(h, r) /\ p[i][3] = h[3] + 1 /\ \A k \in 1..(i - 1) : ~ItemOf(p[k], r)
               \/ \E x \in 1..(i - 1) : /\ ItemOf(p[x], r) /\ p[i][3] = p[x][3] + 1
                                        /\ \A k \in (x + 1)..(i - 1) : ~ItemOf(p[k], r)
    <3>1. CASE j = 1
      <4>1. ItemOf(h, r) /\ p[i][3] = h[3] + 1
        BY <1>1, <2>1, <2>5, <3>1
      <4>2. \A k \in 1..(i - 1) : k + 1 \in (j + 1)..i /\ p[k] = q[k + 1]
        BY <2>2, <3>1
      <4> QED BY <2>5, <4>1, <4>2
    <3>2. CASE j # 1
      <4>1. j \in 2..Len(q) /\ j - 1 \in 1..(i - 1) /\ p[j - 1] = q[j]
        BY <1>1, <1>2, <3>2
      <4>2. \A k \in ((j - 1) + 1)..(i - 1) : k + 1 \in (j + 1)..i /\ p[k] = q[k + 1]
        BY <1>1, <4>1
      <4> QED BY <2>1, <2>5, <4>1, <4>2
    <3> QED BY <3>1, <3>2
  <2> QED BY <2>3, <2>4, <2>5
<1>4. ItemsUpTo(q, r, n, m) =>
        \/ m = n /\ ~ItemOf(h, r) /\ \A k \in 1..Len(p) : ~ItemOf(p[k], r)
        \/ ItemOf(h, r) /\ h[3] = m /\ \A k \in 1..Len(p) : ~ItemOf(p[k], r)
        \/ \E j \in 1..Len(p) : /\ ItemOf(p[j], r) /\ p[j][3] = m
                                /\ \A k \in (j + 1)..Len(p) : ~ItemOf(p[k], r)
  <2>1. ASSUME m = n, \A k \in 1..Len(q) : ~ItemOf(q[k], r)
        PROVE  m = n /\ ~ItemOf(h, r) /\ \A k \in 1..Len(p) : ~ItemOf(p[k], r)
    BY <1>1, <2>1
  <2>2. ASSUME NEW j \in 1..Len(q), ItemOf(q[j], r), q[j][3] = m,
               \A k \in (j + 1)..Len(q) : ~ItemOf(q[k], r)
        PROVE  \/ ItemOf(h, r) /\ h[3] = m /\ \A k \in 1..Len(p) : ~ItemOf(p[k], r)
               \/ \E x \in 1..Len(p) : /\ ItemOf(p[x], r) /\ p[x][3] = m
                                       /\ \A k \in (x + 1)..Len(p) : ~ItemOf(p[k], r)
    <3>1. CASE j = 1
      BY <1>1, <2>2, <3>1
    <3>2. CASE j # 1
      <4>1. j - 1 \in 1..Len(p) /\ p[j - 1] = q[j]
        BY <1>1, <1>2, <3>2
      <4>2. \A k \in ((j - 1) + 1)..Len(p) : k + 1 \in (j + 1)..Len(q) /\ p[k] = q[k + 1]
        BY <1>1, <4>1
      <4> QED BY <2>2, <4>1, <4>2
    <3> QED BY <3>1, <3>2
  <2> QED BY <2>1, <2>2 DEF ItemsUpTo
<1>5. ASSUME ItemOf(h, r)
      PROVE  /\ h[3] = n + 1 /\ ItemsFrom(p, r, n + 1)
             /\ ItemsUpTo(q, r, n, m) => ItemsUpTo(p, r, n + 1, m)
  <2>1. h[3] = n + 1
    <3>1. 1..(1 - 1) = {}
      OBVIOUS
    <3> QED BY <1>1, <1>5, <3>1 DEF ItemsFrom
  <2>2. ItemsFrom(p, r, n + 1)
    BY <1>3, <1>5, <2>1 DEF ItemsFrom
  <2>3. ItemsUpTo(q, r, n, m) => ItemsUpTo(p, r, n + 1, m)
    BY <1>4, <1>5, <2>1 DEF ItemsUpTo
  <2> QED BY <2>1, <2>2, <2>3
<1>6. ASSUME ~ItemOf(h, r)
      PROVE  /\ ItemsFrom(p, r, n)
             /\ ItemsUpTo(q, r, n, m) => ItemsUpTo(p, r, n, m)
  <2>1. ItemsFrom(p, r, n)
    BY <1>3, <1>6 DEF ItemsFrom
  <2>2. ItemsUpTo(q, r, n, m) => ItemsUpTo(p, r, n, m)
    BY <1>4, <1>6 DEF ItemsUpTo
  <2> QED BY <2>1, <2>2
<1> QED BY <1>5, <1>6 DEF p, h

-----------------------------------------------------------------------------
(* The start and the actions. *)

LEMMA PageInitially == PageInit => PageIInv
<1> SUFFICES ASSUME PageInit PROVE PageIInv
  OBVIOUS
<1>1. \A r \in Records : record[r] = NewRecord
  BY DEF PageInit
<1>2. PageTypes
  <2>1. record \in [Records -> PageRecords]
    BY NewRecordType DEF PageInit
  <2>2. sockets = <<>> /\ downlink = <<>> /\ serving = <<>> /\ socket = 0
    BY DEF PageInit
  <2>3. socketPromise \in BOOLEAN
    BY DEF PageInit
  <2>4. sockets \in Seq(SocketStates) /\ downlink \in Seq(Seq(PageFrames)) /\ serving \in Seq(Servings)
    BY <2>2
  <2>5. Len(sockets) = 0 /\ Len(downlink) = 0 /\ Len(serving) = 0
    BY <2>2
  <2> QED BY <2>1, <2>2, <2>3, <2>4, <2>5 DEF PageTypes
<1>3. PageSocket
  BY DEF PageInit, PageSocket
<1>4. PageStreams
  <2>1. /\ NewRecord.at = "new" /\ NewRecord.end = "none" /\ NewRecord.items = <<>>
        /\ 1..Len(<<>>) = {}
    BY DEF NewRecord
  <2> QED BY <1>1, <2>1 DEF PageStreams
<1>5. PageServed
  BY DEF PageInit, PageServed
<1>6. PageCounts
  BY <1>1 DEF PageCounts, NewRecord
<1> QED BY <1>2, <1>3, <1>4, <1>5, <1>6 DEF PageIInv

\* What the server of a socket has open besides.
LEMMA Opened ==
  ASSUME PageTypes, NEW e \in 1..Len(sockets), NEW who \in SUBSET Records, OpenAll(e, who)
  PROVE  /\ serving' \in Seq(Servings) /\ Len(serving') = Len(serving)
         /\ \A d \in 1..Len(sockets) : d # e => serving'[d] = serving[d]
         /\ DOMAIN serving'[e] = DOMAIN serving[e] \cup who
         /\ \A r \in DOMAIN serving[e] : serving'[e][r] = serving[e][r]
         /\ \A r \in who \ DOMAIN serving[e] : serving'[e][r] = 0
<1> DEFINE f == serving[e]
           n == [r \in DOMAIN f \cup who |-> IF r \in DOMAIN f THEN f[r] ELSE 0]
<1>1. serving \in Seq(Servings) /\ Len(serving) = Len(sockets) /\ f \in Servings
  BY DEF PageTypes
<1>2. serving' = [serving EXCEPT ![e] = n]
  BY DEF OpenAll
<1>3. DOMAIN f \in SUBSET Records /\ \A r \in DOMAIN f : f[r] \in Nat
  BY <1>1, ServingsFields
<1> HIDE DEF f
<1>4. DOMAIN n = DOMAIN f \cup who
  OBVIOUS
<1>5. n \in Servings
  <2>1. n \in [DOMAIN f \cup who -> Nat]
    BY <1>3
  <2> QED BY <1>3, <2>1 DEF Servings
<1>6. /\ \A r \in DOMAIN f : n[r] = f[r]
      /\ \A r \in who \ DOMAIN f : n[r] = 0
  OBVIOUS
<1> HIDE DEF n
<1> QED BY <1>1, <1>2, <1>4, <1>5, <1>6 DEF f

LEMMA PageFacts ==
  ASSUME PageTypes
  PROVE  /\ Len(sockets) \in Nat /\ \A e \in 1..Len(sockets) : sockets[e] \in SocketStates
         /\ \A e \in 1..Len(sockets) : downlink[e] \in Seq(PageFrames)
         /\ \A e \in 1..Len(sockets) : serving[e] \in Servings
         /\ DOMAIN sockets = 1..Len(sockets)
         /\ \A e \in 1..Len(sockets) : DOMAIN serving[e] \in SUBSET Records
         /\ \A e \in 1..Len(sockets) : \A i \in 1..Len(downlink[e]) :
              downlink[e][i] \in PageFrames /\ downlink[e][i][2] \in Records
<1>1. \A e \in 1..Len(sockets) : serving[e] \in Servings
  BY DEF PageTypes
<1>2. \A e \in 1..Len(sockets) : DOMAIN serving[e] \in SUBSET Records
  BY <1>1, ServingsFields
<1>3. \A e \in 1..Len(sockets) : downlink[e] \in Seq(PageFrames)
  BY DEF PageTypes
<1>4. \A e \in 1..Len(sockets) : \A i \in 1..Len(downlink[e]) : downlink[e][i] \in PageFrames
  BY <1>3
<1>5. \A f \in PageFrames : f[2] \in Records
  BY DEF PageFrames
<1> QED BY <1>1, <1>2, <1>3, <1>4, <1>5 DEF PageTypes

\* A stream that waits or is new has nothing on any socket.
LEMMA NothingYet ==
  ASSUME PageIInv, NEW r \in Records, record[r].at \in {"new", "waiting"}, NEW e \in 1..Len(sockets)
  PROVE  /\ r \notin DOMAIN serving[e] /\ \A i \in 1..Len(downlink[e]) : downlink[e][i][2] # r
         /\ record[r].items = <<>> /\ ItemsFrom(downlink[e], r, 0) /\ ItemsUpTo(downlink[e], r, 0, 0)
<1>1. r \notin DOMAIN serving[e] /\ \A i \in 1..Len(downlink[e]) : downlink[e][i][2] # r
  BY DEF PageIInv, PageServed
<1>2. record[r].items = <<>>
  BY DEF PageIInv, PageStreams
<1> QED BY <1>1, <1>2 DEF ItemsFrom, ItemsUpTo, ItemOf

LEMMA KeepsOpenUsable ==
  ASSUME PageIInv, NEW r \in Records, OpenRecord(r), UsableSocket
  PROVE  PageIInv'
<1>0. PageTypes /\ PageSocket /\ PageStreams /\ PageServed /\ PageCounts
  BY DEF PageIInv
<1>1. /\ record[r].at = "new" /\ record' = [record EXCEPT ![r] = Running(@, socket)]
      /\ OpenAll(socket, {r})
      /\ UNCHANGED <<sockets, socket, socketPromise, downlink>>
  BY DEF OpenRecord
<1>2. socket \in 1..Len(sockets) /\ sockets[socket] = "open"
  BY <1>0 DEF UsableSocket, PageTypes
<1>3. /\ record[r] \in PageRecords /\ Running(record[r], socket) \in PageRecords
      /\ Running(record[r], socket).at = "running" /\ Running(record[r], socket).epoch = socket
      /\ Running(record[r], socket).ready = "resolved"
      /\ Running(record[r], socket).items = record[r].items
      /\ Running(record[r], socket).end = record[r].end
  <2>1. record[r] \in PageRecords /\ socket \in Nat
    BY <1>0, <1>2 DEF PageTypes
  <2> QED BY <2>1, RunningFields
<1>4. /\ record' \in [Records -> PageRecords] /\ record'[r] = Running(record[r], socket)
      /\ \A x \in Records : x # r => record'[x] = record[x]
  BY <1>0, <1>1, <1>3 DEF PageTypes
<1>5. /\ serving' \in Seq(Servings) /\ Len(serving') = Len(serving)
      /\ \A d \in 1..Len(sockets) : d # socket => serving'[d] = serving[d]
      /\ DOMAIN serving'[socket] = DOMAIN serving[socket] \cup {r}
      /\ \A x \in DOMAIN serving[socket] : serving'[socket][x] = serving[socket][x]
      /\ r \notin DOMAIN serving[socket] => serving'[socket][r] = 0
  BY <1>0, <1>1, <1>2, Opened
<1>6. PageTypes'
  BY <1>0, <1>1, <1>4, <1>5 DEF PageTypes
<1>7. PageSocket'
  BY <1>0, <1>1 DEF PageSocket
<1>8. PageStreams'
  <2>1. record[r].items = <<>> /\ record[r].end # "end"
    BY <1>0, <1>1 DEF PageStreams
  <2> SUFFICES ASSUME NEW x \in Records
               PROVE  /\ record'[x].at = "waiting" => socketPromise
                      /\ record'[x].at = "running" =>
                           /\ record'[x].epoch \in 1..Len(sockets) /\ record'[x].ready = "resolved"
                           /\ record'[x].epoch = Len(sockets) => socket = record'[x].epoch
                      /\ record'[x].at \in {"new", "waiting"} => record'[x].items = <<>>
                      /\ record'[x].end = "end" => record'[x].ready = "resolved" /\ record'[x].at = "over"
                      /\ \A i \in 1..Len(record'[x].items) : record'[x].items[i] = <<record'[x].epoch, i>>
    BY <1>1 DEF PageStreams
  <2>2. CASE x = r
    BY <1>2, <1>3, <1>4, <2>1, <2>2
  <2>3. CASE x # r
    BY <1>0, <1>4, <2>3 DEF PageStreams
  <2> QED BY <2>2, <2>3
<1>9. PageServed'
  <2> SUFFICES ASSUME NEW e \in 1..Len(sockets)
               PROVE  /\ sockets[e] # "open" => DOMAIN serving'[e] = {}
                      /\ \A x \in DOMAIN serving'[e] : record'[x].at = "running" /\ record'[x].epoch = e
                      /\ \A i \in 1..Len(downlink[e]) :
                           /\ record'[downlink[e][i][2]].at \in {"running", "over"}
                           /\ record'[downlink[e][i][2]].epoch = e
                           /\ downlink[e][i][1] # "item" => downlink[e][i][2] \notin DOMAIN serving'[e]
    BY <1>1 DEF PageServed
  <2>1. DOMAIN serving'[e] = IF e = socket THEN DOMAIN serving[e] \cup {r} ELSE DOMAIN serving[e]
    BY <1>5
  <2>2. \A i \in 1..Len(downlink[e]) : downlink[e][i][2] # r /\ downlink[e][i][2] \in Records
    BY <1>0, <1>1, NothingYet, PageFacts
  <2>3. DOMAIN serving[e] \in SUBSET Records /\ r \notin DOMAIN serving[e]
    BY <1>0, <1>1, NothingYet, PageFacts
  <2>4. \A x \in DOMAIN serving'[e] : record'[x].at = "running" /\ record'[x].epoch = e
    BY <1>0, <1>3, <1>4, <2>1, <2>3 DEF PageServed
  <2>5. \A i \in 1..Len(downlink[e]) :
          /\ record'[downlink[e][i][2]].at \in {"running", "over"}
          /\ record'[downlink[e][i][2]].epoch = e
          /\ downlink[e][i][1] # "item" => downlink[e][i][2] \notin DOMAIN serving'[e]
    BY <1>0, <1>4, <2>1, <2>2 DEF PageServed
  <2>6. sockets[e] # "open" => DOMAIN serving'[e] = {}
    BY <1>0, <1>2, <2>1 DEF PageServed
  <2> QED BY <2>4, <2>5, <2>6
<1>10. PageCounts'
  <2> SUFFICES ASSUME NEW x \in Records, record'[x].at = "running", record'[x].epoch = socket
               PROVE  /\ ItemsFrom(downlink[socket], x, Len(record'[x].items))
                      /\ x \in DOMAIN serving'[socket] =>
                           ItemsUpTo(downlink[socket], x, Len(record'[x].items), serving'[socket][x])
    BY <1>1 DEF PageCounts
  <2>1. CASE x = r
    <3>1. /\ r \notin DOMAIN serving[socket] /\ record[r].items = <<>>
          /\ ItemsFrom(downlink[socket], r, 0) /\ ItemsUpTo(downlink[socket], r, 0, 0)
      BY <1>1, <1>2, NothingYet
    <3>2. Len(record'[r].items) = 0 /\ serving'[socket][r] = 0
      BY <1>3, <1>4, <1>5, <3>1
    <3> QED BY <2>1, <3>1, <3>2
  <2>2. CASE x # r
    <3>1. record'[x] = record[x]
      BY <1>4, <2>2
    <3>2. x \in DOMAIN serving'[socket] =>
            x \in DOMAIN serving[socket] /\ serving'[socket][x] = serving[socket][x]
      BY <1>5, <2>2
    <3> QED BY <1>0, <3>1, <3>2 DEF PageCounts
  <2> QED BY <2>1, <2>2
<1> QED BY <1>6, <1>7, <1>8, <1>9, <1>10 DEF PageIInv

LEMMA KeepsOpenWaits ==
  ASSUME PageIInv, NEW r \in Records, OpenRecord(r), ~UsableSocket
  PROVE  PageIInv'
<1>0. PageTypes /\ PageSocket /\ PageStreams /\ PageServed /\ PageCounts
  BY DEF PageIInv
<1> DEFINE w == [record[r] EXCEPT !.at = "waiting"]
<1>1. record[r].at = "new" /\ record' = [record EXCEPT ![r] = w]
  BY DEF OpenRecord
<1>2. /\ w \in PageRecords /\ w.at = "waiting" /\ w.items = record[r].items /\ w.epoch = record[r].epoch
      /\ w.end = record[r].end
  <2>1. record[r] \in PageRecords
    BY <1>0 DEF PageTypes
  <2> QED BY <2>1 DEF PageRecords
<1> HIDE DEF w
<1>3. /\ record' \in [Records -> PageRecords] /\ record'[r] = w
      /\ \A x \in Records : x # r => record'[x] = record[x]
  BY <1>0, <1>1, <1>2 DEF PageTypes
<1>4. record[r].items = <<>> /\ record[r].end # "end"
  BY <1>0, <1>1 DEF PageStreams
<1>5. \A e \in 1..Len(sockets) :
        /\ r \notin DOMAIN serving[e] /\ \A i \in 1..Len(downlink[e]) : downlink[e][i][2] # r
  BY <1>1, NothingYet
<1>6. \A x \in Records :
        /\ record'[x].at \in {"new", "waiting"} => record'[x].items = <<>>
        /\ record'[x].end = "end" => record'[x].ready = "resolved" /\ record'[x].at = "over"
        /\ \A i \in 1..Len(record'[x].items) : record'[x].items[i] = <<record'[x].epoch, i>>
  <2> SUFFICES ASSUME NEW x \in Records
               PROVE  /\ record'[x].at \in {"new", "waiting"} => record'[x].items = <<>>
                      /\ record'[x].end = "end" => record'[x].ready = "resolved" /\ record'[x].at = "over"
                      /\ \A i \in 1..Len(record'[x].items) : record'[x].items[i] = <<record'[x].epoch, i>>
    OBVIOUS
  <2>1. CASE x = r
    BY <1>2, <1>3, <1>4, <2>1
  <2>2. CASE x # r
    BY <1>0, <1>3, <2>2 DEF PageStreams
  <2> QED BY <2>1, <2>2
\* Who runs has run before.
<1>7. \A x \in Records : record'[x].at \in {"running", "over"} => record'[x] = record[x]
  BY <1>2, <1>3
<1>8. \A e \in 1..Len(sockets) :
        /\ \A x \in DOMAIN serving[e] : record'[x].at = "running" /\ record'[x].epoch = e
        /\ \A i \in 1..Len(downlink[e]) :
             record'[downlink[e][i][2]].at \in {"running", "over"} /\ record'[downlink[e][i][2]].epoch = e
  <2>1. \A e \in 1..Len(sockets) : DOMAIN serving[e] \in SUBSET Records
    BY <1>0, PageFacts
  <2>2. \A e \in 1..Len(sockets) : \A i \in 1..Len(downlink[e]) : downlink[e][i][2] \in Records
    BY <1>0, PageFacts
  <2> QED BY <1>0, <1>3, <1>5, <2>1, <2>2 DEF PageServed
<1>9. CASE socketPromise
  <2>1. UNCHANGED <<sockets, socket, socketPromise, downlink, serving>>
    BY <1>9 DEF OpenRecord
  <2>2. PageTypes'
    BY <1>0, <1>3, <2>1 DEF PageTypes
  <2>3. PageSocket'
    BY <1>0, <2>1 DEF PageSocket
  <2>4. PageStreams'
    BY <1>0, <1>6, <1>7, <1>9, <2>1 DEF PageStreams
  <2>5. PageServed'
    BY <1>0, <1>8, <2>1 DEF PageServed
  <2>6. PageCounts'
    BY <1>0, <1>7, <2>1 DEF PageCounts
  <2> QED BY <2>2, <2>3, <2>4, <2>5, <2>6 DEF PageIInv
<1>10. CASE ~socketPromise
  <2> DEFINE n == Len(sockets) + 1
  <2>1. /\ sockets' = Append(sockets, "connecting") /\ socket' = Len(sockets') /\ socketPromise' = TRUE
        /\ downlink' = Append(downlink, <<>>) /\ serving' = Append(serving, <<>>)
    BY <1>10 DEF OpenRecord, socketEpoch
  <2>2. /\ sockets \in Seq(SocketStates) /\ downlink \in Seq(Seq(PageFrames)) /\ serving \in Seq(Servings)
        /\ Len(downlink) = Len(sockets) /\ Len(serving) = Len(sockets) /\ <<>> \in Seq(PageFrames)
        /\ "connecting" \in SocketStates /\ <<>> \in Servings /\ DOMAIN <<>> = {}
    BY <1>0, NothingServed DEF PageTypes, SocketStates
  <2>3. /\ sockets' \in Seq(SocketStates) /\ Len(sockets') = n /\ sockets'[n] = "connecting"
        /\ \A e \in 1..Len(sockets) : sockets'[e] = sockets[e]
    BY <2>1, <2>2
  <2>4. /\ downlink' \in Seq(Seq(PageFrames)) /\ Len(downlink') = n /\ downlink'[n] = <<>>
        /\ \A e \in 1..Len(sockets) : downlink'[e] = downlink[e]
    BY <2>1, <2>2
  <2>5. /\ serving' \in Seq(Servings) /\ Len(serving') = n /\ serving'[n] = <<>>
        /\ \A e \in 1..Len(sockets) : serving'[e] = serving[e]
    BY <2>1, <2>2
  <2>6. socket' = n /\ socketPromise' /\ n \in Nat /\ n \in 1..n /\ \A e \in 1..n : e = n \/ e \in 1..Len(sockets)
    BY <2>1, <2>2, <2>3
  <2> HIDE DEF n
  <2>7. PageTypes'
    BY <1>3, <2>1, <2>3, <2>4, <2>5, <2>6 DEF PageTypes
  <2>8. PageSocket'
    <3>1. \A e \in 1..Len(sockets) : sockets[e] \notin {"connecting", "open"}
      BY <1>0, <1>10 DEF PageSocket, UsableSocket
    <3> QED BY <2>3, <2>6, <3>1 DEF PageSocket
  <2>9. PageStreams'
    <3>1. \A x \in Records : record'[x].at = "running" =>
            /\ record'[x].epoch \in 1..n /\ record'[x].ready = "resolved" /\ record'[x].epoch # n
      BY <1>0, <1>7 DEF PageStreams, PageTypes, n
    <3> QED BY <1>6, <2>3, <2>6, <3>1 DEF PageStreams
  <2>10. PageServed'
    <3> SUFFICES ASSUME NEW e \in 1..n
                 PROVE  /\ sockets'[e] # "open" => DOMAIN serving'[e] = {}
                        /\ \A x \in DOMAIN serving'[e] : record'[x].at = "running" /\ record'[x].epoch = e
                        /\ \A i \in 1..Len(downlink'[e]) :
                             /\ record'[downlink'[e][i][2]].at \in {"running", "over"}
                             /\ record'[downlink'[e][i][2]].epoch = e
                             /\ downlink'[e][i][1] # "item" => downlink'[e][i][2] \notin DOMAIN serving'[e]
      BY <2>3 DEF PageServed
    <3>1. CASE e = n
      <4>1. serving'[e] = <<>> /\ DOMAIN <<>> = {}
        BY <2>2, <2>5, <3>1
      <4>2. downlink'[e] = <<>> /\ 1..Len(<<>>) = {}
        BY <2>4, <3>1
      <4>3. DOMAIN serving'[e] = {}
        BY <4>1
      <4>4. 1..Len(downlink'[e]) = {}
        BY <4>2
      <4>5. \A x \in DOMAIN serving'[e] : record'[x].at = "running" /\ record'[x].epoch = e
        BY ONLY <4>3
      <4>6. \A i \in 1..Len(downlink'[e]) :
              /\ record'[downlink'[e][i][2]].at \in {"running", "over"}
              /\ record'[downlink'[e][i][2]].epoch = e
              /\ downlink'[e][i][1] # "item" => downlink'[e][i][2] \notin DOMAIN serving'[e]
        BY ONLY <4>4
      <4> QED BY ONLY <4>3, <4>5, <4>6
    <3>2. CASE e \in 1..Len(sockets)
      <4>1. sockets'[e] = sockets[e] /\ downlink'[e] = downlink[e] /\ serving'[e] = serving[e]
        BY <2>3, <2>4, <2>5, <3>2
      <4> QED BY <1>0, <1>8, <3>2, <4>1 DEF PageServed
    <3> QED BY <2>6, <3>1, <3>2
  <2>11. PageCounts'
    <3>1. \A x \in Records : record'[x].at = "running" => record'[x].epoch # n
      BY <1>0, <1>7 DEF PageStreams, PageTypes, n
    <3> QED BY <2>6, <3>1 DEF PageCounts
  <2> QED BY <2>7, <2>8, <2>9, <2>10, <2>11 DEF PageIInv
<1> QED BY <1>9, <1>10

LEMMA KeepsCancelRecord ==
  ASSUME PageIInv, NEW r \in Records, CancelRecord(r)
  PROVE  PageIInv'
<1>0. PageTypes /\ PageSocket /\ PageStreams /\ PageServed /\ PageCounts
  BY DEF PageIInv
<1> DEFINE w == Finished(record[r], "cancelled")
           told == record[r].at = "running" /\ record[r].epoch = socketEpoch /\ UsableSocket
           left == [x \in DOMAIN serving[socket] \ {r} |-> serving[socket][x]]
<1>1. /\ record[r].at \in {"waiting", "running"} /\ record' = [record EXCEPT ![r] = w]
      /\ UNCHANGED <<sockets, socket, socketPromise, downlink>>
      /\ serving' = IF told THEN [serving EXCEPT ![socket] = left] ELSE serving
  BY DEF CancelRecord
<1>2. /\ w \in PageRecords /\ w.at = "over" /\ w.epoch = record[r].epoch /\ w.ready = record[r].ready
      /\ w.items = record[r].items /\ w.end = "cancelled"
  <2>1. record[r] \in PageRecords
    BY <1>0 DEF PageTypes
  <2> QED BY <1>1, <2>1, FinishedFields
<1> HIDE DEF w
<1>3. /\ record' \in [Records -> PageRecords] /\ record'[r] = w
      /\ \A x \in Records : x # r => record'[x] = record[x]
  BY <1>0, <1>1, <1>2 DEF PageTypes
<1>4. told => socket \in 1..Len(sockets) /\ record[r].epoch = socket
  BY <1>0 DEF PageTypes, UsableSocket, socketEpoch
<1>5. told => left \in Servings
  <2> SUFFICES ASSUME told PROVE left \in Servings
    OBVIOUS
  <2>1. serving[socket] \in Servings
    BY <1>0, <1>4, PageFacts
  <2>2. DOMAIN serving[socket] \in SUBSET Records /\ \A x \in DOMAIN serving[socket] : serving[socket][x] \in Nat
    BY <2>1, ServingsFields
  <2>3. left \in [DOMAIN serving[socket] \ {r} -> Nat]
    BY <2>2
  <2> QED BY <2>2, <2>3 DEF Servings
<1>6. \A x \in DOMAIN left : left[x] = serving[socket][x]
  OBVIOUS
<1>7. DOMAIN left = DOMAIN serving[socket] \ {r}
  OBVIOUS
<1> HIDE DEF left
<1>8. /\ serving' \in Seq(Servings) /\ Len(serving') = Len(serving)
      /\ \A e \in 1..Len(sockets) : serving'[e] = IF told /\ e = socket THEN left ELSE serving[e]
  <2>0. serving \in Seq(Servings) /\ Len(serving) = Len(sockets)
    BY <1>0 DEF PageTypes
  <2> HIDE DEF told
  <2>1. CASE told
    BY <1>1, <1>4, <1>5, <2>0, <2>1
  <2>2. CASE ~told
    BY <1>1, <2>0, <2>2
  <2> QED BY <2>1, <2>2
\* Nobody serves r any more: only its own socket may have, and that one while it is usable.
<1>9. \A e \in 1..Len(sockets) :
        /\ DOMAIN serving'[e] = DOMAIN serving[e] \ {r}
        /\ \A x \in DOMAIN serving'[e] : serving'[e][x] = serving[e][x]
  <2> SUFFICES ASSUME NEW e \in 1..Len(sockets)
               PROVE  /\ DOMAIN serving'[e] = DOMAIN serving[e] \ {r}
                      /\ \A x \in DOMAIN serving'[e] : serving'[e][x] = serving[e][x]
    OBVIOUS
  <2>1. CASE told /\ e = socket
    BY <1>6, <1>7, <1>8, <2>1
  <2>2. CASE ~(told /\ e = socket)
    <3>1. serving'[e] = serving[e]
      BY <1>8, <2>2
    <3>2. r \notin DOMAIN serving[e]
      <4> SUFFICES ASSUME r \in DOMAIN serving[e] PROVE told /\ e = socket
        BY <2>2
      <4>1. sockets[e] = "open" /\ record[r].at = "running" /\ record[r].epoch = e
        BY <1>0 DEF PageServed
      <4>2. socket = e /\ socket # 0
        BY <1>0, <4>1 DEF PageSocket, PageTypes
      <4>3. socket = Len(sockets)
        BY <1>0, <4>2 DEF PageTypes
      <4> QED BY <4>1, <4>2, <4>3 DEF UsableSocket, socketEpoch
    <3> QED BY <3>1, <3>2
  <2> QED BY <2>1, <2>2
<1>10. PageTypes'
  BY <1>0, <1>1, <1>3, <1>8 DEF PageTypes
<1>11. PageSocket'
  BY <1>0, <1>1 DEF PageSocket
<1>12. PageStreams'
  <2> SUFFICES ASSUME NEW x \in Records
               PROVE  /\ record'[x].at = "waiting" => socketPromise
                      /\ record'[x].at = "running" =>
                           /\ record'[x].epoch \in 1..Len(sockets) /\ record'[x].ready = "resolved"
                           /\ record'[x].epoch = Len(sockets) => socket = record'[x].epoch
                      /\ record'[x].at \in {"new", "waiting"} => record'[x].items = <<>>
                      /\ record'[x].end = "end" => record'[x].ready = "resolved" /\ record'[x].at = "over"
                      /\ \A i \in 1..Len(record'[x].items) : record'[x].items[i] = <<record'[x].epoch, i>>
    BY <1>1 DEF PageStreams
  <2>1. CASE x = r
    BY <1>0, <1>2, <1>3, <2>1 DEF PageStreams
  <2>2. CASE x # r
    BY <1>0, <1>3, <2>2 DEF PageStreams
  <2> QED BY <2>1, <2>2
<1>13. PageServed'
  <2> SUFFICES ASSUME NEW e \in 1..Len(sockets)
               PROVE  /\ sockets[e] # "open" => DOMAIN serving'[e] = {}
                      /\ \A x \in DOMAIN serving'[e] : record'[x].at = "running" /\ record'[x].epoch = e
                      /\ \A i \in 1..Len(downlink[e]) :
                           /\ record'[downlink[e][i][2]].at \in {"running", "over"}
                           /\ record'[downlink[e][i][2]].epoch = e
                           /\ downlink[e][i][1] # "item" => downlink[e][i][2] \notin DOMAIN serving'[e]
    BY <1>1 DEF PageServed
  <2>1. DOMAIN serving[e] \in SUBSET Records /\ DOMAIN serving'[e] = DOMAIN serving[e] \ {r}
    BY <1>0, <1>9, PageFacts
  <2>2. \A i \in 1..Len(downlink[e]) : downlink[e][i][2] \in Records
    BY <1>0, PageFacts
  <2>3. \A x \in DOMAIN serving'[e] : record'[x].at = "running" /\ record'[x].epoch = e
    BY <1>0, <1>3, <2>1 DEF PageServed
  <2>4. \A i \in 1..Len(downlink[e]) :
          /\ record'[downlink[e][i][2]].at \in {"running", "over"}
          /\ record'[downlink[e][i][2]].epoch = e
          /\ downlink[e][i][1] # "item" => downlink[e][i][2] \notin DOMAIN serving'[e]
    BY <1>0, <1>2, <1>3, <2>1, <2>2 DEF PageServed
  <2>5. sockets[e] # "open" => DOMAIN serving'[e] = {}
    BY <1>0, <2>1 DEF PageServed
  <2> QED BY <2>3, <2>4, <2>5
<1>14. PageCounts'
  <2> SUFFICES ASSUME NEW x \in Records, record'[x].at = "running", record'[x].epoch = socket
               PROVE  /\ ItemsFrom(downlink[socket], x, Len(record'[x].items))
                      /\ x \in DOMAIN serving'[socket] =>
                           ItemsUpTo(downlink[socket], x, Len(record'[x].items), serving'[socket][x])
    BY <1>1 DEF PageCounts
  <2>1. x # r /\ record'[x] = record[x]
    BY <1>2, <1>3
  <2>2. socket \in 1..Len(sockets)
    BY <1>0, <2>1 DEF PageStreams
  <2>3. x \in DOMAIN serving'[socket] =>
          x \in DOMAIN serving[socket] /\ serving'[socket][x] = serving[socket][x]
    BY <1>9, <2>2
  <2> QED BY <1>0, <2>1, <2>3 DEF PageCounts
<1> QED BY <1>10, <1>11, <1>12, <1>13, <1>14 DEF PageIInv

\* A record of which nothing but its end is written.
LEMMA OverKeeps ==
  ASSUME PageTypes, PageStreams, NEW x \in Records, NEW w \in PageRecords,
         w.at = "over", w.epoch = record[x].epoch, w.items = record[x].items, w.end # "end" \/ w = record[x]
  PROVE  /\ w.end = "end" => w.ready = "resolved" /\ w.at = "over"
         /\ \A i \in 1..Len(w.items) : w.items[i] = <<w.epoch, i>>
  BY DEF PageStreams

LEMMA KeepsShutdown ==
  ASSUME PageIInv, Shutdown
  PROVE  PageIInv'
<1>0. PageTypes /\ PageSocket /\ PageStreams /\ PageServed /\ PageCounts
  BY DEF PageIInv
<1>1. socket \in 1..Len(sockets) /\ socket = Len(sockets)
  BY <1>0 DEF Shutdown, PageTypes
<1>2. /\ \A x \in Records : record'[x] = IF record[x].at = "new" THEN record[x]
                                         ELSE Finished(record[x], "cancelled")
      /\ DOMAIN record' = Records /\ record' = [x \in Records |-> record'[x]]
      /\ socket' = 0 /\ socketPromise' = FALSE /\ UNCHANGED downlink
  BY DEF Shutdown
<1>3. \A x \in Records : record[x] \in PageRecords
  BY <1>0 DEF PageTypes
<1>4. \A x \in Records :
        /\ record'[x] \in PageRecords /\ record'[x].epoch = record[x].epoch
        /\ record'[x].items = record[x].items /\ record'[x].ready = record[x].ready
        /\ record[x].at = "new" => record'[x] = record[x]
        /\ record[x].at # "new" => record'[x].at = "over"
        /\ record'[x].end = "end" => record'[x] = record[x]
  <2> SUFFICES ASSUME NEW x \in Records
               PROVE  /\ record'[x] \in PageRecords /\ record'[x].epoch = record[x].epoch
                      /\ record'[x].items = record[x].items /\ record'[x].ready = record[x].ready
                      /\ record[x].at = "new" => record'[x] = record[x]
                      /\ record[x].at # "new" => record'[x].at = "over"
                      /\ record'[x].end = "end" => record'[x] = record[x]
    OBVIOUS
  <2>1. CASE record[x].at = "new"
    BY <1>2, <1>3, <2>1
  <2>2. CASE record[x].at # "new"
    <3>1. record'[x] = Finished(record[x], "cancelled")
      BY <1>2, <2>2
    <3>2. record[x].at = "over" => Finished(record[x], "cancelled") = record[x]
      BY DEF Finished
    <3> QED BY <1>3, <2>2, <3>1, <3>2, FinishedFields
  <2> QED BY <2>1, <2>2
<1>5. record' \in [Records -> PageRecords]
  BY <1>2, <1>4
<1> DEFINE st == CASE sockets[socket] = "open" -> "closing" [] sockets[socket] = "connecting" -> "refused"
                   [] OTHER -> sockets[socket]
<1>6. st \in {"closing", "refused"}
  <2>1. sockets[socket] \in SocketStates /\ sockets[socket] # "closed"
    BY <1>0, <1>1, PageFacts DEF PageSocket
  <2> QED BY <2>1 DEF SocketStates
<1>7. sockets' = [sockets EXCEPT ![socket] = st]
  BY DEF Shutdown
<1> HIDE DEF st
<1>8. /\ sockets' \in Seq(SocketStates) /\ Len(sockets') = Len(sockets)
      /\ sockets'[socket] \in {"closing", "refused"}
      /\ \A e \in 1..Len(sockets) : e # socket => sockets'[e] = sockets[e]
  <2>1. sockets \in Seq(SocketStates) /\ st \in SocketStates
    BY <1>0, <1>6 DEF PageTypes, SocketStates
  <2> QED BY <1>1, <1>6, <1>7, <2>1
<1>9. /\ serving' \in Seq(Servings) /\ Len(serving') = Len(serving) /\ serving'[socket] = <<>>
      /\ \A e \in 1..Len(sockets) : e # socket => serving'[e] = serving[e]
  <2>1. serving \in Seq(Servings) /\ Len(serving) = Len(sockets) /\ <<>> \in Servings
    BY <1>0, NothingServed DEF PageTypes
  <2>2. serving' = [serving EXCEPT ![socket] = <<>>]
    BY DEF Shutdown
  <2> QED BY <1>1, <2>1, <2>2
<1>10. \A e \in 1..Len(sockets) : DOMAIN serving'[e] = {}
  <2> SUFFICES ASSUME NEW e \in 1..Len(sockets) PROVE DOMAIN serving'[e] = {}
    OBVIOUS
  <2>1. CASE e = socket
    <3>1. serving'[e] = <<>> /\ DOMAIN <<>> = {}
      BY <1>9, <2>1
    <3> QED BY <3>1
  <2>2. CASE e # socket
    <3>1. sockets[e] # "open"
      BY <1>0, <2>2 DEF PageSocket
    <3> QED BY <1>0, <1>9, <2>2, <3>1 DEF PageServed
  <2> QED BY <2>1, <2>2
<1>11. PageTypes'
  BY <1>0, <1>2, <1>5, <1>8, <1>9 DEF PageTypes
<1>12. PageSocket'
  <2>1. \A e \in 1..Len(sockets) : sockets'[e] \notin {"connecting", "open"}
    BY <1>0, <1>8 DEF PageSocket
  <2> QED BY <1>2, <1>8, <2>1 DEF PageSocket
<1>13. PageStreams'
  <2> SUFFICES ASSUME NEW x \in Records
               PROVE  /\ record'[x].at \notin {"waiting", "running"}
                      /\ record'[x].at \in {"new", "waiting"} => record'[x].items = <<>>
                      /\ record'[x].end = "end" => record'[x].ready = "resolved" /\ record'[x].at = "over"
                      /\ \A i \in 1..Len(record'[x].items) : record'[x].items[i] = <<record'[x].epoch, i>>
    BY DEF PageStreams
  <2>1. record'[x].at \notin {"waiting", "running"}
    BY <1>4
  <2>2. record'[x].at \in {"new", "waiting"} => record'[x].items = <<>>
    BY <1>0, <1>4 DEF PageStreams
  <2>3. record'[x].end = "end" => record'[x].ready = "resolved" /\ record'[x].at = "over"
    BY <1>0, <1>4 DEF PageStreams
  <2>4. \A i \in 1..Len(record'[x].items) : record'[x].items[i] = <<record'[x].epoch, i>>
    BY <1>0, <1>4 DEF PageStreams
  <2> QED BY <2>1, <2>2, <2>3, <2>4
<1>14. PageServed'
  <2> SUFFICES ASSUME NEW e \in 1..Len(sockets), NEW i \in 1..Len(downlink[e])
               PROVE  /\ record'[downlink[e][i][2]].at \in {"running", "over"}
                      /\ record'[downlink[e][i][2]].epoch = e
    BY <1>2, <1>8, <1>10 DEF PageServed
  <2>1. downlink[e][i][2] \in Records
    BY <1>0, PageFacts
  <2>2. record[downlink[e][i][2]].at \in {"running", "over"} /\ record[downlink[e][i][2]].epoch = e
    BY <1>0 DEF PageServed
  <2> QED BY <1>4, <2>1, <2>2
<1>15. PageCounts'
  BY <1>4 DEF PageCounts
<1> QED BY <1>11, <1>12, <1>13, <1>14, <1>15 DEF PageIInv

LEMMA KeepsSocketClosing ==
  ASSUME PageIInv, NEW e \in DOMAIN sockets, SocketClosing(e)
  PROVE  PageIInv'
<1>0. PageTypes /\ PageSocket /\ PageStreams /\ PageServed /\ PageCounts
  BY DEF PageIInv
<1>1. e \in 1..Len(sockets) /\ sockets[e] \in {"connecting", "open"} /\ socket = e
  BY <1>0, PageFacts DEF SocketClosing, PageSocket
<1> DEFINE st == IF sockets[e] = "open" THEN "closing" ELSE "refused"
<1>2. sockets' = [sockets EXCEPT ![e] = st] /\ serving' = [serving EXCEPT ![e] = <<>>]
      /\ UNCHANGED <<socket, socketPromise, record, downlink>>
  BY DEF SocketClosing
<1>3. /\ sockets \in Seq(SocketStates) /\ st \in SocketStates /\ st \in {"closing", "refused"}
      /\ sockets[e] = "connecting" => st = "refused"
      /\ sockets[e] = "open" => st = "closing"
  BY <1>0, <1>1 DEF PageTypes, SocketStates
<1> HIDE DEF st
<1>4. /\ sockets' \in Seq(SocketStates) /\ Len(sockets') = Len(sockets) /\ sockets'[e] = st
      /\ \A d \in 1..Len(sockets) : d # e => sockets'[d] = sockets[d]
  BY <1>1, <1>2, <1>3
<1>5. /\ serving' \in Seq(Servings) /\ Len(serving') = Len(serving) /\ serving'[e] = <<>>
      /\ \A d \in 1..Len(sockets) : d # e => serving'[d] = serving[d]
  <2>1. serving \in Seq(Servings) /\ Len(serving) = Len(sockets) /\ <<>> \in Servings
    BY <1>0, NothingServed DEF PageTypes
  <2> QED BY <1>1, <1>2, <2>1
<1>6. DOMAIN serving'[e] = {}
  <2>1. serving'[e] = <<>> /\ DOMAIN <<>> = {}
    BY <1>5
  <2> QED BY <2>1
<1>7. PageTypes'
  BY <1>0, <1>2, <1>4, <1>5 DEF PageTypes
<1>8. PageSocket'
  <2>1. \A d \in 1..Len(sockets) : sockets'[d] \notin {"connecting", "open"}
    BY <1>0, <1>1, <1>3, <1>4 DEF PageSocket
  <2>2. socketPromise => st = "refused"
    BY <1>0, <1>1, <1>3 DEF PageSocket
  <2>3. st = "refused" => socketPromise
    BY <1>0, <1>1, <1>3 DEF PageSocket
  <2>4. socket # 0
    BY <1>1
  <2> QED BY <1>1, <1>2, <1>3, <1>4, <2>1, <2>2, <2>3, <2>4 DEF PageSocket
<1>9. PageStreams'
  BY <1>0, <1>2, <1>4 DEF PageStreams
<1>10. PageServed'
  <2> SUFFICES ASSUME NEW d \in 1..Len(sockets)
               PROVE  /\ sockets'[d] # "open" => DOMAIN serving'[d] = {}
                      /\ \A x \in DOMAIN serving'[d] : record[x].at = "running" /\ record[x].epoch = d
                      /\ \A i \in 1..Len(downlink[d]) :
                           /\ record[downlink[d][i][2]].at \in {"running", "over"}
                           /\ record[downlink[d][i][2]].epoch = d
                           /\ downlink[d][i][1] # "item" => downlink[d][i][2] \notin DOMAIN serving'[d]
    BY <1>2, <1>4 DEF PageServed
  <2>1. CASE d = e
    BY <1>0, <1>6, <2>1 DEF PageServed
  <2>2. CASE d # e
    BY <1>0, <1>4, <1>5, <2>2 DEF PageServed
  <2> QED BY <2>1, <2>2
<1>11. PageCounts'
  BY <1>0, <1>1, <1>2, <1>6 DEF PageCounts
<1> QED BY <1>7, <1>8, <1>9, <1>10, <1>11 DEF PageIInv

LEMMA KeepsSocketClosed ==
  ASSUME PageIInv, NEW e \in DOMAIN sockets, SocketClosed(e)
  PROVE  PageIInv'
<1>0. PageTypes /\ PageSocket /\ PageStreams /\ PageServed /\ PageCounts
  BY DEF PageIInv
<1>1. /\ e \in 1..Len(sockets) /\ sockets[e] \in {"closing", "refused"} /\ downlink[e] = <<>>
      /\ sockets' = [sockets EXCEPT ![e] = "closed"] /\ UNCHANGED <<downlink, serving>>
  BY <1>0, PageFacts DEF SocketClosed
<1>2. /\ sockets' \in Seq(SocketStates) /\ Len(sockets') = Len(sockets) /\ sockets'[e] = "closed"
      /\ \A d \in 1..Len(sockets) : d # e => sockets'[d] = sockets[d]
  <2>1. sockets \in Seq(SocketStates) /\ "closed" \in SocketStates
    BY <1>0 DEF PageTypes, SocketStates
  <2> QED BY <1>1, <2>1
<1>3. \A d \in 1..Len(sockets) : sockets'[d] # "open" => DOMAIN serving[d] = {}
  BY <1>0, <1>1, <1>2 DEF PageServed
<1>4. CASE Current(e)
  <2>1. socket' = 0 /\ socketPromise' = FALSE /\ record' = Failed(e, sockets[e] = "refused")
    BY <1>4 DEF SocketClosed
  <2>2. socket = e /\ e = Len(sockets) /\ socket # 0
    BY <1>0, <1>1, <1>4 DEF Current, socketEpoch, PageTypes
  <2>3. \A x \in Records : record[x] \in PageRecords
    BY <1>0 DEF PageTypes
  \* Who waits waits for the socket that was refused.
  <2>4. \A x \in Records : record[x].at = "waiting" => sockets[e] = "refused"
    BY <1>0, <1>1, <2>2 DEF PageStreams, PageSocket
  <2> DEFINE over(x) == Finished(record[x], "failed")
             rejected(x) == [over(x) EXCEPT !.ready = "rejected"]
  <2>5. \A x \in Records :
          record'[x] = IF record[x].at = "running" /\ record[x].epoch = e THEN over(x)
                       ELSE IF record[x].at = "waiting" THEN rejected(x) ELSE record[x]
    BY <2>1, <2>4 DEF Failed
  <2>6. \A x \in Records : record[x].at # "over" =>
          /\ over(x) \in PageRecords /\ over(x).at = "over" /\ over(x).end = "failed"
          /\ over(x).epoch = record[x].epoch /\ over(x).items = record[x].items
          /\ rejected(x) \in PageRecords /\ rejected(x).at = "over" /\ rejected(x).end = "failed"
          /\ rejected(x).epoch = record[x].epoch /\ rejected(x).items = record[x].items
    <3> SUFFICES ASSUME NEW x \in Records, record[x].at # "over"
                 PROVE  /\ over(x) \in PageRecords /\ over(x).at = "over" /\ over(x).end = "failed"
                        /\ over(x).epoch = record[x].epoch /\ over(x).items = record[x].items
                        /\ rejected(x) \in PageRecords /\ rejected(x).at = "over" /\ rejected(x).end = "failed"
                        /\ rejected(x).epoch = record[x].epoch /\ rejected(x).items = record[x].items
      OBVIOUS
    <3>1. /\ over(x) \in PageRecords /\ over(x).at = "over" /\ over(x).end = "failed"
          /\ over(x).epoch = record[x].epoch /\ over(x).items = record[x].items
      BY <2>3, FinishedFields
    <3> DEFINE w == over(x)
    <3>2. w \in PageRecords
      BY <3>1
    <3>3. rejected(x) = [w EXCEPT !.ready = "rejected"]
      OBVIOUS
    <3> HIDE DEF w
    <3>4. LET z == [w EXCEPT !.ready = "rejected"] IN
          z \in PageRecords /\ z.at = w.at /\ z.end = w.end /\ z.epoch = w.epoch /\ z.items = w.items
      BY <3>2 DEF PageRecords
    <3> HIDE DEF rejected, over
    <3> QED BY <3>1, <3>3, <3>4 DEF w
  <2> HIDE DEF over, rejected
  <2>7. \A x \in Records :
          /\ record'[x] \in PageRecords /\ record'[x].epoch = record[x].epoch
          /\ record'[x].items = record[x].items /\ record'[x].at # "waiting"
          /\ record[x].at \in {"running", "over"} => record'[x].at \in {"running", "over"}
          /\ record'[x] = record[x] \/ (record'[x].at = "over" /\ record'[x].end = "failed")
          /\ record'[x].at = "running" => record[x].epoch # e
    <3> SUFFICES ASSUME NEW x \in Records
                 PROVE  /\ record'[x] \in PageRecords /\ record'[x].epoch = record[x].epoch
                        /\ record'[x].items = record[x].items /\ record'[x].at # "waiting"
                        /\ record[x].at \in {"running", "over"} => record'[x].at \in {"running", "over"}
                        /\ record'[x] = record[x] \/ (record'[x].at = "over" /\ record'[x].end = "failed")
                        /\ record'[x].at = "running" => record[x].epoch # e
      OBVIOUS
    <3>1. CASE record[x].at = "running" /\ record[x].epoch = e
      <4>1. record'[x] = over(x) /\ record[x].at # "over"
        BY <2>5, <3>1
      <4> QED BY <2>6, <4>1
    <3>2. CASE record[x].at = "waiting"
      <4>1. record'[x] = rejected(x) /\ record[x].at # "over"
        BY <2>5, <3>2
      <4> QED BY <2>6, <4>1, <3>2
    <3>3. CASE ~(record[x].at = "running" /\ record[x].epoch = e) /\ record[x].at # "waiting"
      <4>1. record'[x] = record[x]
        BY <2>5, <3>3
      <4> QED BY <2>3, <4>1, <3>3
    <3> QED BY <3>1, <3>2, <3>3
  <2>8. record' \in [Records -> PageRecords]
    BY <2>1, <2>7 DEF Failed
  <2>9. PageTypes'
    BY <1>0, <1>1, <1>2, <2>1, <2>8 DEF PageTypes
  <2>10. PageSocket'
    <3>1. \A d \in 1..Len(sockets) : sockets'[d] \notin {"connecting", "open"}
      BY <1>0, <1>2, <2>2 DEF PageSocket
    <3> QED BY <1>2, <2>1, <3>1 DEF PageSocket
  <2>11. PageStreams'
    <3> SUFFICES ASSUME NEW x \in Records
                 PROVE  /\ record'[x].at # "waiting"
                        /\ record'[x].at = "running" =>
                             /\ record'[x].epoch \in 1..Len(sockets) /\ record'[x].ready = "resolved"
                             /\ record'[x].epoch # Len(sockets)
                        /\ record'[x].at \in {"new", "waiting"} => record'[x].items = <<>>
                        /\ record'[x].end = "end" => record'[x].ready = "resolved" /\ record'[x].at = "over"
                        /\ \A i \in 1..Len(record'[x].items) : record'[x].items[i] = <<record'[x].epoch, i>>
      BY <1>2 DEF PageStreams
    <3>1. record'[x].at = "running" => record'[x] = record[x] /\ record'[x].epoch # Len(sockets)
      BY <2>2, <2>7
    <3>2. record'[x].at \in {"new", "waiting"} => record'[x] = record[x]
      BY <2>7
    <3>3. record'[x].end = "end" => record'[x] = record[x]
      BY <2>7
    <3>4. \A i \in 1..Len(record'[x].items) : record'[x].items[i] = <<record'[x].epoch, i>>
      BY <1>0, <2>7 DEF PageStreams
    <3> QED BY <1>0, <2>7, <3>1, <3>2, <3>3, <3>4 DEF PageStreams
  <2>12. PageServed'
    <3>1. \A d \in 1..Len(sockets) : \A i \in 1..Len(downlink[d]) : downlink[d][i][2] \in Records
      BY <1>0, PageFacts
    <3>2. \A d \in 1..Len(sockets) : DOMAIN serving[d] = {}
      BY <1>0, <1>1, <2>2 DEF PageServed, PageSocket
    <3> SUFFICES ASSUME NEW d \in 1..Len(sockets), NEW i \in 1..Len(downlink[d])
                 PROVE  /\ record'[downlink[d][i][2]].at \in {"running", "over"}
                        /\ record'[downlink[d][i][2]].epoch = d
      BY <1>1, <1>2, <3>2 DEF PageServed
    <3>3. record[downlink[d][i][2]].at \in {"running", "over"} /\ record[downlink[d][i][2]].epoch = d
      BY <1>0 DEF PageServed
    <3> QED BY <2>7, <3>1, <3>3
  <2>13. PageCounts'
    <3>1. \A x \in Records : record'[x].at = "running" => record'[x].epoch # 0
      BY <1>0, <2>7 DEF PageStreams
    <3> QED BY <2>1, <3>1 DEF PageCounts
  <2> QED BY <2>9, <2>10, <2>11, <2>12, <2>13 DEF PageIInv
<1>5. CASE ~Current(e)
  <2>1. UNCHANGED <<socket, socketPromise, record>>
    BY <1>5 DEF SocketClosed
  <2>2. socket # e
    <3>1. socket = e => e = Len(sockets)
      BY <1>0, <1>1 DEF PageTypes
    <3> QED BY <1>5, <3>1 DEF Current, socketEpoch
  <2>3. PageTypes'
    BY <1>0, <1>1, <1>2, <2>1 DEF PageTypes
  <2>4. PageSocket'
    <3>1. socket # 0 => sockets'[socket] = sockets[socket]
      BY <1>0, <1>2, <2>2 DEF PageTypes
    <3> QED BY <1>0, <1>2, <2>1, <3>1 DEF PageSocket
  <2>5. PageStreams'
    BY <1>0, <1>2, <2>1 DEF PageStreams
  <2>6. PageServed'
    BY <1>0, <1>1, <1>2, <1>3, <2>1 DEF PageServed
  <2>7. PageCounts'
    BY <1>0, <1>1, <2>1 DEF PageCounts
  <2> QED BY <2>3, <2>4, <2>5, <2>6, <2>7 DEF PageIInv
<1> QED BY <1>4, <1>5

LEMMA KeepsSocketOpens ==
  ASSUME PageIInv, NEW e \in DOMAIN sockets, SocketOpens(e)
  PROVE  PageIInv'
<1>0. PageTypes /\ PageSocket /\ PageStreams /\ PageServed /\ PageCounts
  BY DEF PageIInv
<1>1. /\ e \in 1..Len(sockets) /\ sockets[e] = "connecting" /\ socket = e /\ e = Len(sockets)
      /\ sockets' = [sockets EXCEPT ![e] = "open"] /\ UNCHANGED <<socket, downlink>>
  <2>1. e \in 1..Len(sockets) /\ sockets[e] = "connecting"
    BY <1>0, PageFacts DEF SocketOpens
  <2>2. socket = e
    BY <1>0, <2>1 DEF PageSocket
  <2> QED BY <1>0, <2>1, <2>2 DEF SocketOpens, PageTypes
<1> DEFINE waiting == {r \in Records : record[r].at = "waiting"}
<1>2. /\ socketPromise' = FALSE
      /\ record' = [r \in Records |-> IF r \in waiting THEN Running(record[r], e) ELSE record[r]]
      /\ OpenAll(e, waiting)
  BY <1>1 DEF SocketOpens, Current, socketEpoch
<1>3. \A r \in Records : r \in waiting <=> record[r].at = "waiting"
  OBVIOUS
<1>4. waiting \in SUBSET Records
  OBVIOUS
<1> HIDE DEF waiting
<1>5. /\ serving' \in Seq(Servings) /\ Len(serving') = Len(serving)
      /\ \A d \in 1..Len(sockets) : d # e => serving'[d] = serving[d]
      /\ DOMAIN serving'[e] = DOMAIN serving[e] \cup waiting
      /\ \A r \in waiting \ DOMAIN serving[e] : serving'[e][r] = 0
  BY <1>0, <1>1, <1>2, <1>4, Opened
<1>6. /\ sockets' \in Seq(SocketStates) /\ Len(sockets') = Len(sockets) /\ sockets'[e] = "open"
      /\ \A d \in 1..Len(sockets) : d # e => sockets'[d] = sockets[d]
  <2>1. sockets \in Seq(SocketStates) /\ "open" \in SocketStates
    BY <1>0 DEF PageTypes, SocketStates
  <2> QED BY <1>1, <2>1
<1>7. \A r \in Records : record[r] \in PageRecords
  BY <1>0 DEF PageTypes
<1>8. \A r \in waiting :
        /\ record'[r] \in PageRecords /\ record'[r].at = "running" /\ record'[r].epoch = e
        /\ record'[r].ready = "resolved" /\ record'[r].items = record[r].items
        /\ record'[r].end = record[r].end
  <2> SUFFICES ASSUME NEW r \in waiting
               PROVE  /\ record'[r] \in PageRecords /\ record'[r].at = "running" /\ record'[r].epoch = e
                      /\ record'[r].ready = "resolved" /\ record'[r].items = record[r].items
                      /\ record'[r].end = record[r].end
    OBVIOUS
  <2>1. record'[r] = Running(record[r], e) /\ record[r] \in PageRecords /\ e \in Nat
    BY <1>1, <1>2, <1>4, <1>7
  <2> QED BY <2>1, RunningFields
<1>9. \A r \in Records : record[r].at # "waiting" => record'[r] = record[r]
  BY <1>2, <1>3
<1>10. record' \in [Records -> PageRecords]
  <2>1. \A r \in Records : record'[r] \in PageRecords
    BY <1>3, <1>7, <1>8, <1>9
  <2> QED BY <1>2, <2>1
<1>11. PageTypes'
  BY <1>0, <1>1, <1>2, <1>5, <1>6, <1>10 DEF PageTypes
<1>12. PageSocket'
  BY <1>0, <1>1, <1>2, <1>6 DEF PageSocket
<1>13. PageStreams'
  <2> SUFFICES ASSUME NEW x \in Records
               PROVE  /\ record'[x].at # "waiting"
                      /\ record'[x].at = "running" =>
                           /\ record'[x].epoch \in 1..Len(sockets) /\ record'[x].ready = "resolved"
                      /\ record'[x].at \in {"new", "waiting"} => record'[x].items = <<>>
                      /\ record'[x].end = "end" => record'[x].ready = "resolved" /\ record'[x].at = "over"
                      /\ \A i \in 1..Len(record'[x].items) : record'[x].items[i] = <<record'[x].epoch, i>>
    BY <1>1, <1>6 DEF PageStreams
  <2>1. CASE record[x].at = "waiting"
    <3>1. x \in waiting /\ record[x].items = <<>> /\ record[x].end # "end" /\ Len(<<>>) = 0
      BY <1>0, <1>3, <2>1 DEF PageStreams
    <3> QED BY <1>1, <1>8, <3>1
  <2>2. CASE record[x].at # "waiting"
    BY <1>0, <1>9, <2>2 DEF PageStreams
  <2> QED BY <2>1, <2>2
<1>14. PageServed'
  <2> SUFFICES ASSUME NEW d \in 1..Len(sockets)
               PROVE  /\ sockets'[d] # "open" => DOMAIN serving'[d] = {}
                      /\ \A x \in DOMAIN serving'[d] : record'[x].at = "running" /\ record'[x].epoch = d
                      /\ \A i \in 1..Len(downlink[d]) :
                           /\ record'[downlink[d][i][2]].at \in {"running", "over"}
                           /\ record'[downlink[d][i][2]].epoch = d
                           /\ downlink[d][i][1] # "item" => downlink[d][i][2] \notin DOMAIN serving'[d]
    BY <1>1, <1>6 DEF PageServed
  <2>1. DOMAIN serving'[d] = IF d = e THEN DOMAIN serving[d] \cup waiting ELSE DOMAIN serving[d]
    BY <1>5
  <2>2. DOMAIN serving[d] \in SUBSET Records
    BY <1>0, PageFacts
  <2>3. \A x \in waiting : /\ x \notin DOMAIN serving[d]
                           /\ \A i \in 1..Len(downlink[d]) : downlink[d][i][2] # x
    BY <1>3, <1>4, NothingYet
  <2>4. \A i \in 1..Len(downlink[d]) : downlink[d][i][2] \in Records
    BY <1>0, PageFacts
  <2>5. sockets'[d] # "open" => DOMAIN serving'[d] = {}
    BY <1>0, <1>6, <2>1 DEF PageServed
  <2>6. \A x \in DOMAIN serving'[d] : record'[x].at = "running" /\ record'[x].epoch = d
    <3> SUFFICES ASSUME NEW x \in DOMAIN serving'[d]
                 PROVE  record'[x].at = "running" /\ record'[x].epoch = d
      OBVIOUS
    <3>1. CASE x \in DOMAIN serving[d]
      BY <1>0, <1>9, <2>2, <3>1 DEF PageServed
    <3>2. CASE x \notin DOMAIN serving[d]
      BY <1>8, <2>1, <3>2
    <3> QED BY <3>1, <3>2
  <2>7. \A i \in 1..Len(downlink[d]) :
          /\ record'[downlink[d][i][2]].at \in {"running", "over"}
          /\ record'[downlink[d][i][2]].epoch = d
          /\ downlink[d][i][1] # "item" => downlink[d][i][2] \notin DOMAIN serving'[d]
    <3> SUFFICES ASSUME NEW i \in 1..Len(downlink[d])
                 PROVE  /\ record'[downlink[d][i][2]].at \in {"running", "over"}
                        /\ record'[downlink[d][i][2]].epoch = d
                        /\ downlink[d][i][1] # "item" => downlink[d][i][2] \notin DOMAIN serving'[d]
      OBVIOUS
    <3>1. /\ record[downlink[d][i][2]].at \in {"running", "over"} /\ record[downlink[d][i][2]].epoch = d
          /\ downlink[d][i][1] # "item" => downlink[d][i][2] \notin DOMAIN serving[d]
      BY <1>0 DEF PageServed
    <3>2. record'[downlink[d][i][2]] = record[downlink[d][i][2]]
      BY <1>9, <2>4, <3>1
    <3> QED BY <2>1, <2>3, <3>1, <3>2
  <2> QED BY <2>5, <2>6, <2>7
<1>15. PageCounts'
  \* Nothing ran on this socket before it opened.
  <2> SUFFICES ASSUME NEW x \in Records, record'[x].at = "running", record'[x].epoch = e
               PROVE  /\ ItemsFrom(downlink[e], x, Len(record'[x].items))
                      /\ x \in DOMAIN serving'[e] =>
                           ItemsUpTo(downlink[e], x, Len(record'[x].items), serving'[e][x])
    BY <1>1 DEF PageCounts
  <2>1. CASE record[x].at = "waiting"
    <3>1. x \in waiting
      BY <1>3, <2>1
    <3>2. /\ x \notin DOMAIN serving[e] /\ record[x].items = <<>>
          /\ ItemsFrom(downlink[e], x, 0) /\ ItemsUpTo(downlink[e], x, 0, 0)
      BY <1>1, <2>1, NothingYet
    <3>3. record'[x].items = <<>> /\ Len(<<>>) = 0 /\ serving'[e][x] = 0
      BY <1>5, <1>8, <3>1, <3>2
    <3> QED BY <3>2, <3>3
  <2>2. CASE record[x].at # "waiting"
    <3>1. record'[x] = record[x] /\ record[x].epoch = socket
      BY <1>1, <1>9, <2>2
    <3>2. /\ ItemsFrom(downlink[e], x, Len(record[x].items))
          /\ DOMAIN serving[e] = {}
      BY <1>0, <1>1, <3>1 DEF PageCounts, PageServed
    <3>3. x \notin DOMAIN serving'[e]
      BY <1>3, <1>5, <2>2, <3>2
    <3> QED BY <3>1, <3>2, <3>3
  <2> QED BY <2>1, <2>2
<1> QED BY <1>11, <1>12, <1>13, <1>14, <1>15 DEF PageIInv

\* The next item of a stream, or its last frame.
LEMMA KeepsServerSends ==
  ASSUME PageIInv, NEW e \in DOMAIN sockets, NEW r \in Records, ServerSends(e, r)
  PROVE  PageIInv'
<1>0. PageTypes /\ PageSocket /\ PageStreams /\ PageServed /\ PageCounts
  BY DEF PageIInv
<1>1. /\ e \in 1..Len(sockets) /\ sockets[e] = "open" /\ r \in DOMAIN serving[e]
      /\ UNCHANGED <<sockets, socket, socketPromise, record>>
  BY <1>0, PageFacts DEF ServerSends
<1>2. socket = e /\ record[r].at = "running" /\ record[r].epoch = e
  BY <1>0, <1>1 DEF PageServed, PageSocket
<1>3. /\ serving \in Seq(Servings) /\ Len(serving) = Len(sockets) /\ serving[e] \in Servings
      /\ downlink \in Seq(Seq(PageFrames)) /\ Len(downlink) = Len(sockets) /\ downlink[e] \in Seq(PageFrames)
  BY <1>0, <1>1, PageFacts DEF PageTypes
<1>4. DOMAIN serving[e] \in SUBSET Records /\ \A x \in DOMAIN serving[e] : serving[e][x] \in Nat
  BY <1>3, ServingsFields
\* What both kinds of frames have in common.
<1>5. ASSUME NEW f \in PageFrames, f[2] = r, NEW s \in Servings, DOMAIN s \in SUBSET DOMAIN serving[e],
             f[1] # "item" => r \notin DOMAIN s,
             serving' = [serving EXCEPT ![e] = s], downlink' = [downlink EXCEPT ![e] = Append(downlink[e], f)],
             ItemsFrom(Append(downlink[e], f), r, Len(record[r].items)),
             r \in DOMAIN s => ItemsUpTo(Append(downlink[e], f), r, Len(record[r].items), s[r]),
             \A x \in DOMAIN s : x # r => s[x] = serving[e][x]
      PROVE  PageIInv'
  <2> DEFINE q == downlink[e]
             p == Append(q, f)
  <2>1. p \in Seq(PageFrames) /\ Len(p) = Len(q) + 1 /\ p[Len(q) + 1] = f
        /\ Len(q) \in Nat /\ \A i \in 1..Len(q) : p[i] = q[i]
    BY <1>3
  <2>2. /\ serving' \in Seq(Servings) /\ Len(serving') = Len(serving) /\ serving'[e] = s
        /\ \A d \in 1..Len(sockets) : d # e => serving'[d] = serving[d]
    BY <1>1, <1>3, <1>5
  <2> HIDE DEF p
  <2>3. /\ downlink' \in Seq(Seq(PageFrames)) /\ Len(downlink') = Len(downlink) /\ downlink'[e] = p
        /\ \A d \in 1..Len(sockets) : d # e => downlink'[d] = downlink[d]
    <3>1. downlink' = [downlink EXCEPT ![e] = p]
      BY <1>5 DEF p
    <3> QED BY <1>1, <1>3, <2>1, <3>1
  <2>4. PageTypes'
    BY <1>0, <1>1, <2>2, <2>3 DEF PageTypes
  <2>5. PageSocket'
    BY <1>0, <1>1 DEF PageSocket
  <2>6. PageStreams'
    BY <1>0, <1>1 DEF PageStreams
  <2>7. PageServed'
    <3> SUFFICES ASSUME NEW d \in 1..Len(sockets)
                 PROVE  /\ sockets[d] # "open" => DOMAIN serving'[d] = {}
                        /\ \A x \in DOMAIN serving'[d] : record[x].at = "running" /\ record[x].epoch = d
                        /\ \A i \in 1..Len(downlink'[d]) :
                             /\ record[downlink'[d][i][2]].at \in {"running", "over"}
                             /\ record[downlink'[d][i][2]].epoch = d
                             /\ downlink'[d][i][1] # "item" => downlink'[d][i][2] \notin DOMAIN serving'[d]
      BY <1>1 DEF PageServed
    <3>1. CASE d # e
      <4>1. serving'[d] = serving[d] /\ downlink'[d] = downlink[d]
        BY <2>2, <2>3, <3>1
      <4> QED BY <1>0, <4>1 DEF PageServed
    <3>2. CASE d = e
      <4>1. \A x \in DOMAIN s : record[x].at = "running" /\ record[x].epoch = e
        BY <1>0, <1>1, <1>5 DEF PageServed
      <4>2. ASSUME NEW i \in 1..Len(p)
            PROVE  /\ record[p[i][2]].at \in {"running", "over"} /\ record[p[i][2]].epoch = e
                   /\ p[i][1] # "item" => p[i][2] \notin DOMAIN s
        <5>1. CASE i = Len(q) + 1
          BY <1>2, <1>5, <2>1, <5>1
        <5>2. CASE i # Len(q) + 1
          <6>1. i \in 1..Len(q) /\ p[i] = q[i]
            BY <2>1, <5>2
          <6>2. /\ record[q[i][2]].at \in {"running", "over"} /\ record[q[i][2]].epoch = e
                /\ q[i][1] # "item" => q[i][2] \notin DOMAIN serving[e]
            BY <1>0, <1>1, <6>1 DEF PageServed
          <6> QED BY <1>5, <6>1, <6>2
        <5> QED BY <5>1, <5>2
      <4> QED BY <1>1, <2>2, <2>3, <3>2, <4>1, <4>2
    <3> QED BY <3>1, <3>2
  <2>8. PageCounts'
    <3> SUFFICES ASSUME NEW x \in Records, record[x].at = "running", record[x].epoch = e
                 PROVE  /\ ItemsFrom(p, x, Len(record[x].items))
                        /\ x \in DOMAIN s => ItemsUpTo(p, x, Len(record[x].items), s[x])
      BY <1>1, <1>2, <2>2, <2>3 DEF PageCounts
    <3>1. CASE x = r
      BY <1>5, <3>1 DEF p
    <3>2. CASE x # r
      <4>1. ~ItemOf(f, x)
        BY <1>5, <3>2 DEF ItemOf
      <4>2. ItemsFrom(q, x, Len(record[x].items))
        BY <1>0, <1>2 DEF PageCounts
      <4>3. x \in DOMAIN s => ItemsUpTo(q, x, Len(record[x].items), s[x]) /\ s[x] \in Nat
        BY <1>0, <1>2, <1>4, <1>5, <3>2 DEF PageCounts
      <4>4. Len(record[x].items) \in Nat
        <5>1. record[x].items \in Seq(Nat \X Nat)
          BY <1>0, PageFields DEF PageTypes
        <5> QED BY <5>1
      <4> HIDE DEF q
      <4>5. q \in Seq(PageFrames)
        BY <1>3 DEF q
      <4>6. ItemsFrom(Append(q, f), x, Len(record[x].items))
        BY <1>5, <4>1, <4>2, <4>4, <4>5, OtherAdded
      <4>7. x \in DOMAIN s => ItemsUpTo(Append(q, f), x, Len(record[x].items), s[x])
        BY <1>5, <4>1, <4>3, <4>4, <4>5, OtherAdded
      <4> QED BY <4>6, <4>7 DEF p
    <3> QED BY <3>1, <3>2
  <2> QED BY <2>4, <2>5, <2>6, <2>7, <2>8 DEF PageIInv
<1>6. /\ Len(record[r].items) \in Nat /\ serving[e][r] \in Nat
      /\ ItemsFrom(downlink[e], r, Len(record[r].items))
      /\ ItemsUpTo(downlink[e], r, Len(record[r].items), serving[e][r])
  <2>1. record[r].items \in Seq(Nat \X Nat)
    BY <1>0, PageFields DEF PageTypes
  <2> QED BY <1>0, <1>1, <1>2, <1>4, <2>1 DEF PageCounts
<1>7. ASSUME serving' = [serving EXCEPT ![e][r] = @ + 1],
             downlink' = [downlink EXCEPT ![e] = Append(@, <<"item", r, serving[e][r] + 1>>)]
      PROVE  PageIInv'
  <2> DEFINE f == <<"item", r, serving[e][r] + 1>>
             s == [serving[e] EXCEPT ![r] = serving[e][r] + 1]
  <2>1. f \in PageFrames /\ f[2] = r /\ f[1] = "item"
    BY <1>6 DEF PageFrames
  <2>2. DOMAIN s = DOMAIN serving[e] /\ s[r] = serving[e][r] + 1
        /\ \A x \in DOMAIN s : x # r => s[x] = serving[e][x]
    BY <1>1
  <2>3. s \in Servings
    <3>1. s \in [DOMAIN serving[e] -> Nat]
      <4>1. serving[e] \in [DOMAIN serving[e] -> Nat]
        <5> DEFINE g == serving[e]
        <5>1. PICK D \in SUBSET Records : g \in [D -> Nat]
          BY <1>3 DEF Servings
        <5> HIDE DEF g
        <5>2. g \in [DOMAIN g -> Nat]
          BY <5>1
        <5> QED BY <5>2 DEF g
      <4> DEFINE g == serving[e]
                 v == serving[e][r] + 1
      <4>2. g \in [DOMAIN g -> Nat] /\ v \in Nat /\ s = [g EXCEPT ![r] = v]
        BY <1>6, <4>1
      <4> HIDE DEF g, v, s
      <4>3. s \in [DOMAIN g -> Nat]
        BY <4>2
      <4> QED BY <4>3 DEF g
    <3> QED BY <1>4, <3>1 DEF Servings
  <2>4. serving' = [serving EXCEPT ![e] = s] /\ downlink' = [downlink EXCEPT ![e] = Append(downlink[e], f)]
    BY <1>7
  <2>5. /\ ItemsFrom(Append(downlink[e], f), r, Len(record[r].items))
        /\ ItemsUpTo(Append(downlink[e], f), r, Len(record[r].items), s[r])
    BY <1>3, <1>6, <2>2, ItemAdded
  <2> HIDE DEF f, s
  <2>6. DOMAIN s \in SUBSET DOMAIN serving[e]
    BY <2>2
  <2> QED BY <1>5, <2>1, <2>2, <2>3, <2>4, <2>5, <2>6
<1>8. ASSUME NEW type \in {"end", "error"},
             serving' = [serving EXCEPT ![e] = [x \in DOMAIN @ \ {r} |-> @[x]]],
             downlink' = [downlink EXCEPT ![e] = Append(@, <<type, r, 0>>)]
      PROVE  PageIInv'
  <2> DEFINE f == <<type, r, 0>>
             s == [x \in DOMAIN serving[e] \ {r} |-> serving[e][x]]
  <2>1. f \in PageFrames /\ f[2] = r /\ f[1] # "item"
    BY DEF PageFrames
  <2>2. /\ DOMAIN s = DOMAIN serving[e] \ {r} /\ \A x \in DOMAIN s : s[x] = serving[e][x]
        /\ r \notin DOMAIN s /\ DOMAIN s \in SUBSET DOMAIN serving[e]
    OBVIOUS
  <2>3. s \in Servings
    <3>1. s \in [DOMAIN serving[e] \ {r} -> Nat]
      BY <1>4
    <3> QED BY <1>4, <3>1 DEF Servings
  <2>4. serving' = [serving EXCEPT ![e] = s] /\ downlink' = [downlink EXCEPT ![e] = Append(downlink[e], f)]
    BY <1>8
  <2>5. ItemsFrom(Append(downlink[e], f), r, Len(record[r].items))
    <3>1. ~ItemOf(f, r)
      BY <2>1 DEF ItemOf
    <3> HIDE DEF f, s
    <3> QED BY <1>3, <1>6, <2>1, <3>1, OtherAdded
  <2> HIDE DEF f, s
  <2> QED BY <1>5, <2>1, <2>2, <2>3, <2>4, <2>5
<1> QED BY <1>7, <1>8 DEF ServerSends

LEMMA KeepsMessageArrives ==
  ASSUME PageIInv, NEW e \in DOMAIN sockets, MessageArrives(e)
  PROVE  PageIInv'
<1>0. PageTypes /\ PageSocket /\ PageStreams /\ PageServed /\ PageCounts
  BY DEF PageIInv
<1> DEFINE q == downlink[e]
           f == Head(q)
           r == f[2]
<1>1. /\ e \in 1..Len(sockets) /\ q # <<>> /\ q \in Seq(PageFrames)
      /\ downlink' = [downlink EXCEPT ![e] = Tail(q)]
      /\ UNCHANGED <<sockets, socket, socketPromise, serving>>
  BY <1>0, PageFacts DEF MessageArrives
<1>2. /\ f \in PageFrames /\ f = q[1] /\ 1 \in 1..Len(q) /\ Tail(q) \in Seq(PageFrames)
      /\ \A i \in 1..Len(Tail(q)) : Tail(q)[i] = q[i + 1] /\ i + 1 \in 1..Len(q)
  BY <1>1
<1>3. r \in Records /\ f[3] \in Nat /\ f[1] \in {"item", "end", "error"}
  BY <1>2 DEF PageFrames
<1>4. /\ record[r].at \in {"running", "over"} /\ record[r].epoch = e
      /\ f[1] # "item" => r \notin DOMAIN serving[e]
  BY <1>0, <1>1, <1>2 DEF PageServed
<1>5. /\ downlink' \in Seq(Seq(PageFrames)) /\ Len(downlink') = Len(downlink) /\ downlink'[e] = Tail(q)
      /\ \A d \in 1..Len(sockets) : d # e => downlink'[d] = downlink[d]
  <2>1. downlink \in Seq(Seq(PageFrames)) /\ Len(downlink) = Len(sockets)
    BY <1>0 DEF PageTypes
  <2> HIDE DEF q
  <2> QED BY <1>1, <1>2, <2>1
<1>6. record[r] \in PageRecords /\ record[r].items \in Seq(Nat \X Nat)
  BY <1>0, <1>3, PageFields DEF PageTypes
<1> DEFINE taken == Current(e) /\ Delivered(record[r], e, f)
           w == Received(record[r], e, f)
<1>7. record' = IF taken THEN [record EXCEPT ![r] = w] ELSE record
  <2>1. CASE taken
    BY <2>1 DEF MessageArrives
  <2>2. CASE ~taken
    BY <2>2 DEF MessageArrives
  <2> QED BY <2>1, <2>2
<1>8. taken => socket = e /\ record[r].at = "running"
  BY DEF Current, Delivered
<1>9. socket = e /\ record[r].at = "running" => taken
  BY <1>0, <1>1, <1>4 DEF Current, Delivered, socketEpoch, PageTypes
<1> HIDE DEF taken, q, f
<1>10. f[1] = "item" =>
         /\ w \in PageRecords /\ w.at = record[r].at /\ w.epoch = record[r].epoch
         /\ w.ready = record[r].ready /\ w.end = record[r].end
         /\ w.items = Append(record[r].items, <<e, f[3]>>)
  <2> DEFINE c == record[r]
             it == Append(c.items, <<e, f[3]>>)
  <2>1. it \in Seq(Nat \X Nat)
    BY <1>1, <1>3, <1>6
  <2>2. f[1] = "item" => w = [c EXCEPT !.items = it]
    BY DEF Received
  <2>3. c \in PageRecords
    BY <1>6
  <2> HIDE DEF c, it, w
  <2>4. LET z == [c EXCEPT !.items = it] IN
        /\ z \in PageRecords /\ z.at = c.at /\ z.epoch = c.epoch /\ z.ready = c.ready
        /\ z.end = c.end /\ z.items = it
    BY <2>1, <2>3 DEF PageRecords
  <2> QED BY <2>2, <2>4 DEF c, it
<1>11. f[1] # "item" /\ record[r].at = "running" =>
         /\ w \in PageRecords /\ w.at = "over" /\ w.epoch = record[r].epoch
         /\ w.ready = record[r].ready /\ w.end = f[1] /\ w.items = record[r].items
  <2> SUFFICES ASSUME f[1] # "item", record[r].at = "running"
               PROVE  /\ w \in PageRecords /\ w.at = "over" /\ w.epoch = record[r].epoch
                      /\ w.ready = record[r].ready /\ w.end = f[1] /\ w.items = record[r].items
    OBVIOUS
  <2>1. f[1] \in {"end", "error", "failed", "cancelled"} /\ w = Finished(record[r], f[1])
    BY <1>3 DEF Received
  <2> HIDE DEF w
  <2> QED BY <1>6, <2>1, FinishedFields
<1> HIDE DEF w, r
<1>12. /\ \A x \in Records : x # r \/ ~taken => record'[x] = record[x]
       /\ taken => record'[r] = w
  BY <1>0, <1>3, <1>7 DEF PageTypes
<1>13. record' \in [Records -> PageRecords]
  <2>1. taken => w \in PageRecords
    BY <1>8, <1>10, <1>11
  <2> QED BY <1>0, <1>3, <1>7, <2>1 DEF PageTypes
<1>14. \A x \in Records :
         /\ record'[x].epoch = record[x].epoch /\ record'[x].ready = record[x].ready
         /\ record[x].at \in {"running", "over"} => record'[x].at \in {"running", "over"}
         /\ record'[x].at # "over" => record[x].at = record'[x].at
         /\ (x = r /\ taken /\ f[1] # "item") \/ record'[x].at = record[x].at
  <2> SUFFICES ASSUME NEW x \in Records
               PROVE  /\ record'[x].epoch = record[x].epoch /\ record'[x].ready = record[x].ready
                      /\ record[x].at \in {"running", "over"} => record'[x].at \in {"running", "over"}
                      /\ record'[x].at # "over" => record[x].at = record'[x].at
                      /\ (x = r /\ taken /\ f[1] # "item") \/ record'[x].at = record[x].at
    OBVIOUS
  <2>1. CASE x # r \/ ~taken
    BY <1>12, <2>1
  <2>2. CASE x = r /\ taken
    BY <1>8, <1>10, <1>11, <1>12, <2>2
  <2> QED BY <2>1, <2>2
<1>15. PageTypes'
  BY <1>0, <1>1, <1>5, <1>13 DEF PageTypes
<1>16. PageSocket'
  BY <1>0, <1>1 DEF PageSocket
<1>17. taken =>
         /\ ItemsFrom(q, r, Len(record[r].items)) /\ Len(record[r].items) \in Nat
         /\ r \in DOMAIN serving[e] => ItemsUpTo(q, r, Len(record[r].items), serving[e][r])
  BY <1>0, <1>3, <1>4, <1>6, <1>8 DEF PageCounts, q
\* The item that arrives is the next.
<1>18. taken /\ f[1] = "item" => f[3] = Len(record[r].items) + 1
  <2>1. ItemOf(Head(q), r) <=> f[1] = "item"
    BY DEF ItemOf, f, r
  <2>2. 0 \in Nat
    OBVIOUS
  <2> QED BY <1>1, <1>3, <1>17, <2>1, <2>2, FrameTaken DEF f
<1>19. PageStreams'
  <2> SUFFICES ASSUME NEW x \in Records
               PROVE  /\ record'[x].at = "waiting" => socketPromise
                      /\ record'[x].at = "running" =>
                           /\ record'[x].epoch \in 1..Len(sockets) /\ record'[x].ready = "resolved"
                           /\ record'[x].epoch = Len(sockets) => socket = record'[x].epoch
                      /\ record'[x].at \in {"new", "waiting"} => record'[x].items = <<>>
                      /\ record'[x].end = "end" => record'[x].ready = "resolved" /\ record'[x].at = "over"
                      /\ \A i \in 1..Len(record'[x].items) : record'[x].items[i] = <<record'[x].epoch, i>>
    BY <1>1 DEF PageStreams
  <2>1. CASE x # r \/ ~taken
    BY <1>0, <1>12, <2>1 DEF PageStreams
  <2>2. CASE x = r /\ taken /\ f[1] = "item"
    <3> DEFINE its == record[r].items
    <3>1. its \in Seq(Nat \X Nat) /\ f[3] = Len(its) + 1
      BY <1>6, <1>18, <2>2
    <3> HIDE DEF its
    <3>2. /\ Len(Append(its, <<e, f[3]>>)) = Len(its) + 1 /\ Len(its) \in Nat
          /\ Append(its, <<e, f[3]>>)[Len(its) + 1] = <<e, f[3]>>
          /\ \A i \in 1..Len(its) : Append(its, <<e, f[3]>>)[i] = its[i]
      <4>1. <<e, f[3]>> \in Nat \X Nat
        BY <1>1, <1>3
      <4> QED BY <3>1, <4>1
    <3>3. \A i \in 1..Len(its) : its[i] = <<record[r].epoch, i>>
      BY <1>0, <1>3 DEF PageStreams, its
    <3>4. record'[x].items = Append(its, <<e, f[3]>>) /\ record'[x].epoch = e
      BY <1>4, <1>10, <1>12, <2>2 DEF its
    <3>5. \A i \in 1..Len(record'[x].items) : record'[x].items[i] = <<record'[x].epoch, i>>
      BY <1>4, <3>1, <3>2, <3>3, <3>4
    <3>6. /\ record'[x].at = record[r].at /\ record'[x].ready = record[r].ready
          /\ record'[x].end = record[r].end /\ record'[x].epoch = record[r].epoch
      BY <1>10, <1>12, <2>2
    <3> QED BY <1>0, <1>3, <1>4, <3>5, <3>6 DEF PageStreams
  <2>3. CASE x = r /\ taken /\ f[1] # "item"
    <3>1. /\ record'[x].at = "over" /\ record'[x].epoch = record[r].epoch
          /\ record'[x].ready = record[r].ready /\ record'[x].items = record[r].items
      BY <1>8, <1>11, <1>12, <2>3
    <3>2. /\ record[r].ready = "resolved"
          /\ \A i \in 1..Len(record[r].items) : record[r].items[i] = <<record[r].epoch, i>>
      BY <1>0, <1>3, <1>8, <2>3 DEF PageStreams
    <3> QED BY <3>1, <3>2
  <2> QED BY <2>1, <2>2, <2>3
<1>20. PageServed'
  <2> SUFFICES ASSUME NEW d \in 1..Len(sockets)
               PROVE  /\ sockets[d] # "open" => DOMAIN serving[d] = {}
                      /\ \A x \in DOMAIN serving[d] : record'[x].at = "running" /\ record'[x].epoch = d
                      /\ \A i \in 1..Len(downlink'[d]) :
                           /\ record'[downlink'[d][i][2]].at \in {"running", "over"}
                           /\ record'[downlink'[d][i][2]].epoch = d
                           /\ downlink'[d][i][1] # "item" => downlink'[d][i][2] \notin DOMAIN serving[d]
    BY <1>1 DEF PageServed
  <2>1. DOMAIN serving[d] \in SUBSET Records
    BY <1>0, PageFacts
  <2>2. \A x \in DOMAIN serving[d] : record'[x].at = "running" /\ record'[x].epoch = d
    <3> SUFFICES ASSUME NEW x \in DOMAIN serving[d]
                 PROVE  record'[x].at = "running" /\ record'[x].epoch = d
      OBVIOUS
    <3>1. record[x].at = "running" /\ record[x].epoch = d
      BY <1>0 DEF PageServed
    <3>2. ~(x = r /\ taken /\ f[1] # "item")
      BY <1>4, <3>1
    <3> QED BY <1>14, <2>1, <3>1, <3>2
  <2>3. ASSUME NEW i \in 1..Len(downlink'[d])
        PROVE  \E j \in 1..Len(downlink[d]) : downlink'[d][i] = downlink[d][j]
    <3>1. CASE d # e
      BY <1>5, <2>3, <3>1
    <3>2. CASE d = e
      <4>1. i \in 1..Len(Tail(q)) /\ downlink'[d][i] = Tail(q)[i]
        BY <1>5, <2>3, <3>2
      <4> QED BY <1>2, <3>2, <4>1 DEF q
    <3> QED BY <3>1, <3>2
  <2>4. \A j \in 1..Len(downlink[d]) :
          /\ record'[downlink[d][j][2]].at \in {"running", "over"}
          /\ record'[downlink[d][j][2]].epoch = d
          /\ downlink[d][j][1] # "item" => downlink[d][j][2] \notin DOMAIN serving[d]
    <3> SUFFICES ASSUME NEW j \in 1..Len(downlink[d])
                 PROVE  /\ record'[downlink[d][j][2]].at \in {"running", "over"}
                        /\ record'[downlink[d][j][2]].epoch = d
                        /\ downlink[d][j][1] # "item" => downlink[d][j][2] \notin DOMAIN serving[d]
      OBVIOUS
    <3>1. downlink[d][j][2] \in Records
      BY <1>0, PageFacts
    <3>2. /\ record[downlink[d][j][2]].at \in {"running", "over"} /\ record[downlink[d][j][2]].epoch = d
          /\ downlink[d][j][1] # "item" => downlink[d][j][2] \notin DOMAIN serving[d]
      BY <1>0 DEF PageServed
    <3> QED BY <1>14, <3>1, <3>2
  <2>5. \A i \in 1..Len(downlink'[d]) :
          /\ record'[downlink'[d][i][2]].at \in {"running", "over"}
          /\ record'[downlink'[d][i][2]].epoch = d
          /\ downlink'[d][i][1] # "item" => downlink'[d][i][2] \notin DOMAIN serving[d]
    BY <2>3, <2>4
  <2>6. sockets[d] # "open" => DOMAIN serving[d] = {}
    BY <1>0 DEF PageServed
  <2> QED BY <2>2, <2>5, <2>6
<1>21. PageCounts'
  <2> SUFFICES ASSUME NEW x \in Records, record'[x].at = "running", record'[x].epoch = socket
               PROVE  /\ ItemsFrom(downlink'[socket], x, Len(record'[x].items))
                      /\ x \in DOMAIN serving[socket] =>
                           ItemsUpTo(downlink'[socket], x, Len(record'[x].items), serving[socket][x])
    BY <1>1 DEF PageCounts
  <2>1. record[x].at = "running" /\ record[x].epoch = socket
    BY <1>14
  <2>2. /\ ItemsFrom(downlink[socket], x, Len(record[x].items))
        /\ x \in DOMAIN serving[socket] =>
             ItemsUpTo(downlink[socket], x, Len(record[x].items), serving[socket][x])
    BY <1>0, <2>1 DEF PageCounts
  <2>3. socket \in 1..Len(sockets) /\ Len(record[x].items) \in Nat
    <3>1. record[x].items \in Seq(Nat \X Nat)
      BY <1>0, PageFields DEF PageTypes
    <3> QED BY <1>0, <2>1, <3>1 DEF PageStreams
  <2>4. x \in DOMAIN serving[socket] => serving[socket][x] \in Nat
    BY <1>0, <2>3, PageFacts, ServingsFields
  <2>5. CASE socket # e
    <3>1. record'[x] = record[x] /\ downlink'[socket] = downlink[socket]
      BY <1>5, <1>8, <1>12, <2>3, <2>5
    <3> QED BY <2>2, <3>1
  <2>6. CASE socket = e
    <3> DEFINE n == Len(record[x].items)
    <3>1. n \in Nat /\ ItemsFrom(q, x, n) /\ (x \in DOMAIN serving[e] => ItemsUpTo(q, x, n, serving[e][x]))
      BY <2>2, <2>3, <2>6 DEF q
    <3>2. ItemOf(Head(q), x) <=> f[1] = "item" /\ x = r
      BY DEF ItemOf, f, r
    <3>3. CASE ItemOf(Head(q), x)
      <4>1. x = r /\ f[1] = "item" /\ taken
        BY <1>9, <2>1, <2>6, <3>2, <3>3
      <4>2. record'[x].items = Append(record[r].items, <<e, f[3]>>)
        BY <1>10, <1>12, <4>1
      <4>3. Len(record'[x].items) = n + 1
        <5>1. <<e, f[3]>> \in Nat \X Nat
          BY <1>1, <1>3
        <5> QED BY <1>6, <4>1, <4>2, <5>1
      <4> HIDE DEF n
      <4>4. ItemsFrom(Tail(q), x, n + 1)
        <5>1. 0 \in Nat
          OBVIOUS
        <5> QED BY <1>1, <3>1, <3>3, <5>1, FrameTaken
      <4>5. x \in DOMAIN serving[e] => ItemsUpTo(Tail(q), x, n + 1, serving[e][x])
        BY <1>1, <2>4, <2>6, <3>1, <3>3, FrameTaken
      <4> QED BY <1>5, <2>6, <4>3, <4>4, <4>5
    <3>4. CASE ~ItemOf(Head(q), x)
      <4>1. ~(x = r /\ taken)
        <5> SUFFICES ASSUME x = r, taken PROVE FALSE
          OBVIOUS
        <5>1. f[1] # "item"
          BY <3>2, <3>4
        <5>2. record'[x].at = "over"
          BY <1>8, <1>11, <1>12, <5>1
        <5> QED BY <5>2
      <4>2. record'[x] = record[x]
        BY <1>12, <4>1
      <4> HIDE DEF n
      <4>3. ItemsFrom(Tail(q), x, n)
        <5>1. 0 \in Nat
          OBVIOUS
        <5> QED BY <1>1, <3>1, <3>4, <5>1, FrameTaken
      <4>4. x \in DOMAIN serving[e] => ItemsUpTo(Tail(q), x, n, serving[e][x])
        BY <1>1, <2>4, <2>6, <3>1, <3>4, FrameTaken
      <4> QED BY <1>5, <2>6, <4>2, <4>3, <4>4 DEF n
    <3> QED BY <3>3, <3>4
  <2> QED BY <2>5, <2>6
<1> QED BY <1>15, <1>16, <1>19, <1>20, <1>21 DEF PageIInv

-----------------------------------------------------------------------------
(* The theorems. *)

LEMMA PageStep == PageIInv /\ [PageNext]_pageVars => PageIInv'
<1> SUFFICES ASSUME PageIInv, [PageNext]_pageVars PROVE PageIInv'
  OBVIOUS
<1>1. CASE UNCHANGED pageVars
  <2>1. UNCHANGED <<sockets, socket, socketPromise, record, downlink, serving>>
    BY <1>1 DEF pageVars
  <2>2. PageTypes'
    BY <2>1 DEF PageIInv, PageTypes
  <2>3. PageSocket'
    BY <2>1 DEF PageIInv, PageSocket
  <2>4. PageStreams'
    BY <2>1 DEF PageIInv, PageStreams
  <2>5. PageServed'
    BY <2>1 DEF PageIInv, PageServed
  <2>6. PageCounts'
    BY <2>1 DEF PageIInv, PageCounts
  <2> QED BY <2>2, <2>3, <2>4, <2>5, <2>6 DEF PageIInv
<1>2. ASSUME NEW r \in Records, OpenRecord(r) PROVE PageIInv'
  BY <1>2, KeepsOpenUsable, KeepsOpenWaits
<1>3. ASSUME NEW r \in Records, CancelRecord(r) PROVE PageIInv'
  BY <1>3, KeepsCancelRecord
<1>4. CASE Shutdown
  BY <1>4, KeepsShutdown
<1>5. ASSUME NEW e \in DOMAIN sockets, SocketOpens(e) PROVE PageIInv'
  BY <1>5, KeepsSocketOpens
<1>6. ASSUME NEW e \in DOMAIN sockets, SocketClosing(e) PROVE PageIInv'
  BY <1>6, KeepsSocketClosing
<1>7. ASSUME NEW e \in DOMAIN sockets, SocketClosed(e) PROVE PageIInv'
  BY <1>7, KeepsSocketClosed
<1>8. ASSUME NEW e \in DOMAIN sockets, MessageArrives(e) PROVE PageIInv'
  BY <1>8, KeepsMessageArrives
<1>9. ASSUME NEW e \in DOMAIN sockets, NEW r \in Records, ServerSends(e, r) PROVE PageIInv'
  BY <1>9, KeepsServerSends
<1> QED BY <1>1, <1>2, <1>3, <1>4, <1>5, <1>6, <1>7, <1>8, <1>9 DEF PageNext

\* Of the page: the page has one socket that is on its way or open, which somebody waits
\* for until it is; the frames on their way to a stream are of its own opening, and count
\* on from the items it has up to what its server has sent.
THEOREM PageInvariantHolds == PageSpec => []PageIInv
  BY PageInitially, PageStep, PTL DEF PageSpec

LEMMA PageInvariantIsEnough == PageIInv => PageSound
<1> SUFFICES ASSUME PageIInv PROVE PageSound
  OBVIOUS
<1>0. PageTypes /\ PageSocket /\ PageStreams /\ PageServed /\ PageCounts
  BY DEF PageIInv
<1>1. NoStaleFrame
  <2> SUFFICES ASSUME NEW r \in Records
               PROVE  /\ \A i \in DOMAIN record[r].items : record[r].items[i] = <<record[r].epoch, i>>
                      /\ record[r].end = "end" => record[r].ready = "resolved"
    BY DEF NoStaleFrame
  <2>1. DOMAIN record[r].items = 1..Len(record[r].items)
    <3>1. record[r].items \in Seq(Nat \X Nat)
      BY <1>0, PageFields DEF PageTypes
    <3> QED BY <3>1
  <2> QED BY <1>0, <2>1 DEF PageStreams
<1>2. NoOrphan
  <2> SUFFICES ASSUME NEW r \in Records
               PROVE  /\ record[r].at = "waiting" =>
                           /\ socketPromise /\ socket = socketEpoch
                           /\ sockets[socket] \in {"connecting", "refused"}
                      /\ record[r].at = "running" =>
                           sockets[record[r].epoch] # "closed" \/ record[r].epoch < socketEpoch
    BY DEF NoOrphan
  <2>1. record[r].at = "waiting" =>
          /\ socketPromise /\ socket = socketEpoch /\ sockets[socket] \in {"connecting", "refused"}
    BY <1>0 DEF PageStreams, PageSocket, PageTypes, socketEpoch
  <2>2. record[r].at = "running" =>
          sockets[record[r].epoch] # "closed" \/ record[r].epoch < socketEpoch
    BY <1>0 DEF PageStreams, PageSocket, PageTypes, socketEpoch
  <2> QED BY <2>1, <2>2
<1>3. ServerAgrees
  BY <1>0, PageFacts DEF ServerAgrees, PageServed
<1> QED BY <1>1, <1>2, <1>3 DEF PageSound

\* Of the page's multiplexer, over any number of sockets and streams: a stream gets the
\* items of one opening of its own, from the first and in order; none waits for a socket
\* that will not tell; what a server has open the page has open.
THEOREM PageIsSound == PageSpec => []PageSound
  BY PageInvariantHolds, PageInvariantIsEnough, PTL

-----------------------------------------------------------------------------
(***************************************************************************)
(* The panes of the directory dialog agree with each other and with the    *)
(* host calls go to, the dialog does not stay blank, and what the operator *)
(* has named stays the target of what is under way.                        *)
(***************************************************************************)
Levels == PickHosts \X Dirs
Drafts == [dir : Dirs \cup {-1, -2}, alias : BOOLEAN]
Dialogs == [open : BOOLEAN, busy : BOOLEAN, parent : {None} \cup Levels, selected : {None} \cup Levels,
            child : {None} \cup Levels, loading : BOOLEAN, error : BOOLEAN, draft : Drafts, timer : BOOLEAN,
            previewSuspended : BOOLEAN, scanned : {None} \cup (Drafts \X Levels),
            folder : {"closed", "named", "creating"}]
Listings == [seq : Nat, leg : {"target", "parent", "pick", "relist"}, dir : Dirs, host : PickHosts,
             submitted : BOOLEAN, target : {None} \cup Levels, landed : BOOLEAN]

PickTypes ==
  /\ dialog \in Dialogs /\ requestSeq \in Nat /\ openGeneration \in Nat /\ route \in PickHosts
  /\ creation \in {None} \cup (Nat \X Levels \X Levels)
  /\ \A s \in scans : s \in Listings /\ s.seq <= requestSeq

\* What a listing that is not superseded finds when it settles.
Pending(s, d) ==
  /\ d.open /\ s.host = route /\ (s.landed \/ d.loading)
  /\ s.landed => s.leg = "parent" /\ s.submitted /\ d.parent = s.target /\ d.selected = None
  /\ s.leg = "pick" => d.parent # None /\ d.selected = Level(s) /\ d.child = None
  /\ s.leg \in {"parent", "relist"} => s.target \in Below(Level(s))
  /\ s.leg \in {"target", "parent"} /\ ~s.submitted => d.draft # NoDraft

\* There is at most one, and one that has not landed is what the dialog waits for.
PickScans ==
  /\ \A s \in scans : CurrentScan(s) => Pending(s, dialog)
  /\ \A s, t \in scans : CurrentScan(s) /\ CurrentScan(t) => s = t
  /\ dialog.loading => \E s \in scans : CurrentScan(s) /\ ~s.landed

PanesOf(d, h) ==
  /\ d.open /\ d.parent # None => d.parent[1] = h
  /\ d.selected # None => d.parent # None /\ d.selected \in Below(d.parent)
  /\ d.child # None => d.child = d.selected

\* While the owner works or a folder is named nothing is typed or listed.
Inert(d) == d.busy \/ d.folder # "closed"
Settled(d) ==
  /\ d.open /\ ~d.loading /\ d.draft = NoDraft /\ ~d.error =>
       d.parent # None /\ (d.selected # None => d.child # None)
  /\ d.timer => d.open /\ d.draft # NoDraft
  /\ Inert(d) => d.open /\ ~d.loading /\ d.draft = NoDraft
  /\ d.folder # "closed" => ~d.busy /\ d.parent # None

\* The folder that is made belongs to this opening of the dialog, or to none that is left.
PickCreation ==
  creation # None =>
    /\ creation[1] <= openGeneration
    /\ Mine => /\ dialog.open /\ dialog.folder = "creating"
               /\ creation[2][1] = route /\ creation[3] \in Below(creation[2])

PickIInv == PickTypes /\ PickScans /\ PanesOf(dialog, route) /\ Settled(dialog) /\ PickCreation

-----------------------------------------------------------------------------
(* Levels and records. *)

LEMMA LevelFacts ==
  /\ None \notin Levels /\ None \notin Drafts \X Levels /\ None \notin Nat \X Levels \X Levels
  /\ \A l \in Levels : l[1] \in PickHosts /\ l[2] \in Dirs /\ l = <<l[1], l[2]>>
  /\ \A h \in PickHosts : \A d \in Dirs : <<h, d>> \in Levels /\ <<h, d>>[1] = h /\ <<h, d>>[2] = d
  BY DEF None, Levels

LEMMA BelowFacts ==
  ASSUME NEW l \in Levels, NEW r \in Below(l)
  PROVE  r \in Levels /\ r[1] = l[1] /\ r[2] \in Dirs \ {0} /\ Up[r[2]] = l[2] /\ r # None
<1>1. PICK d \in Dirs \ {0} : Up[d] = l[2] /\ r = <<l[1], d>>
  BY DEF Below
<1> QED BY <1>1, LevelFacts

LEMMA BelowUp ==
  ASSUME NEW l \in Levels, NEW r \in Levels, r[1] = l[1], r[2] # 0, Up[r[2]] = l[2]
  PROVE  r \in Below(l)
<1>1. r[2] \in Dirs \ {0} /\ r = <<l[1], r[2]>>
  BY LevelFacts
<1> QED BY <1>1 DEF Below

LEMMA DialogFields ==
  ASSUME NEW d \in Dialogs
  PROVE  /\ d.open \in BOOLEAN /\ d.busy \in BOOLEAN /\ d.loading \in BOOLEAN /\ d.error \in BOOLEAN
         /\ d.parent \in {None} \cup Levels /\ d.selected \in {None} \cup Levels
         /\ d.child \in {None} \cup Levels /\ d.draft \in Drafts /\ d.timer \in BOOLEAN
         /\ d.scanned \in {None} \cup (Drafts \X Levels) /\ d.folder \in {"closed", "named", "creating"}
  BY DEF Dialogs

LEMMA DraftFacts ==
  /\ NoDraft \in Drafts /\ Blank \in Drafts /\ Blank # NoDraft
  /\ \A dir \in Dirs : [NoDraft EXCEPT !.dir = dir] \in Drafts /\ [NoDraft EXCEPT !.dir = dir] # NoDraft
  /\ \A text \in [dir : Dirs, alias : BOOLEAN] : text \in Drafts /\ text # NoDraft
<1>1. \A dir \in Dirs : dir # -1 /\ dir # -2
  BY PickerAssumption
<1>2. NoDraft \in Drafts /\ Blank \in Drafts /\ NoDraft.dir = -1 /\ Blank.dir = -2
  BY DEF NoDraft, Blank, Drafts
<1>3. ASSUME NEW dir \in Dirs
      PROVE  [NoDraft EXCEPT !.dir = dir] \in Drafts /\ [NoDraft EXCEPT !.dir = dir] # NoDraft
  <2>1. [NoDraft EXCEPT !.dir = dir].dir = dir /\ [NoDraft EXCEPT !.dir = dir] \in Drafts
    BY DEF NoDraft, Drafts
  <2> QED BY <1>1, <1>2, <2>1
<1>4. \A text \in [dir : Dirs, alias : BOOLEAN] : text \in Drafts /\ text # NoDraft
  <2> SUFFICES ASSUME NEW text \in [dir : Dirs, alias : BOOLEAN]
               PROVE  text \in Drafts /\ text # NoDraft
    OBVIOUS
  <2>1. text.dir \in Dirs /\ text \in Drafts
    BY DEF Drafts
  <2> QED BY <1>1, <1>2, <2>1
<1> QED BY <1>2, <1>3, <1>4

LEMMA ListingFields ==
  ASSUME NEW s \in Listings
  PROVE  /\ s.seq \in Nat /\ s.leg \in {"target", "parent", "pick", "relist"} /\ s.dir \in Dirs
         /\ s.host \in PickHosts /\ s.submitted \in BOOLEAN /\ s.target \in {None} \cup Levels
         /\ s.landed \in BOOLEAN /\ Level(s) \in Levels /\ Level(s)[1] = s.host /\ Level(s)[2] = s.dir
<1>1. /\ s.seq \in Nat /\ s.leg \in {"target", "parent", "pick", "relist"} /\ s.dir \in Dirs
      /\ s.host \in PickHosts /\ s.submitted \in BOOLEAN /\ s.target \in {None} \cup Levels
      /\ s.landed \in BOOLEAN
  BY DEF Listings
<1> QED BY <1>1, LevelFacts DEF Level

LEMMA SettleFields ==
  ASSUME NEW s \in Listings, NEW d \in Dialogs
  PROVE  /\ settle(s, d) \in Dialogs /\ settle(s, d).open = d.open /\ settle(s, d).busy = d.busy
         /\ settle(s, d).parent = d.parent /\ settle(s, d).selected = d.selected
         /\ settle(s, d).child = d.child /\ settle(s, d).folder = d.folder /\ settle(s, d).loading = FALSE
         /\ s.submitted => settle(s, d).draft = NoDraft /\ settle(s, d).timer = FALSE
         /\ ~s.submitted => settle(s, d).draft = d.draft /\ settle(s, d).timer = d.timer
<1>1. CASE s.submitted
  <2>1. settle(s, d) = [d EXCEPT !.loading = FALSE, !.draft = NoDraft, !.timer = FALSE]
    BY <1>1 DEF settle
  <2>2. NoDraft \in Drafts
    BY DraftFacts
  <2> HIDE DEF NoDraft, settle
  <2> QED BY <1>1, <2>1, <2>2 DEF Dialogs
<1>2. CASE ~s.submitted
  <2>1. settle(s, d) = [d EXCEPT !.loading = FALSE, !.error = FALSE]
    BY <1>2 DEF settle
  <2> QED BY <1>2, <2>1 DEF Dialogs
<1> QED BY <1>1, <1>2

-----------------------------------------------------------------------------
(* Listings that come and go. *)

\* An intent supersedes every listing there is.
LEMMA ScansSuperseded ==
  ASSUME PickTypes, requestSeq' = requestSeq + 1, scans' = scans, dialog'.loading = FALSE
  PROVE  PickScans'
<1>1. \A s \in scans : s.seq # requestSeq'
  <2>1. \A s \in scans : s.seq \in Nat /\ s.seq <= requestSeq
    BY ListingFields DEF PickTypes
  <2> QED BY <2>1 DEF PickTypes
<1> QED BY <1>1 DEF PickScans, CurrentScan

LEMMA ScansLaunched ==
  ASSUME PickTypes, NEW n, requestSeq' = requestSeq + 1, scans' \in SUBSET (scans \cup {n}), n \in scans',
         n.seq = requestSeq + 1, n.landed = FALSE, Pending(n, dialog)'
  PROVE  PickScans'
<1>1. \A s \in scans' : s.seq = requestSeq' <=> s = n
  <2>1. \A s \in scans : s.seq \in Nat /\ s.seq <= requestSeq
    BY ListingFields DEF PickTypes
  <2> QED BY <2>1 DEF PickTypes
<1> QED BY <1>1 DEF PickScans, CurrentScan

LEMMA ScansStay ==
  ASSUME PickScans, UNCHANGED <<scans, requestSeq, route>>, dialog'.open = dialog.open,
         dialog'.loading = dialog.loading, dialog'.parent = dialog.parent,
         dialog'.selected = dialog.selected, dialog'.child = dialog.child, dialog'.draft = dialog.draft
  PROVE  PickScans'
  BY DEF PickScans, CurrentScan, Pending

LEMMA ScanGone ==
  ASSUME PickScans, NEW s \in scans, CurrentScan(s), scans' = scans \ {s}, requestSeq' = requestSeq,
         dialog'.loading = FALSE
  PROVE  PickScans'
  BY DEF PickScans, CurrentScan

LEMMA ScanFollowed ==
  ASSUME PickScans, NEW s \in scans, CurrentScan(s), NEW n, scans' = (scans \ {s}) \cup {n},
         requestSeq' = requestSeq, n.seq = s.seq, Pending(n, dialog)', dialog'.loading => ~n.landed
  PROVE  PickScans'
<1>1. \A t \in scans' : t.seq = requestSeq' <=> t = n
  BY DEF PickScans, CurrentScan
<1> QED BY <1>1 DEF PickScans, CurrentScan

\* A listing is dropped.
LEMMA ScanDropped ==
  ASSUME PickScans, NEW s \in scans, ~CurrentScan(s), scans' = scans \ {s},
         UNCHANGED <<dialog, requestSeq, route>>
  PROVE  PickScans'
  BY DEF PickScans, CurrentScan, Pending

\* Without a folder under way for this opening.
LEMMA CreationStays ==
  ASSUME PickTypes, PickCreation, dialog.folder # "creating", UNCHANGED creation,
         openGeneration' \in Nat, openGeneration' >= openGeneration
  PROVE  PickCreation'
<1>1. creation # None => creation[1] \in Nat
  BY DEF PickTypes
<1> QED BY <1>1 DEF PickCreation, PickTypes, Mine

LEMMA CreationKept ==
  ASSUME PickTypes, PickCreation, UNCHANGED <<creation, openGeneration, route>>,
         dialog'.open = dialog.open, dialog'.folder = dialog.folder
  PROVE  PickCreation'
  BY DEF PickCreation, Mine

LEMMA TypesKept ==
  ASSUME PickTypes, dialog' \in Dialogs, requestSeq' \in Nat, requestSeq' >= requestSeq,
         openGeneration' \in Nat, route' \in PickHosts, UNCHANGED creation,
         NEW n, scans' \in SUBSET (scans \cup {n}), n \in scans' => n \in Listings /\ n.seq <= requestSeq'
  PROVE  PickTypes'
<1>1. \A s \in scans' : s \in Listings /\ s.seq <= requestSeq'
  <2> SUFFICES ASSUME NEW s \in scans' PROVE s \in Listings /\ s.seq <= requestSeq'
    OBVIOUS
  <2>1. CASE s \in scans
    <3>1. s \in Listings /\ s.seq <= requestSeq /\ s.seq \in Nat /\ requestSeq \in Nat
      BY <2>1, ListingFields DEF PickTypes
    <3> QED BY <3>1
  <2>2. CASE s \notin scans
    BY <2>2
  <2> QED BY <2>1, <2>2
<1> QED BY <1>1 DEF PickTypes

LEMMA TypesStay ==
  ASSUME PickTypes, dialog' \in Dialogs, UNCHANGED <<requestSeq, openGeneration, route, creation>>,
         scans' \in SUBSET scans
  PROVE  PickTypes'
  BY DEF PickTypes

LEMMA TypesSuperseded ==
  ASSUME PickTypes, dialog' \in Dialogs, requestSeq' = requestSeq + 1, openGeneration' \in Nat,
         UNCHANGED <<scans, creation, route>>
  PROVE  PickTypes'
<1>1. \A s \in scans : s \in Listings /\ s.seq \in Nat /\ s.seq <= requestSeq
  BY ListingFields DEF PickTypes
<1> QED BY <1>1 DEF PickTypes

\* A new listing.
LEMMA NewListing ==
  ASSUME PickTypes, NEW leg \in {"target", "parent", "pick", "relist"}, NEW dir \in Dirs,
         NEW submitted \in BOOLEAN, route' \in PickHosts
  PROVE  LET n == Scan(leg, dir, submitted) IN
         /\ n \in Listings /\ n.seq = requestSeq + 1 /\ n.landed = FALSE /\ n.leg = leg /\ n.dir = dir
         /\ n.host = route' /\ n.submitted = submitted /\ Level(n) = <<route', dir>>
<1>1. requestSeq + 1 \in Nat
  BY DEF PickTypes
<1> QED BY <1>1 DEF Scan, Listings, Level

\* The dialog has turned to a directory whose listing is under way.
LEMMA Lands ==
  ASSUME PickIInv, NEW d \in Dialogs, NEW dir \in Dirs, land(d, dir, TRUE), dialog.folder # "creating",
         d.busy = FALSE, d.folder = "closed", d.open = TRUE, d.timer => d.draft # NoDraft,
         PanesOf(d, route'), route' \in PickHosts,
         UNCHANGED creation, openGeneration' \in Nat, openGeneration' >= openGeneration
  PROVE  PickIInv'
<1>0. PickTypes /\ PickCreation
  BY DEF PickIInv
<1> PICK n : n = Scan("target", dir, TRUE)
  OBVIOUS
<1>1. requestSeq' = requestSeq + 1 /\ scans' = scans \cup {n}
  BY DEF land, launchListing, supersede
<1>2. dialog' = [d EXCEPT !.loading = TRUE, !.error = @ /\ ~TRUE]
  BY DEF land
<1>3. /\ dialog' \in Dialogs /\ dialog'.loading = TRUE /\ dialog'.busy = FALSE /\ dialog'.folder = "closed"
      /\ dialog'.open = TRUE /\ dialog'.timer = d.timer /\ dialog'.draft = d.draft
      /\ dialog'.parent = d.parent /\ dialog'.selected = d.selected /\ dialog'.child = d.child
  BY <1>2 DEF Dialogs
<1>4. /\ n \in Listings /\ n.seq = requestSeq + 1 /\ n.landed = FALSE /\ n.leg = "target"
      /\ n.host = route' /\ n.submitted = TRUE
  BY <1>0 DEF Scan, Listings, PickTypes
<1>5. PickTypes'
  <2>0. requestSeq \in Nat
    BY <1>0 DEF PickTypes
  <2>1. requestSeq' = requestSeq + 1 /\ n.seq = requestSeq + 1
    BY <1>1, <1>4
  <2>2. requestSeq' \in Nat /\ requestSeq' >= requestSeq /\ n.seq <= requestSeq'
    BY ONLY <2>0, <2>1
  <2> QED BY <1>0, <1>1, <1>3, <1>4, <2>2, TypesKept
<1>6. PickScans'
  <2>1. Pending(n, dialog)'
    BY <1>3, <1>4 DEF Pending
  <2> QED BY <1>0, <1>1, <1>4, <2>1, ScansLaunched
<1>7. PanesOf(dialog, route)'
  BY <1>3 DEF PanesOf
<1>8. Settled(dialog)'
  BY <1>3 DEF Settled, Inert
<1>9. PickCreation'
  BY <1>0, CreationStays
<1> QED BY <1>5, <1>6, <1>7, <1>8, <1>9 DEF PickIInv

\* A row is selected, of the level that is on the left.
LEMMA Selects ==
  ASSUME PickIInv, NEW others \in SUBSET scans, NEW d \in Dialogs, NEW row \in Levels,
         select(others, d, row), dialog.folder # "creating",
         d.busy = FALSE, d.folder = "closed", d.open = TRUE, d.parent \in Levels, d.parent[1] = route,
         row \in Below(d.parent), Elsewhere
  PROVE  PickIInv'
<1>0. PickTypes /\ PickCreation
  BY DEF PickIInv
<1> PICK n : n = Scan("pick", row[2], FALSE)
  OBVIOUS
<1>1. /\ requestSeq' = requestSeq + 1 /\ scans' = others \cup {n}
      /\ UNCHANGED <<openGeneration, creation, route>>
  BY DEF select, launchListing, supersede, Elsewhere
<1>2. dialog' = [d EXCEPT !.draft = NoDraft, !.timer = FALSE, !.selected = row, !.child = None,
                          !.loading = TRUE, !.error = FALSE]
  BY DEF select
<1>3. NoDraft \in Drafts
  BY DraftFacts
<1>4. /\ dialog' \in Dialogs /\ dialog'.loading = TRUE /\ dialog'.busy = FALSE /\ dialog'.folder = "closed"
      /\ dialog'.open = TRUE /\ dialog'.timer = FALSE /\ dialog'.parent = d.parent
      /\ dialog'.selected = row /\ dialog'.child = None
  <2> HIDE DEF NoDraft, None
  <2> QED BY <1>2, <1>3 DEF Dialogs
<1>5. row[1] = route /\ row[2] \in Dirs /\ row # None /\ d.parent # None /\ row = <<route, row[2]>>
  BY BelowFacts, LevelFacts
<1>6. /\ n \in Listings /\ n.seq = requestSeq + 1 /\ n.landed = FALSE /\ n.leg = "pick"
      /\ n.host = route' /\ Level(n) = row
  BY <1>0, <1>1, <1>5, NewListing DEF PickTypes
<1>7. PickTypes'
  <2>0. requestSeq \in Nat
    BY <1>0 DEF PickTypes
  <2>1. requestSeq' = requestSeq + 1 /\ n.seq = requestSeq + 1
    BY <1>1, <1>6
  <2>2. requestSeq' \in Nat /\ requestSeq' >= requestSeq /\ n.seq <= requestSeq'
    BY ONLY <2>0, <2>1
  <2>3. openGeneration' \in Nat /\ route' \in PickHosts /\ UNCHANGED creation /\ scans' \in SUBSET (scans \cup {n})
    BY <1>0, <1>1 DEF PickTypes
  <2> QED BY <1>0, <1>4, <1>6, <2>2, <2>3, TypesKept
<1>8. PickScans'
  <2>1. Pending(n, dialog)'
    BY <1>1, <1>4, <1>5, <1>6 DEF Pending
  <2>2. scans' \in SUBSET (scans \cup {n}) /\ n \in scans'
    BY <1>1
  <2> QED BY <1>0, <1>1, <1>6, <2>1, <2>2, ScansLaunched
<1>9. PanesOf(dialog, route)'
  BY <1>1, <1>4, <1>5 DEF PanesOf
<1>10. Settled(dialog)'
  BY <1>4 DEF Settled, Inert
<1>11. PickCreation'
  <2>1. openGeneration' \in Nat /\ openGeneration' >= openGeneration
    BY <1>0, <1>1 DEF PickTypes
  <2> QED BY <1>0, <1>1, <2>1, CreationStays
<1> QED BY <1>7, <1>8, <1>9, <1>10, <1>11 DEF PickIInv

\* The dialog shows what was listed: a level and nothing, or a level and its row.
SettledTo(d, p, q, s) ==
  /\ d \in Dialogs /\ d.open = dialog.open /\ d.busy = dialog.busy /\ d.folder = dialog.folder
  /\ d.parent = p /\ d.selected = q /\ d.child = q /\ d.loading = FALSE
  /\ s.submitted => d.draft = NoDraft /\ d.timer = FALSE
  /\ ~s.submitted => d.draft = dialog.draft /\ d.timer = dialog.timer

LEMMA Settles ==
  ASSUME PickIInv, NEW s, NEW p \in Levels, NEW q \in {None} \cup Levels, SettledTo(dialog', p, q, s),
         p[1] = route, q # None => q \in Below(p), UNCHANGED <<openGeneration, creation, route>>
  PROVE  PanesOf(dialog, route)' /\ Settled(dialog)' /\ PickCreation'
<1>0. PickTypes /\ PickCreation /\ Settled(dialog)
  BY DEF PickIInv
<1>1. p # None
  BY LevelFacts
<1>2. PanesOf(dialog, route)'
  BY <1>1 DEF PanesOf, SettledTo
<1>3. Settled(dialog)'
  BY <1>0, <1>1 DEF Settled, Inert, SettledTo
<1>4. PickCreation'
  BY <1>0, CreationKept DEF SettledTo
<1> QED BY <1>2, <1>3, <1>4

LEMMA LandSingleTo ==
  ASSUME PickTypes, NEW s \in Listings, s.landed = FALSE, NEW p \in Levels
  PROVE  SettledTo(landSingle(s, p), p, None, s)
<1> DEFINE d == [dialog EXCEPT !.parent = p, !.selected = None, !.child = None]
<1>1. dialog \in Dialogs
  BY DEF PickTypes
<1>2. /\ d \in Dialogs /\ d.open = dialog.open /\ d.busy = dialog.busy /\ d.folder = dialog.folder
      /\ d.parent = p /\ d.selected = None /\ d.child = None /\ d.draft = dialog.draft
      /\ d.timer = dialog.timer
  <2> HIDE DEF None
  <2> QED BY <1>1 DEF Dialogs
<1>3. landSingle(s, p) = settle(s, d)
  BY DEF landSingle
<1> HIDE DEF d
<1>4. SettledTo(settle(s, d), p, None, s)
  BY <1>2, SettleFields DEF SettledTo
<1> QED BY <1>3, <1>4

LEMMA BothTo ==
  ASSUME PickTypes, NEW s \in Listings, NEW p \in Levels, NEW q \in Levels
  PROVE  SettledTo(settle(s, [dialog EXCEPT !.parent = p, !.selected = q, !.child = q]), p, q, s)
<1> DEFINE d == [dialog EXCEPT !.parent = p, !.selected = q, !.child = q]
<1>1. dialog \in Dialogs
  BY DEF PickTypes
<1>2. /\ d \in Dialogs /\ d.open = dialog.open /\ d.busy = dialog.busy /\ d.folder = dialog.folder
      /\ d.parent = p /\ d.selected = q /\ d.child = q /\ d.draft = dialog.draft
      /\ d.timer = dialog.timer
  <2> HIDE DEF None
  <2> QED BY <1>1 DEF Dialogs
<1> HIDE DEF d
<1>3. SettledTo(settle(s, d), p, q, s)
  BY <1>2, SettleFields DEF SettledTo
<1> QED BY <1>3 DEF d

-----------------------------------------------------------------------------
(* Listings that settle. *)

LEMMA PickInitially == PickInit => PickIInv
<1> SUFFICES ASSUME PickInit PROVE PickIInv
  OBVIOUS
<1>1. dialog = NoDialog /\ scans = {} /\ requestSeq = 0 /\ openGeneration = 0 /\ creation = None
      /\ route \in PickHosts
  BY DEF PickInit
<1>2. /\ NoDialog \in Dialogs /\ NoDialog.open = FALSE /\ NoDialog.busy = FALSE /\ NoDialog.parent = None
      /\ NoDialog.selected = None /\ NoDialog.child = None /\ NoDialog.loading = FALSE
      /\ NoDialog.timer = FALSE /\ NoDialog.folder = "closed"
  <2>1. NoDraft \in Drafts
    BY DraftFacts
  <2> QED BY <2>1 DEF NoDialog, Dialogs
<1>3. PickTypes
  BY <1>1, <1>2 DEF PickTypes
<1>4. PickScans
  BY <1>1, <1>2 DEF PickScans
<1>5. PanesOf(dialog, route)
  BY <1>1, <1>2 DEF PanesOf
<1>6. Settled(dialog)
  BY <1>1, <1>2 DEF Settled, Inert
<1>7. PickCreation
  BY <1>1 DEF PickCreation
<1> QED BY <1>3, <1>4, <1>5, <1>6, <1>7 DEF PickIInv

\* What the current listing finds.
LEMMA CurrentFacts ==
  ASSUME PickIInv, NEW s \in scans, CurrentScan(s)
  PROVE  /\ s \in Listings /\ Pending(s, dialog) /\ dialog.open /\ Level(s) \in Levels /\ Level(s)[1] = route
         /\ s.landed = FALSE => dialog.loading /\ ~Inert(dialog)
         /\ s.leg \in {"parent", "relist"} => s.target \in Levels /\ s.target[1] = route
<1>1. s \in Listings /\ Pending(s, dialog)
  BY DEF PickIInv, PickTypes, PickScans
<1>2. Level(s) \in Levels /\ Level(s)[1] = route /\ dialog.open
  BY <1>1, ListingFields DEF Pending
<1>3. s.landed = FALSE => dialog.loading /\ ~Inert(dialog)
  BY <1>1 DEF PickIInv, Pending, Settled
<1>4. s.leg \in {"parent", "relist"} => s.target \in Levels /\ s.target[1] = route
  BY <1>1, <1>2, BelowFacts DEF Pending
<1> QED BY <1>1, <1>2, <1>3, <1>4

LEMMA LandsAlone ==
  ASSUME PickIInv, NEW s \in scans, CurrentScan(s), s.landed = FALSE, NEW p \in Levels, p[1] = route,
         SettledTo(dialog', p, None, s), scans' = scans \ {s},
         UNCHANGED <<requestSeq, openGeneration, creation, route>>
  PROVE  PickIInv'
<1>1. PickTypes /\ PickScans
  BY DEF PickIInv
<1>2. PanesOf(dialog, route)' /\ Settled(dialog)' /\ PickCreation'
  BY Settles
<1>3. PickTypes'
  BY <1>1, TypesStay DEF SettledTo
<1>4. PickScans'
  BY <1>1, ScanGone DEF SettledTo
<1> QED BY <1>2, <1>3, <1>4 DEF PickIInv

LEMMA KeepsTargetListed ==
  ASSUME PickIInv, NEW s \in scans, CurrentScan(s), s.leg = "target", TargetListed(s),
         UNCHANGED <<requestSeq, openGeneration, creation, route>>
  PROVE  PickIInv'
<1>0. PickTypes /\ PickScans /\ PanesOf(dialog, route) /\ Settled(dialog) /\ PickCreation
  BY DEF PickIInv
<1>1. /\ s \in Listings /\ Pending(s, dialog) /\ dialog.open /\ Level(s) \in Levels /\ Level(s)[1] = route
      /\ s.landed = FALSE /\ dialog.loading /\ ~Inert(dialog)
  <2>1. s \in Listings /\ Pending(s, dialog) /\ s.landed \in BOOLEAN
    BY CurrentFacts, ListingFields
  <2>2. s.landed = FALSE
    BY <2>1 DEF Pending
  <2> QED BY <2>1, <2>2, CurrentFacts
<1> DEFINE named == IF s.submitted THEN dialog.scanned ELSE <<dialog.draft, Level(s)>>
<1>2. named \in {None} \cup (Drafts \X Levels)
  <2>1. dialog.scanned \in {None} \cup (Drafts \X Levels) /\ dialog.draft \in Drafts
    BY <1>0, DialogFields DEF PickTypes
  <2> QED BY <1>1, <2>1
<1> HIDE DEF named
<1>3. CASE s.dir = 0
  <2>1. dialog' = [landSingle(s, Level(s)) EXCEPT !.scanned = named] /\ scans' = scans \ {s}
    BY <1>3 DEF TargetListed, named
  <2> DEFINE d == landSingle(s, Level(s))
  <2>2. SettledTo(d, Level(s), None, s)
    BY <1>0, <1>1, LandSingleTo
  <2> HIDE DEF d
  <2>3. /\ dialog' \in Dialogs /\ dialog'.open = d.open /\ dialog'.busy = d.busy /\ dialog'.folder = d.folder
        /\ dialog'.parent = d.parent /\ dialog'.selected = d.selected /\ dialog'.child = d.child
        /\ dialog'.loading = d.loading /\ dialog'.draft = d.draft /\ dialog'.timer = d.timer
    <3>1. d \in Dialogs /\ dialog' = [d EXCEPT !.scanned = named]
      BY <2>1, <2>2 DEF SettledTo, d
    <3> HIDE DEF None
    <3> QED BY <1>2, <3>1 DEF Dialogs
  <2>4. SettledTo(dialog', Level(s), None, s)
    BY <2>2, <2>3 DEF SettledTo
  <2> QED BY <1>1, <2>1, <2>4, LandsAlone
<1>4. CASE s.dir # 0
  <2> PICK n : n = [s EXCEPT !.leg = "parent", !.dir = Up[s.dir], !.host = route, !.target = Level(s)]
    OBVIOUS
  <2>1. dialog' = [dialog EXCEPT !.scanned = named] /\ scans' = (scans \ {s}) \cup {n}
    BY <1>4 DEF TargetListed, named
  <2>2. /\ dialog' \in Dialogs /\ dialog'.open = dialog.open /\ dialog'.busy = dialog.busy
        /\ dialog'.folder = dialog.folder /\ dialog'.parent = dialog.parent
        /\ dialog'.selected = dialog.selected /\ dialog'.child = dialog.child /\ dialog'.error = dialog.error
        /\ dialog'.loading = dialog.loading /\ dialog'.draft = dialog.draft /\ dialog'.timer = dialog.timer
    <3>1. dialog \in Dialogs
      BY <1>0 DEF PickTypes
    <3> HIDE DEF None
    <3> QED BY <1>2, <2>1, <3>1 DEF Dialogs
  <2>3. /\ n \in Listings /\ n.seq = s.seq /\ n.leg = "parent" /\ n.dir = Up[s.dir] /\ n.host = route
        /\ n.target = Level(s) /\ n.landed = FALSE /\ n.submitted = s.submitted
    <3>1. Up[s.dir] \in Dirs /\ route \in PickHosts
      BY <1>0, <1>1, <1>4, PickerAssumption, ListingFields DEF PickTypes
    <3> HIDE DEF None, Level
    <3> QED BY <1>1, <3>1 DEF Listings
  <2>4. n.target \in Below(Level(n))
    <3>1. Level(n) \in Levels /\ Level(n)[1] = route /\ Level(n)[2] = Up[s.dir] /\ Level(s)[2] = s.dir
      BY <1>1, <2>3, ListingFields
    <3> QED BY <1>1, <1>4, <2>3, <3>1, BelowUp
  <2>5. Pending(n, dialog)'
    BY <1>1, <2>2, <2>3, <2>4 DEF Pending
  <2>6. PickTypes'
    <3>1. n.seq <= requestSeq
      BY <1>0, <2>3 DEF PickTypes
    <3> QED BY <1>0, <2>1, <2>2, <2>3, <3>1 DEF PickTypes
  <2>7. PickScans'
    BY <1>0, <2>1, <2>3, <2>5, ScanFollowed
  <2>8. PanesOf(dialog, route)'
    BY <1>0, <2>2 DEF PanesOf
  <2>9. Settled(dialog)'
    BY <1>0, <2>2 DEF Settled, Inert
  <2>10. PickCreation'
    BY <1>0, <2>2, CreationKept
  <2> QED BY <2>6, <2>7, <2>8, <2>9, <2>10 DEF PickIInv
<1> QED BY <1>3, <1>4

\* The parent of a target fails, or lacks it: the target stays alone where it has landed.
LEMMA KeepsParentMissed ==
  ASSUME PickIInv, NEW s \in scans, CurrentScan(s), s.leg = "parent",
         dialog' = landSingle(s, s.target), scans' = scans \ {s},
         UNCHANGED <<requestSeq, openGeneration, creation, route>>
  PROVE  PickIInv'
<1>0. PickTypes /\ PickScans /\ PanesOf(dialog, route) /\ Settled(dialog) /\ PickCreation
  BY DEF PickIInv
<1>1. /\ s \in Listings /\ Pending(s, dialog) /\ s.target \in Levels /\ s.target[1] = route
      /\ s.landed \in BOOLEAN
  BY CurrentFacts, ListingFields
<1>2. CASE s.landed = FALSE
  BY <1>0, <1>1, <1>2, LandSingleTo, LandsAlone
<1>3. CASE s.landed = TRUE
  <2>1. dialog' = dialog
    BY <1>3 DEF landSingle
  <2>2. dialog.loading = FALSE
    <3>1. \A t \in scans : CurrentScan(t) => t = s
      BY <1>0 DEF PickScans
    <3>2. dialog.loading \in BOOLEAN
      BY <1>0, DialogFields DEF PickTypes
    <3> QED BY <1>0, <1>3, <3>1, <3>2 DEF PickScans
  <2>3. PickTypes'
    <3>1. dialog' \in Dialogs
      BY <1>0, <2>1 DEF PickTypes
    <3> QED BY <1>0, <3>1, TypesStay
  <2>4. PickScans'
    BY <1>0, <2>1, <2>2, ScanGone
  <2>5. PickCreation'
    BY <1>0, <2>1, CreationKept
  <2> QED BY <1>0, <2>1, <2>3, <2>4, <2>5 DEF PickIInv, PanesOf, Settled, Inert
<1> QED BY <1>1, <1>2, <1>3

LEMMA KeepsParentListed ==
  ASSUME PickIInv, NEW s \in scans, CurrentScan(s), s.leg = "parent", ParentListed(s),
         UNCHANGED <<requestSeq, openGeneration, creation, route>>
  PROVE  PickIInv'
<1>0. PickTypes /\ PickScans
  BY DEF PickIInv
<1>1. /\ s \in Listings /\ Pending(s, dialog) /\ s.target \in Levels /\ s.target[1] = route
      /\ Level(s) \in Levels /\ Level(s)[1] = route /\ s.target \in Below(Level(s))
  BY CurrentFacts DEF Pending
<1>2. CASE dialog' = landSingle(s, s.target)
  BY <1>2, KeepsParentMissed DEF ParentListed
<1>3. CASE dialog' = settle(s, [dialog EXCEPT !.parent = Level(s), !.selected = s.target, !.child = s.target])
  <2>1. SettledTo(dialog', Level(s), s.target, s)
    BY <1>0, <1>1, <1>3, BothTo
  <2>2. scans' = scans \ {s}
    BY DEF ParentListed
  <2>3. PanesOf(dialog, route)' /\ Settled(dialog)' /\ PickCreation'
    BY <1>1, <2>1, Settles
  <2>4. PickTypes'
    BY <1>0, <2>1, <2>2, TypesStay DEF SettledTo
  <2>5. PickScans'
    BY <1>0, <2>1, <2>2, ScanGone DEF SettledTo
  <2> QED BY <2>3, <2>4, <2>5 DEF PickIInv
<1> QED BY <1>2, <1>3 DEF ParentListed

LEMMA KeepsLegWaitOver ==
  ASSUME PickIInv, NEW s \in scans, LegWaitOver(s)
  PROVE  PickIInv'
<1>0. PickTypes /\ PickScans
  BY DEF PickIInv
<1> PICK n : n = [s EXCEPT !.landed = TRUE]
  OBVIOUS
<1>1. /\ s.leg = "parent" /\ s.submitted /\ ~s.landed /\ CurrentScan(s)
      /\ dialog' = landSingle(s, s.target) /\ scans' = (scans \ {s}) \cup {n}
      /\ UNCHANGED <<requestSeq, openGeneration, creation, route>>
  BY DEF LegWaitOver
<1>2. /\ s \in Listings /\ Pending(s, dialog) /\ s.target \in Levels /\ s.target[1] = route
      /\ s.landed = FALSE /\ s.submitted = TRUE /\ dialog.open
  BY <1>1, CurrentFacts, ListingFields
<1>3. SettledTo(dialog', s.target, None, s)
  BY <1>0, <1>1, <1>2, LandSingleTo
<1>4. PanesOf(dialog, route)' /\ Settled(dialog)' /\ PickCreation'
  BY <1>1, <1>2, <1>3, Settles
<1>5. /\ n \in Listings /\ n.seq = s.seq /\ n.leg = "parent" /\ n.dir = s.dir /\ n.host = s.host
      /\ n.target = s.target /\ n.landed = TRUE /\ n.submitted = TRUE
  <2> HIDE DEF None
  <2> QED BY <1>1, <1>2 DEF Listings
<1>6. Pending(n, dialog)'
  <2>1. Level(n) = Level(s)
    BY <1>5 DEF Level
  <2> QED BY <1>1, <1>2, <1>3, <1>5, <2>1 DEF Pending, SettledTo
<1>7. PickTypes'
  <2>1. n.seq <= requestSeq
    BY <1>0, <1>5 DEF PickTypes
  <2>2. dialog' \in Dialogs
    BY <1>3 DEF SettledTo
  <2> QED BY <1>0, <1>1, <1>5, <2>1, <2>2 DEF PickTypes
<1>8. PickScans'
  BY <1>0, <1>1, <1>3, <1>5, <1>6, ScanFollowed DEF SettledTo
<1> QED BY <1>4, <1>7, <1>8 DEF PickIInv

LEMMA KeepsPickListed ==
  ASSUME PickIInv, NEW s \in scans, CurrentScan(s), s.leg = "pick", PickListed(s),
         UNCHANGED <<requestSeq, openGeneration, creation, route>>
  PROVE  PickIInv'
<1>0. PickTypes /\ PickScans /\ PanesOf(dialog, route) /\ Settled(dialog) /\ PickCreation
  BY DEF PickIInv
<1>1. /\ dialog.open /\ Level(s) \in Levels /\ dialog.parent # None /\ dialog.selected = Level(s)
      /\ ~Inert(dialog)
  <2>1. Pending(s, dialog) /\ s.landed \in BOOLEAN
    BY CurrentFacts, ListingFields
  <2>2. s.landed = FALSE
    BY <2>1 DEF Pending
  <2> QED BY <2>1, <2>2, CurrentFacts DEF Pending
<1>2. dialog' = [dialog EXCEPT !.child = Level(s), !.loading = FALSE] /\ scans' = scans \ {s}
  BY DEF PickListed
<1>3. /\ dialog' \in Dialogs /\ dialog'.open = dialog.open /\ dialog'.busy = dialog.busy
      /\ dialog'.folder = dialog.folder /\ dialog'.parent = dialog.parent
      /\ dialog'.selected = dialog.selected /\ dialog'.child = Level(s) /\ dialog'.error = dialog.error
      /\ dialog'.loading = FALSE /\ dialog'.draft = dialog.draft /\ dialog'.timer = dialog.timer
  <2>1. dialog \in Dialogs
    BY <1>0 DEF PickTypes
  <2> HIDE DEF None, Level
  <2> QED BY <1>1, <1>2, <2>1 DEF Dialogs
<1>4. Level(s) # None
  BY <1>1, LevelFacts
<1>5. PickTypes'
  BY <1>0, <1>2, <1>3, TypesStay
<1>6. PickScans'
  BY <1>0, <1>2, <1>3, ScanGone
<1>7. PanesOf(dialog, route)'
  BY <1>0, <1>1, <1>3 DEF PanesOf
<1>8. Settled(dialog)'
  BY <1>0, <1>1, <1>3, <1>4 DEF Settled, Inert
<1>9. PickCreation'
  BY <1>0, <1>3, CreationKept
<1> QED BY <1>5, <1>6, <1>7, <1>8, <1>9 DEF PickIInv

LEMMA KeepsRelisted ==
  ASSUME PickIInv, NEW s \in scans, CurrentScan(s), s.leg = "relist", Relisted(s), Elsewhere
  PROVE  PickIInv'
<1>0. PickTypes
  BY DEF PickIInv
<1>1. /\ dialog.open /\ Level(s) \in Levels /\ Level(s)[1] = route /\ s.target \in Levels
      /\ s.target \in Below(Level(s)) /\ ~Inert(dialog)
  <2>1. Pending(s, dialog) /\ s.landed \in BOOLEAN
    BY CurrentFacts, ListingFields
  <2>2. s.landed = FALSE
    BY <2>1 DEF Pending
  <2> QED BY <2>1, <2>2, CurrentFacts DEF Pending
<1> DEFINE d == [dialog EXCEPT !.parent = Level(s)]
<1>2. /\ d \in Dialogs /\ d.open = dialog.open /\ d.busy = dialog.busy
      /\ d.folder = dialog.folder /\ d.parent = Level(s)
  <2>1. dialog \in Dialogs
    BY <1>0 DEF PickTypes
  <2> HIDE DEF None, Level
  <2> QED BY <1>1, <2>1 DEF Dialogs
<1>3. select(scans \ {s}, d, s.target)
  BY DEF Relisted
<1> HIDE DEF d
<1>4. d.open = TRUE /\ d.busy = FALSE /\ d.folder = "closed" /\ dialog.folder # "creating"
  <2>1. dialog.open \in BOOLEAN /\ dialog.busy \in BOOLEAN
    BY <1>0, DialogFields DEF PickTypes
  <2> QED BY <1>1, <1>2, <2>1 DEF Inert
<1>5. scans \ {s} \in SUBSET scans
  OBVIOUS
<1> QED BY <1>1, <1>2, <1>3, <1>4, <1>5, Selects

LEMMA KeepsDropped ==
  ASSUME PickIInv, NEW s \in scans, ~CurrentScan(s), Dropped(s),
         UNCHANGED <<openGeneration, creation, route>>
  PROVE  PickIInv'
<1>0. PickTypes /\ PickScans /\ PanesOf(dialog, route) /\ Settled(dialog) /\ PickCreation
  BY DEF PickIInv
<1>1. scans' = scans \ {s} /\ UNCHANGED <<dialog, requestSeq>>
  BY DEF Dropped
<1>2. PickTypes'
  <2>1. dialog' \in Dialogs
    BY <1>0, <1>1 DEF PickTypes
  <2> QED BY <1>0, <1>1, <2>1, TypesStay
<1>3. PickScans'
  BY <1>0, <1>1, ScanDropped
<1>4. PickCreation'
  BY <1>0, <1>1, CreationKept
<1> QED BY <1>0, <1>1, <1>2, <1>3, <1>4 DEF PickIInv, PanesOf, Settled, Inert

LEMMA KeepsListed ==
  ASSUME PickIInv, NEW s \in scans, Listed(s)
  PROVE  PickIInv'
<1>1. UNCHANGED <<openGeneration, creation, route>> /\ Elsewhere
  BY DEF Listed, Elsewhere
<1>2. CASE ~CurrentScan(s)
  BY <1>1, <1>2, KeepsDropped DEF Listed
<1>3. CASE CurrentScan(s) /\ s.leg = "target" /\ TargetListed(s) /\ UNCHANGED requestSeq
  BY <1>1, <1>3, KeepsTargetListed
<1>4. CASE CurrentScan(s) /\ s.leg = "parent" /\ ParentListed(s) /\ UNCHANGED requestSeq
  BY <1>1, <1>4, KeepsParentListed
<1>5. CASE CurrentScan(s) /\ s.leg = "pick" /\ PickListed(s) /\ UNCHANGED requestSeq
  BY <1>1, <1>5, KeepsPickListed
<1>6. CASE CurrentScan(s) /\ s.leg = "relist" /\ Relisted(s)
  BY <1>1, <1>6, KeepsRelisted
<1> QED BY <1>2, <1>3, <1>4, <1>5, <1>6 DEF Listed

\* A listing that fails leaves something to read: an error, a draft or the level there was.
LEMMA KeepsListingFails ==
  ASSUME PickIInv, NEW s \in scans, ListingFails(s)
  PROVE  PickIInv'
<1>0. PickTypes /\ PickScans /\ PanesOf(dialog, route) /\ Settled(dialog) /\ PickCreation
  BY DEF PickIInv
<1>1. UNCHANGED <<openGeneration, creation, route>>
  BY DEF ListingFails
<1>2. CASE ~CurrentScan(s)
  BY <1>1, <1>2, KeepsDropped DEF ListingFails
<1>3. CASE CurrentScan(s) /\ s.leg = "parent"
  <2>1. dialog' = landSingle(s, s.target) /\ scans' = scans \ {s} /\ UNCHANGED requestSeq
    BY <1>3 DEF ListingFails
  <2> QED BY <1>1, <1>3, <2>1, KeepsParentMissed
<1>4. CASE CurrentScan(s) /\ s.leg # "parent"
  <2>1. scans' = scans \ {s} /\ UNCHANGED requestSeq
    BY <1>4 DEF ListingFails
  <2>2. s \in Listings /\ Pending(s, dialog) /\ dialog.open /\ ~Inert(dialog)
    <3>1. Pending(s, dialog) /\ s.landed \in BOOLEAN
      BY <1>4, CurrentFacts, ListingFields
    <3>2. s.landed = FALSE
      BY <1>4, <3>1 DEF Pending
    <3> QED BY <1>4, <3>1, <3>2, CurrentFacts
  <2>3. dialog \in Dialogs /\ s.submitted \in BOOLEAN
    BY <1>0, <2>2, ListingFields DEF PickTypes
  \* What all three ways to fail have in common.
  <2>4. ASSUME dialog' \in Dialogs, dialog'.open = dialog.open, dialog'.busy = dialog.busy,
               dialog'.folder = dialog.folder, dialog'.parent = dialog.parent,
               dialog'.selected \in {dialog.selected, None}, dialog'.child = dialog.child,
               dialog'.selected # dialog.selected => dialog.child = None,
               dialog'.loading = FALSE, dialog'.draft = dialog.draft, dialog'.timer = dialog.timer,
               dialog'.error \/ dialog.draft # NoDraft
        PROVE  PickIInv'
    <3>1. PickTypes'
      BY <1>0, <1>1, <2>1, <2>4, TypesStay
    <3>2. PickScans'
      BY <1>0, <1>4, <2>1, <2>4, ScanGone
    <3>3. PanesOf(dialog, route)'
      BY <1>0, <1>1, <2>4 DEF PanesOf
    <3>4. Settled(dialog)'
      BY <1>0, <2>2, <2>4 DEF Settled, Inert
    <3>5. PickCreation'
      BY <1>0, <1>1, <2>4, CreationKept
    <3> QED BY <3>1, <3>2, <3>3, <3>4, <3>5 DEF PickIInv
  <2>5. CASE s.leg = "target"
    <3>1. dialog' = [dialog EXCEPT !.loading = FALSE, !.error = @ \/ s.submitted]
      BY <1>4, <2>5 DEF ListingFails
    <3>2. /\ dialog' \in Dialogs /\ dialog'.open = dialog.open /\ dialog'.busy = dialog.busy
          /\ dialog'.folder = dialog.folder /\ dialog'.parent = dialog.parent
          /\ dialog'.selected = dialog.selected /\ dialog'.child = dialog.child
          /\ dialog'.loading = FALSE /\ dialog'.draft = dialog.draft /\ dialog'.timer = dialog.timer
          /\ dialog'.error = (dialog.error \/ s.submitted)
      BY <2>3, <3>1 DEF Dialogs
    <3>3. dialog'.error \/ dialog.draft # NoDraft
      BY <2>2, <2>5, <3>2 DEF Pending
    <3> QED BY <2>4, <3>2, <3>3
  <2>6. CASE s.leg = "pick"
    <3>1. dialog' = [dialog EXCEPT !.loading = FALSE, !.error = TRUE, !.selected = None]
      BY <1>4, <2>6 DEF ListingFails
    <3>2. /\ dialog' \in Dialogs /\ dialog'.open = dialog.open /\ dialog'.busy = dialog.busy
          /\ dialog'.folder = dialog.folder /\ dialog'.parent = dialog.parent
          /\ dialog'.selected = None /\ dialog'.child = dialog.child
          /\ dialog'.loading = FALSE /\ dialog'.draft = dialog.draft /\ dialog'.timer = dialog.timer
          /\ dialog'.error = TRUE
      <4> HIDE DEF None
      <4> QED BY <2>3, <3>1 DEF Dialogs
    <3>3. dialog.child = None
      BY <2>2, <2>6 DEF Pending
    <3> QED BY <2>4, <3>2, <3>3
  <2>7. CASE s.leg = "relist"
    <3>1. dialog' = [dialog EXCEPT !.loading = FALSE, !.error = TRUE]
      BY <1>4, <2>7 DEF ListingFails
    <3>2. /\ dialog' \in Dialogs /\ dialog'.open = dialog.open /\ dialog'.busy = dialog.busy
          /\ dialog'.folder = dialog.folder /\ dialog'.parent = dialog.parent
          /\ dialog'.selected = dialog.selected /\ dialog'.child = dialog.child
          /\ dialog'.loading = FALSE /\ dialog'.draft = dialog.draft /\ dialog'.timer = dialog.timer
          /\ dialog'.error = TRUE
      BY <2>3, <3>1 DEF Dialogs
    <3> QED BY <2>4, <3>2
  <2>8. s.leg \in {"target", "parent", "pick", "relist"}
    BY <2>2, ListingFields
  <2> QED BY <1>4, <2>5, <2>6, <2>7, <2>8
<1> QED BY <1>2, <1>3, <1>4

-----------------------------------------------------------------------------
(* The operator. *)

LEMMA GestureFacts ==
  ASSUME PickIInv, Gesture
  PROVE  /\ dialog \in Dialogs /\ dialog.open = TRUE /\ dialog.busy = FALSE /\ dialog.folder = "closed"
         /\ dialog.parent # None => dialog.parent \in Levels /\ dialog.parent[1] = route
         /\ dialog.child # None => dialog.child \in Levels /\ dialog.child[1] = route
         /\ dialog.timer => dialog.draft # NoDraft
         /\ PanesOf(dialog, route) /\ openGeneration \in Nat /\ route \in PickHosts
<1>1. dialog \in Dialogs /\ openGeneration \in Nat /\ route \in PickHosts
  BY DEF PickIInv, PickTypes
<1>2. PanesOf(dialog, route) /\ (dialog.timer => dialog.draft # NoDraft)
  BY DEF PickIInv, Settled
<1>3. dialog.open = TRUE /\ dialog.busy = FALSE /\ dialog.folder = "closed"
  BY <1>1, DialogFields DEF Gesture, parentInert
<1>4. dialog.parent # None => dialog.parent \in Levels /\ dialog.parent[1] = route
  BY <1>1, <1>2, <1>3, DialogFields DEF PanesOf
<1>5. dialog.child # None => dialog.child \in Levels /\ dialog.child[1] = route
  <2> SUFFICES ASSUME dialog.child # None PROVE dialog.child \in Levels /\ dialog.child[1] = route
    OBVIOUS
  <2>1. dialog.child = dialog.selected /\ dialog.child \in Levels
    BY <1>1, <1>2, DialogFields DEF PanesOf
  <2>2. dialog.parent \in Levels /\ dialog.parent[1] = route /\ dialog.selected \in Below(dialog.parent)
    BY <1>2, <1>4, <2>1 DEF PanesOf
  <2> QED BY <2>1, <2>2, BelowFacts
<1> QED BY <1>1, <1>2, <1>3, <1>4, <1>5

LEMMA KeepsPick == PickIInv /\ Pick => PickIInv'
<1> SUFFICES ASSUME PickIInv, Pick PROVE PickIInv'
  OBVIOUS
<1>1. Gesture /\ dialog.parent # None /\ Elsewhere
  BY DEF Pick
<1>2. PICK row \in Below(dialog.parent) : select(scans, dialog, row)
  BY DEF Pick
<1>3. row \in Levels
  BY <1>1, GestureFacts, BelowFacts
<1>4. scans \in SUBSET scans /\ dialog.folder # "creating"
  BY <1>1, GestureFacts
<1> QED BY <1>1, <1>2, <1>3, <1>4, GestureFacts, Selects

LEMMA KeepsAdvance == PickIInv /\ Advance => PickIInv'
<1> SUFFICES ASSUME PickIInv, Advance PROVE PickIInv'
  OBVIOUS
<1> DEFINE d == [dialog EXCEPT !.parent = dialog.child]
<1>1. Gesture /\ dialog.child # None /\ Elsewhere
  BY DEF Advance
<1>2. PICK row \in Below(dialog.child) : select(scans, d, row)
  BY DEF Advance
<1>3. dialog.child \in Levels /\ dialog.child[1] = route /\ dialog \in Dialogs
  BY <1>1, GestureFacts
<1>4. /\ d \in Dialogs /\ d.open = dialog.open /\ d.busy = dialog.busy
      /\ d.folder = dialog.folder /\ d.parent = dialog.child
  <2> HIDE DEF None
  <2> QED BY <1>3 DEF Dialogs
<1> HIDE DEF d
<1>5. row \in Levels
  BY <1>3, BelowFacts
<1>6. scans \in SUBSET scans /\ dialog.folder # "creating"
  BY <1>1, GestureFacts
<1>7. /\ d.open = TRUE /\ d.busy = FALSE /\ d.folder = "closed" /\ d.parent \in Levels /\ d.parent[1] = route
      /\ row \in Below(d.parent)
  BY <1>1, <1>3, <1>4, GestureFacts
<1> QED BY <1>1, <1>2, <1>4, <1>5, <1>6, <1>7, Selects

LEMMA KeepsJump == PickIInv /\ Jump => PickIInv'
<1> SUFFICES ASSUME PickIInv, Jump PROVE PickIInv'
  OBVIOUS
<1>1. Gesture /\ UNCHANGED <<openGeneration, creation, route>>
  BY DEF Jump, Elsewhere
<1>2. PICK dir \in Dirs : land(dialog, dir, TRUE)
  BY DEF Jump
<1>3. openGeneration' \in Nat /\ openGeneration' >= openGeneration /\ route' \in PickHosts
      /\ PanesOf(dialog, route')
  BY <1>1, GestureFacts DEF PanesOf
<1>4. dialog.folder # "creating"
  BY <1>1, GestureFacts
<1> QED BY <1>1, <1>2, <1>3, <1>4, GestureFacts, Lands

LEMMA KeepsSubmit == PickIInv /\ Submit => PickIInv'
<1> SUFFICES ASSUME PickIInv, Submit PROVE PickIInv'
  OBVIOUS
<1> DEFINE d == [dialog EXCEPT !.previewSuspended = TRUE]
<1>1. Gesture /\ dialog.draft.dir \in Dirs /\ UNCHANGED <<openGeneration, creation, route>>
  BY DEF Submit, Elsewhere
<1>2. PICK dir \in {dialog.draft.dir} \cup {row[2] : row \in Below(<<route, dialog.draft.dir>>)} :
        land(d, dir, TRUE)
  BY DEF Submit
<1>3. dir \in Dirs
  <2>1. route \in PickHosts
    BY <1>1, GestureFacts
  <2>2. <<route, dialog.draft.dir>> \in Levels
    BY <1>1, <2>1, LevelFacts
  <2>3. \A row \in Below(<<route, dialog.draft.dir>>) : row[2] \in Dirs
    BY <2>2, BelowFacts
  <2> QED BY <1>1, <2>3
<1>4. dialog \in Dialogs
  BY <1>1, GestureFacts
<1>5. /\ d \in Dialogs /\ d.open = dialog.open /\ d.busy = dialog.busy
      /\ d.folder = dialog.folder /\ d.parent = dialog.parent /\ d.selected = dialog.selected
      /\ d.child = dialog.child /\ d.draft = dialog.draft /\ d.timer = dialog.timer
  BY <1>4 DEF Dialogs
<1> HIDE DEF d
<1>6. /\ openGeneration' \in Nat /\ openGeneration' >= openGeneration /\ route' \in PickHosts
      /\ PanesOf(d, route')
  BY <1>1, <1>5, GestureFacts DEF PanesOf
<1>7. d.open = TRUE /\ d.busy = FALSE /\ d.folder = "closed" /\ (d.timer => d.draft # NoDraft)
      /\ dialog.folder # "creating"
  BY <1>1, <1>5, GestureFacts
<1> QED BY <1>1, <1>2, <1>3, <1>5, <1>6, <1>7, Lands

\* A change of the draft, which supersedes what was listed for the last one.
LEMMA KeepsSuperseded ==
  ASSUME PickIInv, Gesture, dialog' \in Dialogs, requestSeq' = requestSeq + 1, scans' = scans, Elsewhere,
         dialog'.open = dialog.open, dialog'.busy = dialog.busy, dialog'.folder = dialog.folder,
         dialog'.loading = FALSE, dialog'.parent = dialog.parent,
         dialog'.selected = (IF dialog'.draft = NoDraft /\ dialog.child = None THEN None ELSE dialog.selected),
         dialog'.child = dialog.child, dialog'.draft = NoDraft => dialog.parent # None,
         dialog'.timer => dialog'.draft # NoDraft
  PROVE  PickIInv'
<1>0. PickTypes /\ PanesOf(dialog, route) /\ PickCreation /\ openGeneration \in Nat
  BY DEF PickIInv, PickTypes
<1>1. UNCHANGED <<openGeneration, creation, route>>
  BY DEF Elsewhere
<1>2. PickTypes'
  BY <1>0, <1>1, TypesSuperseded
<1>3. PickScans'
  BY <1>0, ScansSuperseded
<1>4. PanesOf(dialog, route)'
  BY <1>0, <1>1 DEF PanesOf
<1>5. Settled(dialog)'
  BY GestureFacts DEF Settled, Inert
<1>6. PickCreation'
  BY <1>0, <1>1, CreationKept
<1> QED BY <1>2, <1>3, <1>4, <1>5, <1>6 DEF PickIInv

LEMMA TypedFields ==
  ASSUME NEW d \in Dialogs, NEW text \in Drafts
  PROVE  LET z == Typed(d, text) IN
         /\ z \in Dialogs /\ z.open = d.open /\ z.busy = d.busy /\ z.folder = d.folder /\ z.parent = d.parent
         /\ z.selected = d.selected /\ z.child = d.child /\ z.loading = FALSE /\ z.draft = text /\ z.timer = TRUE
  BY DEF Typed, Dialogs

LEMMA KeepsOpenEditor == PickIInv /\ OpenEditor => PickIInv'
<1> SUFFICES ASSUME PickIInv, OpenEditor PROVE PickIInv'
  OBVIOUS
<1> DEFINE text == IF dialog.parent = None THEN Blank ELSE [NoDraft EXCEPT !.dir = Target[2]]
<1>1. Gesture /\ requestSeq' = requestSeq + 1 /\ dialog' = Typed(dialog, text) /\ UNCHANGED scans /\ Elsewhere
  BY DEF OpenEditor, supersede
<1>2. text \in Drafts /\ text # NoDraft
  <2>1. dialog.parent # None => Target \in Levels
    BY <1>1, GestureFacts, DialogFields DEF Target
  <2>2. dialog.parent # None => Target[2] \in Dirs
    BY <2>1, LevelFacts
  <2> HIDE DEF Target, NoDraft, Blank
  <2> QED BY <2>2, DraftFacts
<1> HIDE DEF text
<1>3. dialog \in Dialogs
  BY <1>1, GestureFacts
<1>4. LET z == Typed(dialog, text) IN
      /\ z \in Dialogs /\ z.open = dialog.open /\ z.busy = dialog.busy /\ z.folder = dialog.folder
      /\ z.parent = dialog.parent /\ z.selected = dialog.selected /\ z.child = dialog.child
      /\ z.loading = FALSE /\ z.draft = text /\ z.timer = TRUE
  BY <1>2, <1>3, TypedFields
<1> QED BY <1>1, <1>2, <1>4, KeepsSuperseded

LEMMA KeepsType == PickIInv /\ Type => PickIInv'
<1> SUFFICES ASSUME PickIInv, Type PROVE PickIInv'
  OBVIOUS
<1>1. Gesture /\ requestSeq' = requestSeq + 1 /\ UNCHANGED scans /\ Elsewhere
  BY DEF Type, supersede
<1>2. PICK text \in [dir : Dirs, alias : BOOLEAN] \cup {Blank} : dialog' = Typed(dialog, text)
  BY DEF Type
<1>3. text \in Drafts /\ text # NoDraft
  BY DraftFacts
<1>4. dialog \in Dialogs
  BY <1>1, GestureFacts
<1>5. LET z == Typed(dialog, text) IN
      /\ z \in Dialogs /\ z.open = dialog.open /\ z.busy = dialog.busy /\ z.folder = dialog.folder
      /\ z.parent = dialog.parent /\ z.selected = dialog.selected /\ z.child = dialog.child
      /\ z.loading = FALSE /\ z.draft = text /\ z.timer = TRUE
  BY <1>3, <1>4, TypedFields
<1> QED BY <1>1, <1>2, <1>3, <1>5, KeepsSuperseded

LEMMA KeepscancelPathEdit == PickIInv /\ cancelPathEdit => PickIInv'
<1> SUFFICES ASSUME PickIInv, cancelPathEdit PROVE PickIInv'
  OBVIOUS
<1> DEFINE row == IF dialog.child = None THEN None ELSE dialog.selected
           d == [dialog EXCEPT !.loading = FALSE, !.draft = NoDraft, !.timer = FALSE, !.error = FALSE,
                               !.selected = row]
<1>1. Gesture /\ Elsewhere /\ IF d.parent = None THEN Home(d) ELSE supersede /\ dialog' = d /\ UNCHANGED scans
  BY DEF cancelPathEdit
<1>2. dialog \in Dialogs
  BY <1>1, GestureFacts
<1>3. row \in {None} \cup Levels /\ NoDraft \in Drafts
  BY <1>2, DialogFields, DraftFacts
<1> HIDE DEF row
<1>4. /\ d \in Dialogs /\ d.open = dialog.open /\ d.busy = dialog.busy
      /\ d.folder = dialog.folder /\ d.parent = dialog.parent /\ d.selected = row
      /\ d.child = dialog.child /\ d.draft = NoDraft /\ d.timer = FALSE /\ d.loading = FALSE
  <2> HIDE DEF None, NoDraft
  <2> QED BY <1>2, <1>3 DEF Dialogs
<1> HIDE DEF d
<1>5. PanesOf(d, route)
  BY <1>1, <1>4, GestureFacts DEF PanesOf, row
<1>6. CASE d.parent = None
  <2>1. land(d, 0, TRUE) /\ 0 \in Dirs
    BY <1>1, <1>6, PickerAssumption DEF Home
  <2>2. /\ openGeneration' \in Nat /\ openGeneration' >= openGeneration /\ route' \in PickHosts
        /\ PanesOf(d, route') /\ UNCHANGED creation
    BY <1>1, <1>5, GestureFacts DEF Elsewhere
  <2>3. d.open = TRUE /\ d.busy = FALSE /\ d.folder = "closed" /\ (d.timer => d.draft # NoDraft)
        /\ dialog.folder # "creating"
    BY <1>1, <1>4, GestureFacts
  <2> QED BY <1>4, <2>1, <2>2, <2>3, Lands
<1>7. CASE d.parent # None
  <2>1. dialog' = d /\ requestSeq' = requestSeq + 1 /\ UNCHANGED scans
    BY <1>1, <1>7 DEF supersede
  <2> QED BY <1>1, <1>4, <1>7, <2>1, KeepsSuperseded DEF row
<1> QED BY <1>6, <1>7

\* Fields of which no listing takes note.
SameBut(d) ==
  /\ d.open = dialog.open /\ d.loading = dialog.loading /\ d.parent = dialog.parent
  /\ d.selected = dialog.selected /\ d.child = dialog.child /\ d.draft = dialog.draft

LEMMA KeepsOther ==
  ASSUME PickIInv, dialog' \in Dialogs, SameBut(dialog'), UNCHANGED <<scans, requestSeq, openGeneration, route>>,
         creation' \in {None} \cup (Nat \X Levels \X Levels), Settled(dialog'), PickCreation'
  PROVE  PickIInv'
<1>0. PickTypes /\ PickScans /\ PanesOf(dialog, route)
  BY DEF PickIInv
<1>1. PickTypes'
  BY <1>0 DEF PickTypes
<1>2. PickScans'
  BY <1>0, ScansStay DEF SameBut
<1>3. PanesOf(dialog, route)'
  BY <1>0 DEF PanesOf, SameBut
<1> QED BY <1>1, <1>2, <1>3 DEF PickIInv

LEMMA DraftRestsFields ==
  ASSUME NEW d \in Dialogs
  PROVE  LET z == [d EXCEPT !.timer = FALSE] IN
         /\ z \in Dialogs /\ z.open = d.open /\ z.busy = d.busy /\ z.folder = d.folder /\ z.parent = d.parent
         /\ z.selected = d.selected /\ z.child = d.child /\ z.loading = d.loading /\ z.draft = d.draft
         /\ z.timer = FALSE /\ z.error = d.error
  BY DEF Dialogs

LEMMA KeepsDraftRests == PickIInv /\ DraftRests => PickIInv'
<1> SUFFICES ASSUME PickIInv, DraftRests PROVE PickIInv'
  OBVIOUS
<1>0. PickTypes /\ PickScans /\ PanesOf(dialog, route) /\ Settled(dialog) /\ PickCreation
  BY DEF PickIInv
<1> DEFINE d == [dialog EXCEPT !.timer = FALSE]
<1>1. dialog \in Dialogs /\ requestSeq \in Nat
  BY <1>0 DEF PickTypes
<1>2. /\ d \in Dialogs /\ d.open = dialog.open /\ d.busy = dialog.busy /\ d.folder = dialog.folder
      /\ d.parent = dialog.parent /\ d.selected = dialog.selected /\ d.child = dialog.child
      /\ d.loading = dialog.loading /\ d.draft = dialog.draft /\ d.timer = FALSE /\ d.error = dialog.error
  BY <1>1, DraftRestsFields
<1>3. dialog.timer /\ dialog.open /\ dialog.draft # NoDraft /\ ~Inert(dialog) /\ Elsewhere
      /\ UNCHANGED <<openGeneration, creation, route>>
  BY <1>0 DEF Settled, DraftRests, Elsewhere
<1>4. CASE dialog' = d /\ UNCHANGED <<scans, requestSeq>>
  <2>1. Settled(dialog')
    BY <1>2, <1>3, <1>4 DEF Settled, Inert
  <2>2. PickCreation'
    BY <1>0, <1>2, <1>3, <1>4, CreationKept
  <2>3. SameBut(dialog') /\ dialog' \in Dialogs /\ creation' \in {None} \cup (Nat \X Levels \X Levels)
    BY <1>0, <1>2, <1>3, <1>4 DEF SameBut, PickTypes
  <2> QED BY <1>3, <1>4, <2>1, <2>2, <2>3, KeepsOther
<1>5. CASE /\ d.draft.dir \in Dirs /\ Shown # None /\ land(d, d.draft.dir, FALSE)
  <2> PICK n : n = Scan("target", d.draft.dir, FALSE)
    OBVIOUS
  <2>1. requestSeq' = requestSeq + 1 /\ scans' = scans \cup {n}
    BY <1>5 DEF land, launchListing, supersede
  <2>2. dialog' = [d EXCEPT !.loading = TRUE, !.error = @ /\ ~FALSE]
    BY <1>5 DEF land
  <2> HIDE DEF d
  <2>3. /\ dialog' \in Dialogs /\ dialog'.loading = TRUE /\ dialog'.busy = d.busy /\ dialog'.folder = d.folder
        /\ dialog'.open = d.open /\ dialog'.timer = FALSE /\ dialog'.draft = d.draft
        /\ dialog'.parent = d.parent /\ dialog'.selected = d.selected /\ dialog'.child = d.child
    BY <1>2, <2>2 DEF Dialogs
  <2>4. /\ n \in Listings /\ n.seq = requestSeq + 1 /\ n.landed = FALSE /\ n.leg = "target"
        /\ n.host = route' /\ n.submitted = FALSE
    <3>1. requestSeq + 1 \in Nat /\ route' \in PickHosts
      BY <1>0, <1>3 DEF PickTypes
    <3> QED BY <1>5, <3>1 DEF Scan, Listings
  <2>6. PickTypes'
    <3>1. requestSeq' = requestSeq + 1 /\ n.seq = requestSeq + 1
      BY <2>1, <2>4
    <3>2. requestSeq' \in Nat /\ requestSeq' >= requestSeq /\ n.seq <= requestSeq'
      BY ONLY <1>1, <3>1
    <3>3. openGeneration' \in Nat /\ route' \in PickHosts /\ UNCHANGED creation /\ scans' \in SUBSET (scans \cup {n})
      BY <1>0, <1>3, <2>1 DEF PickTypes
    <3> QED BY <1>0, <2>3, <2>4, <3>2, <3>3, TypesKept
  <2>7. PickScans'
    <3>1. Pending(n, dialog)'
      BY <1>2, <1>3, <2>3, <2>4 DEF Pending
    <3> QED BY <1>0, <2>1, <2>4, <3>1, ScansLaunched
  <2>8. PanesOf(dialog, route)'
    BY <1>0, <1>2, <1>3, <2>3 DEF PanesOf
  <2>9. Settled(dialog)'
    BY <1>2, <1>3, <2>3 DEF Settled, Inert
  <2>10. PickCreation'
    BY <1>0, <1>2, <1>3, <2>3, CreationKept
  <2> QED BY <2>6, <2>7, <2>8, <2>9, <2>10 DEF PickIInv
<1> QED BY <1>4, <1>5 DEF DraftRests

-----------------------------------------------------------------------------
(* A new folder, the owner and the hosts. *)

LEMMA FolderFields ==
  ASSUME NEW d \in Dialogs, NEW f \in {"closed", "named", "creating"}
  PROVE  LET z == [d EXCEPT !.folder = f] IN
         /\ z \in Dialogs /\ z.open = d.open /\ z.busy = d.busy /\ z.folder = f /\ z.parent = d.parent
         /\ z.selected = d.selected /\ z.child = d.child /\ z.loading = d.loading /\ z.draft = d.draft
         /\ z.timer = d.timer /\ z.error = d.error
  BY DEF Dialogs

LEMMA BusyFields ==
  ASSUME NEW d \in Dialogs, NEW b \in BOOLEAN
  PROVE  LET z == [d EXCEPT !.busy = b] IN
         /\ z \in Dialogs /\ z.open = d.open /\ z.busy = b /\ z.folder = d.folder /\ z.parent = d.parent
         /\ z.selected = d.selected /\ z.child = d.child /\ z.loading = d.loading /\ z.draft = d.draft
         /\ z.timer = d.timer /\ z.error = d.error
  BY DEF Dialogs

\* The folder or the owner's work changes and the rest stays.
LEMMA KeepsNamed ==
  ASSUME PickIInv, NEW f \in {"closed", "named", "creating"}, dialog' = [dialog EXCEPT !.folder = f],
         UNCHANGED <<scans, requestSeq, openGeneration, route>>,
         creation' \in {None} \cup (Nat \X Levels \X Levels),
         f # "closed" => dialog.open /\ ~dialog.loading /\ dialog.draft = NoDraft /\ ~dialog.busy
                         /\ dialog.parent # None,
         \/ (UNCHANGED creation /\ dialog.folder # "creating")
         \/ creation' = None
         \/ /\ f = "creating" /\ creation'[1] = openGeneration /\ creation'[2][1] = route
            /\ creation'[3] \in Below(creation'[2])
  PROVE  PickIInv'
<1>0. /\ PickTypes /\ Settled(dialog) /\ PickCreation /\ dialog \in Dialogs /\ openGeneration \in Nat
      /\ f \in {"closed", "named", "creating"}
  BY DEF PickIInv, PickTypes
<1>1. LET z == [dialog EXCEPT !.folder = f] IN
      /\ z \in Dialogs /\ z.open = dialog.open /\ z.busy = dialog.busy /\ z.folder = f /\ z.parent = dialog.parent
      /\ z.selected = dialog.selected /\ z.child = dialog.child /\ z.loading = dialog.loading
      /\ z.draft = dialog.draft /\ z.timer = dialog.timer /\ z.error = dialog.error
  BY ONLY <1>0, FolderFields
<1>2. /\ dialog' \in Dialogs /\ SameBut(dialog') /\ dialog'.busy = dialog.busy /\ dialog'.folder = f
      /\ dialog'.timer = dialog.timer /\ dialog'.error = dialog.error
  BY <1>1 DEF SameBut
<1>3. Settled(dialog')
  BY <1>0, <1>2 DEF Settled, Inert, SameBut
<1>4. PickCreation'
  <2>1. CASE UNCHANGED creation /\ dialog.folder # "creating"
    BY <1>0, <2>1, CreationStays
  <2>2. CASE creation' = None
    BY <2>2 DEF PickCreation
  <2>3. CASE /\ f = "creating" /\ creation'[1] = openGeneration /\ creation'[2][1] = route
             /\ creation'[3] \in Below(creation'[2])
    BY <1>0, <1>2, <2>3 DEF PickCreation, Mine, SameBut
  <2> QED BY <2>1, <2>2, <2>3
<1> QED BY <1>2, <1>3, <1>4, KeepsOther

LEMMA KeepsNewFolder == PickIInv /\ NewFolder => PickIInv'
<1> SUFFICES ASSUME PickIInv, NewFolder PROVE PickIInv'
  OBVIOUS
<1>1. /\ Gesture /\ ~dialog.loading /\ dialog.draft = NoDraft /\ dialog.parent # None
      /\ dialog' = [dialog EXCEPT !.folder = "named"]
      /\ UNCHANGED <<scans, requestSeq, openGeneration, creation, route>>
  BY DEF NewFolder, MayCommit, Elsewhere
<1>2. creation' \in {None} \cup (Nat \X Levels \X Levels)
  BY <1>1 DEF PickIInv, PickTypes
<1> QED BY <1>1, <1>2, GestureFacts, KeepsNamed

LEMMA KeepsLeaveFolder == PickIInv /\ LeaveFolder => PickIInv'
<1> SUFFICES ASSUME PickIInv, LeaveFolder PROVE PickIInv'
  OBVIOUS
<1>1. /\ dialog.folder = "named" /\ dialog' = [dialog EXCEPT !.folder = "closed"]
      /\ UNCHANGED <<scans, requestSeq, openGeneration, creation, route>>
  BY DEF LeaveFolder, Elsewhere
<1>2. creation' \in {None} \cup (Nat \X Levels \X Levels)
  BY <1>1 DEF PickIInv, PickTypes
<1> QED BY <1>1, <1>2, KeepsNamed

LEMMA TargetFacts ==
  ASSUME PickIInv, dialog.open, dialog.parent # None
  PROVE  Target \in Levels /\ Target[1] = route
<1>1. dialog \in Dialogs /\ PanesOf(dialog, route)
  BY DEF PickIInv, PickTypes
<1>2. dialog.parent \in Levels /\ dialog.parent[1] = route
  BY <1>1, DialogFields DEF PanesOf
<1>3. dialog.selected # None => dialog.selected \in Levels /\ dialog.selected[1] = route
  BY <1>1, <1>2, BelowFacts DEF PanesOf
<1> QED BY <1>2, <1>3 DEF Target

LEMMA KeepsconfirmCreate == PickIInv /\ confirmCreate => PickIInv'
<1> SUFFICES ASSUME PickIInv, confirmCreate PROVE PickIInv'
  OBVIOUS
<1>1. /\ dialog.folder = "named" /\ dialog' = [dialog EXCEPT !.folder = "creating"]
      /\ UNCHANGED <<scans, requestSeq, openGeneration, route>>
  BY DEF confirmCreate
<1>2. dialog.open /\ ~dialog.loading /\ dialog.draft = NoDraft /\ ~dialog.busy /\ dialog.parent # None
  BY <1>1 DEF PickIInv, Settled, Inert
<1>3. Target \in Levels /\ Target[1] = route
  BY <1>2, TargetFacts
<1>4. PICK row \in Below(Target) : creation' = <<openGeneration, Target, row>>
  BY DEF confirmCreate
<1>5. row \in Levels /\ openGeneration \in Nat
  BY <1>3, BelowFacts DEF PickIInv, PickTypes
<1> HIDE DEF Target
<1>6. /\ creation' \in {None} \cup (Nat \X Levels \X Levels) /\ creation'[1] = openGeneration
      /\ creation'[2] = Target /\ creation'[3] = row
  BY <1>3, <1>4, <1>5
<1>7. creation'[2][1] = route /\ creation'[3] \in Below(creation'[2])
  BY <1>3, <1>6
<1> QED BY <1>1, <1>2, <1>6, <1>7, KeepsNamed

LEMMA KeepsFolderRefused == PickIInv /\ FolderRefused => PickIInv'
<1> SUFFICES ASSUME PickIInv, FolderRefused PROVE PickIInv'
  OBVIOUS
<1>0. PickTypes /\ Settled(dialog) /\ PickCreation
  BY DEF PickIInv
<1>1. creation # None /\ creation' = None /\ UNCHANGED <<scans, requestSeq, openGeneration, route>>
  BY DEF FolderRefused
<1>2. creation' \in {None} \cup (Nat \X Levels \X Levels)
  BY <1>1
<1>3. CASE Mine
  <2>1. dialog' = [dialog EXCEPT !.folder = "named"]
    BY <1>3 DEF FolderRefused
  <2>2. dialog.open /\ ~dialog.loading /\ dialog.draft = NoDraft /\ ~dialog.busy /\ dialog.parent # None
    BY <1>0, <1>1, <1>3 DEF PickCreation, Settled, Inert
  <2> QED BY <1>1, <1>2, <2>1, <2>2, KeepsNamed
<1>4. CASE ~Mine
  <2>1. dialog' = dialog
    BY <1>4 DEF FolderRefused
  <2>2. dialog' \in Dialogs /\ SameBut(dialog') /\ Settled(dialog')
    BY <1>0, <2>1 DEF PickTypes, SameBut, Settled, Inert
  <2>3. PickCreation'
    BY <1>1 DEF PickCreation
  <2> QED BY <1>1, <1>2, <2>2, <2>3, KeepsOther
<1> QED BY <1>3, <1>4

\* The level in which the folder was made is listed anew.
LEMMA KeepsFolderMade == PickIInv /\ FolderMade => PickIInv'
<1> SUFFICES ASSUME PickIInv, FolderMade PROVE PickIInv'
  OBVIOUS
<1>0. PickTypes /\ PickScans /\ PanesOf(dialog, route) /\ Settled(dialog) /\ PickCreation /\ dialog \in Dialogs
  BY DEF PickIInv, PickTypes
<1>1. creation # None /\ creation' = None /\ UNCHANGED <<openGeneration, route, shownHost>>
  BY DEF FolderMade
<1>2. PickCreation'
  BY <1>1 DEF PickCreation
<1>3. CASE ~Mine
  <2>1. UNCHANGED <<dialog, scans, requestSeq>>
    BY <1>3 DEF FolderMade
  <2>2. dialog' \in Dialogs /\ SameBut(dialog') /\ Settled(dialog')
    BY <1>0, <2>1 DEF SameBut, Settled, Inert
  <2> QED BY <1>1, <1>2, <2>1, <2>2, KeepsOther
<1>4. CASE Mine
  <2> DEFINE c == Scan("relist", creation[2][2], TRUE)
  <2> PICK n : n = [c EXCEPT !.target = creation[3]]
    OBVIOUS
  <2>1. requestSeq' = requestSeq + 1 /\ scans' = scans \cup {n}
    BY <1>4 DEF FolderMade, supersede
  <2>2. dialog' = [dialog EXCEPT !.folder = "closed", !.loading = TRUE, !.error = FALSE]
    BY <1>4 DEF FolderMade
  <2>3. /\ dialog.open /\ ~dialog.busy /\ dialog.draft = NoDraft
        /\ creation[2][1] = route /\ creation[3] \in Below(creation[2])
    BY <1>0, <1>1, <1>4 DEF PickCreation, Settled, Inert
  <2>4. /\ dialog' \in Dialogs /\ dialog'.open = dialog.open /\ dialog'.busy = dialog.busy
        /\ dialog'.folder = "closed" /\ dialog'.parent = dialog.parent /\ dialog'.loading = TRUE
        /\ dialog'.selected = dialog.selected /\ dialog'.child = dialog.child
        /\ dialog'.draft = dialog.draft /\ dialog'.timer = dialog.timer
    BY <1>0, <2>2 DEF Dialogs
  <2>5. creation[2] \in Levels /\ creation[2][2] \in Dirs /\ creation[3] \in Levels
        /\ creation[2] = <<creation[2][1], creation[2][2]>>
    <3>1. creation[2] \in Levels
      BY <1>0, <1>1 DEF PickTypes
    <3> QED BY <2>3, <3>1, LevelFacts, BelowFacts
  <2>6. /\ c \in Listings /\ c.seq = requestSeq + 1 /\ c.landed = FALSE /\ c.leg = "relist"
        /\ c.host = route /\ c.submitted = TRUE /\ c.dir = creation[2][2]
    <3>1. requestSeq + 1 \in Nat /\ route' \in PickHosts /\ route' = route
      BY <1>0, <1>1 DEF PickTypes
    <3> QED BY <2>5, <3>1 DEF Scan, Listings
  <2> HIDE DEF c
  <2>7. /\ n \in Listings /\ n.seq = requestSeq + 1 /\ n.landed = FALSE /\ n.leg = "relist"
        /\ n.host = route /\ n.submitted = TRUE /\ n.dir = creation[2][2] /\ n.target = creation[3]
    <3> HIDE DEF None
    <3> QED BY <2>5, <2>6 DEF Listings
  <2>8. Level(n) = creation[2]
    BY <2>3, <2>5, <2>7 DEF Level
  <2>9. PickTypes'
    <3>0. requestSeq \in Nat
      BY <1>0 DEF PickTypes
    <3>1. requestSeq' = requestSeq + 1 /\ n.seq = requestSeq + 1
      BY <2>1, <2>7
    <3>2. requestSeq' \in Nat /\ n.seq <= requestSeq'
      BY ONLY <3>0, <3>1
    <3>3. \A s \in scans : s \in Listings /\ s.seq <= requestSeq'
      <4>1. \A s \in scans : s \in Listings /\ s.seq \in Nat /\ s.seq <= requestSeq
        BY <1>0, ListingFields DEF PickTypes
      <4> QED BY <3>0, <3>1, <4>1
    <3> QED BY <1>0, <1>1, <2>1, <2>4, <2>7, <3>2, <3>3 DEF PickTypes
  <2>10. PickScans'
    <3>1. Pending(n, dialog)'
      BY <1>1, <2>3, <2>4, <2>7, <2>8 DEF Pending
    <3> QED BY <1>0, <2>1, <2>7, <3>1, ScansLaunched
  <2>11. PanesOf(dialog, route)'
    BY <1>0, <1>1, <2>4 DEF PanesOf
  <2>12. Settled(dialog)'
    BY <1>0, <2>3, <2>4 DEF Settled, Inert
  <2> QED BY <1>2, <2>9, <2>10, <2>11, <2>12 DEF PickIInv
<1> QED BY <1>3, <1>4

LEMMA OpenedFields ==
  LET z == [NoDialog EXCEPT !.open = TRUE] IN
  /\ z \in Dialogs /\ z.open = TRUE /\ z.busy = FALSE /\ z.folder = "closed" /\ z.parent = None
  /\ z.selected = None /\ z.child = None /\ z.timer = FALSE
<1>1. NoDraft \in Drafts
  BY DraftFacts
<1> QED BY <1>1 DEF NoDialog, Dialogs

\* The dialog begins anew: what was under way belongs to an earlier generation.
LEMMA KeepsFresh ==
  ASSUME PickIInv, Fresh, UNCHANGED creation, route' \in PickHosts, dialog.open => ~dialog.busy
  PROVE  PickIInv'
<1> DEFINE d == [NoDialog EXCEPT !.open = TRUE]
<1>1. /\ d \in Dialogs /\ d.open = TRUE /\ d.busy = FALSE /\ d.folder = "closed" /\ d.parent = None
      /\ d.selected = None /\ d.child = None /\ d.timer = FALSE
  BY OpenedFields
<1>2. openGeneration' = openGeneration + 1 /\ land(d, 0, TRUE)
  BY DEF Fresh, Home
<1> HIDE DEF d
<1>0. PickTypes /\ PickCreation /\ openGeneration \in Nat /\ requestSeq \in Nat
  BY DEF PickIInv, PickTypes
<1> PICK n : n = Scan("target", 0, TRUE)
  OBVIOUS
<1>3. requestSeq' = requestSeq + 1 /\ scans' = scans \cup {n}
  BY <1>2 DEF land, launchListing, supersede
<1>4. dialog' = [d EXCEPT !.loading = TRUE, !.error = @ /\ ~TRUE]
  BY <1>2 DEF land
<1>5. /\ dialog' \in Dialogs /\ dialog'.loading = TRUE /\ dialog'.busy = FALSE /\ dialog'.folder = "closed"
      /\ dialog'.open = TRUE /\ dialog'.timer = FALSE
      /\ dialog'.parent = None /\ dialog'.selected = None /\ dialog'.child = None
  BY <1>1, <1>4 DEF Dialogs
<1>6. /\ n \in Listings /\ n.seq = requestSeq + 1 /\ n.landed = FALSE /\ n.leg = "target"
      /\ n.host = route' /\ n.submitted = TRUE
  BY <1>0, PickerAssumption DEF Scan, Listings
<1>7. PickTypes'
  <2>1. requestSeq' = requestSeq + 1 /\ n.seq = requestSeq + 1
    BY <1>3, <1>6
  <2>2. requestSeq' \in Nat /\ requestSeq' >= requestSeq /\ n.seq <= requestSeq'
    BY ONLY <1>0, <2>1
  <2>3. openGeneration' \in Nat
    BY <1>0, <1>2
  <2> QED BY <1>0, <1>3, <1>5, <1>6, <2>2, <2>3, TypesKept
<1>8. PickScans'
  <2>1. Pending(n, dialog)'
    BY <1>5, <1>6 DEF Pending
  <2> QED BY <1>0, <1>3, <1>6, <2>1, ScansLaunched
<1>9. PanesOf(dialog, route)'
  BY <1>5 DEF PanesOf
<1>10. Settled(dialog)'
  BY <1>5 DEF Settled, Inert
<1>11. PickCreation'
  <2>1. creation # None => creation[1] \in Nat
    BY <1>0 DEF PickTypes
  <2> QED BY <1>0, <1>2, <2>1 DEF PickCreation, Mine
<1> QED BY <1>7, <1>8, <1>9, <1>10, <1>11 DEF PickIInv

LEMMA KeepsOwnerOpens == PickIInv /\ OwnerOpens => PickIInv'
<1> SUFFICES ASSUME PickIInv, OwnerOpens PROVE PickIInv'
  OBVIOUS
<1>1. ~dialog.open /\ UNCHANGED <<creation, route>> /\ Fresh
  BY DEF OwnerOpens
<1>2. route' \in PickHosts
  BY <1>1 DEF PickIInv, PickTypes
<1> QED BY <1>1, <1>2, KeepsFresh

LEMMA KeepsChooseHost == PickIInv /\ ChooseHost => PickIInv'
<1> SUFFICES ASSUME PickIInv, ChooseHost PROVE PickIInv'
  OBVIOUS
<1>1. ~dialog.busy /\ UNCHANGED creation /\ Fresh /\ route' \in PickHosts
  BY DEF ChooseHost
<1> QED BY <1>1, KeepsFresh

LEMMA KeepsOwnerCloses == PickIInv /\ OwnerCloses => PickIInv'
<1> SUFFICES ASSUME PickIInv, OwnerCloses PROVE PickIInv'
  OBVIOUS
<1>0. PickTypes /\ PanesOf(dialog, route) /\ PickCreation /\ dialog \in Dialogs /\ openGeneration \in Nat
  BY DEF PickIInv, PickTypes
<1>1. /\ requestSeq' = requestSeq + 1 /\ dialog' = Shut /\ openGeneration' = openGeneration + 1
      /\ UNCHANGED <<scans, creation, route>>
  BY DEF OwnerCloses, supersede
<1>2. /\ dialog' \in Dialogs /\ dialog'.open = FALSE /\ dialog'.busy = FALSE /\ dialog'.folder = "closed"
      /\ dialog'.loading = FALSE /\ dialog'.timer = FALSE /\ dialog'.parent = dialog.parent
      /\ dialog'.selected = dialog.selected /\ dialog'.child = dialog.child
  <2>1. NoDraft \in Drafts
    BY DraftFacts
  <2> HIDE DEF NoDraft
  <2> QED BY <1>0, <1>1, <2>1 DEF Shut, Dialogs
<1>3. PickTypes'
  <2>1. openGeneration' \in Nat
    BY <1>0, <1>1
  <2> QED BY <1>0, <1>1, <1>2, <2>1, TypesSuperseded
<1>4. PickScans'
  BY <1>0, <1>1, <1>2, ScansSuperseded
<1>5. PanesOf(dialog, route)'
  BY <1>0, <1>2 DEF PanesOf
<1>6. Settled(dialog)'
  BY <1>2 DEF Settled, Inert
<1>7. PickCreation'
  <2>1. creation # None => creation[1] \in Nat
    BY <1>0 DEF PickTypes
  <2> QED BY <1>0, <1>1, <2>1 DEF PickCreation, Mine
<1> QED BY <1>3, <1>4, <1>5, <1>6, <1>7 DEF PickIInv

LEMMA KeepsBusy ==
  ASSUME PickIInv, dialog.open, ~dialog.loading, dialog.draft = NoDraft, dialog.folder = "closed",
         dialog' \in Dialogs, SameBut(dialog'), dialog'.folder = dialog.folder,
         dialog'.timer = dialog.timer, dialog'.error = dialog.error,
         UNCHANGED <<scans, requestSeq, openGeneration, creation, route>>
  PROVE  PickIInv'
<1>0. PickTypes /\ Settled(dialog) /\ PickCreation
  BY DEF PickIInv
<1>1. Settled(dialog')
  BY <1>0 DEF Settled, Inert, SameBut
<1>2. PickCreation'
  BY <1>0, CreationKept DEF SameBut
<1>3. creation' \in {None} \cup (Nat \X Levels \X Levels)
  BY <1>0 DEF PickTypes
<1> QED BY <1>1, <1>2, <1>3, KeepsOther

LEMMA KeepsAdopt == PickIInv /\ Adopt => PickIInv'
<1> SUFFICES ASSUME PickIInv, Adopt PROVE PickIInv'
  OBVIOUS
<1>1. /\ Gesture /\ ~dialog.loading /\ dialog.draft = NoDraft /\ dialog' = [dialog EXCEPT !.busy = TRUE]
      /\ UNCHANGED <<scans, requestSeq, openGeneration, creation, route>>
  BY DEF Adopt, MayCommit, Elsewhere
<1>2. dialog \in Dialogs /\ dialog.open /\ dialog.folder = "closed"
  BY <1>1, GestureFacts
<1>3. /\ dialog' \in Dialogs /\ SameBut(dialog') /\ dialog'.folder = dialog.folder
      /\ dialog'.timer = dialog.timer /\ dialog'.error = dialog.error
  BY <1>1, <1>2 DEF Dialogs, SameBut
<1> QED BY <1>1, <1>2, <1>3, KeepsBusy

LEMMA KeepsNotAdopted == PickIInv /\ NotAdopted => PickIInv'
<1> SUFFICES ASSUME PickIInv, NotAdopted PROVE PickIInv'
  OBVIOUS
<1>1. /\ dialog.busy /\ dialog' = [dialog EXCEPT !.busy = FALSE]
      /\ UNCHANGED <<scans, requestSeq, openGeneration, creation, route>>
  BY DEF NotAdopted, Elsewhere
<1>2. dialog \in Dialogs /\ dialog.open /\ ~dialog.loading /\ dialog.draft = NoDraft /\ dialog.folder = "closed"
  BY <1>1 DEF PickIInv, PickTypes, Settled, Inert
<1>3. /\ dialog' \in Dialogs /\ SameBut(dialog') /\ dialog'.folder = dialog.folder
      /\ dialog'.timer = dialog.timer /\ dialog'.error = dialog.error
  BY <1>1, <1>2 DEF Dialogs, SameBut
<1> QED BY <1>1, <1>2, <1>3, KeepsBusy

\* The route changes under a closed dialog only, and none of its listings is current then.
LEMMA KeepsChosenElsewhere == PickIInv /\ ChosenElsewhere => PickIInv'
<1> SUFFICES ASSUME PickIInv, ChosenElsewhere PROVE PickIInv'
  OBVIOUS
<1>0. PickTypes /\ PickScans /\ PanesOf(dialog, route) /\ Settled(dialog) /\ PickCreation
  BY DEF PickIInv
<1>1. /\ ~dialog.open /\ route' \in PickHosts
      /\ UNCHANGED <<dialog, scans, requestSeq, openGeneration, creation>>
  BY DEF ChosenElsewhere
<1>2. PickTypes'
  BY <1>0, <1>1 DEF PickTypes
<1>3. \A s \in scans : ~CurrentScan(s)
  BY <1>0, <1>1 DEF PickScans, Pending
<1>4. PickScans'
  BY <1>0, <1>1, <1>3 DEF PickScans, CurrentScan
<1>5. PanesOf(dialog, route)'
  BY <1>0, <1>1 DEF PanesOf
<1>6. Settled(dialog)'
  BY <1>0, <1>1 DEF Settled, Inert
<1>7. PickCreation'
  BY <1>0, <1>1 DEF PickCreation, Mine
<1> QED BY <1>2, <1>4, <1>5, <1>6, <1>7 DEF PickIInv

-----------------------------------------------------------------------------
(* The theorems. *)

LEMMA PickStep == PickIInv /\ [PickNext]_pickVars => PickIInv'
<1> SUFFICES ASSUME PickIInv, [PickNext]_pickVars PROVE PickIInv'
  OBVIOUS
<1>1. CASE UNCHANGED pickVars
  <2>1. UNCHANGED <<dialog, scans, requestSeq, openGeneration, creation, route>>
    BY <1>1 DEF pickVars
  <2>2. PickTypes /\ PickScans /\ PanesOf(dialog, route) /\ Settled(dialog) /\ PickCreation /\ dialog \in Dialogs
    BY DEF PickIInv, PickTypes
  <2>3. PickTypes'
    BY <2>1, <2>2, TypesStay
  <2>4. PickScans'
    BY <2>1, <2>2, ScansStay
  <2>5. PickCreation'
    BY <2>1, <2>2, CreationKept
  <2> QED BY <2>1, <2>2, <2>3, <2>4, <2>5 DEF PickIInv, PanesOf, Settled, Inert
<1>2. CASE Pick \/ Advance \/ Jump \/ OpenEditor \/ Type \/ Submit \/ cancelPathEdit \/ DraftRests
  BY <1>2, KeepsPick, KeepsAdvance, KeepsJump, KeepsOpenEditor, KeepsType, KeepsSubmit, KeepscancelPathEdit,
     KeepsDraftRests
<1>3. CASE NewFolder \/ LeaveFolder \/ confirmCreate \/ FolderMade \/ FolderRefused
  BY <1>3, KeepsNewFolder, KeepsLeaveFolder, KeepsconfirmCreate, KeepsFolderMade, KeepsFolderRefused
<1>4. CASE OwnerOpens \/ OwnerCloses \/ Adopt \/ NotAdopted \/ ChooseHost \/ ChosenElsewhere
  BY <1>4, KeepsOwnerOpens, KeepsOwnerCloses, KeepsAdopt, KeepsNotAdopted, KeepsChooseHost, KeepsChosenElsewhere
<1>5. CASE \E s \in scans : LegWaitOver(s) \/ Listed(s) \/ ListingFails(s)
  BY <1>5, KeepsLegWaitOver, KeepsListed, KeepsListingFails
<1> QED BY <1>1, <1>2, <1>3, <1>4, <1>5 DEF PickNext

\* Of the directory dialog: at most one listing is not superseded, it belongs to the host
\* calls go to, and the dialog waits for it; while the owner works or a folder is named
\* nothing is typed or listed; the folder that is made belongs to this opening or to none.
THEOREM PickInvariantHolds == PickSpec => []PickIInv
  BY PickInitially, PickStep, PTL DEF PickSpec

LEMMA PickInvariantIsEnough == PickIInv => PanesSound
<1> SUFFICES ASSUME PickIInv PROVE PanesSound
  OBVIOUS
<1>0. PickTypes /\ PickScans /\ PanesOf(dialog, route) /\ Settled(dialog)
  BY DEF PickIInv
<1>1. PanesTrue
  BY <1>0 DEF PanesOf, PanesTrue
<1>2. SomethingComes
  BY <1>0 DEF PickScans, Settled, SomethingComes
<1> QED BY <1>1, <1>2 DEF PanesSound

\* Of the directory dialog, over any tree, hosts and number of listings: the right pane
\* holds what the selected row of the left one does, all is of the host that calls go to,
\* and the dialog is half empty only while something comes or it says that nothing does.
THEOREM PanesAreSound == PickSpec => []PanesSound
  BY PickInvariantHolds, PickInvariantIsEnough, PTL

TargetStays ==
  /\ dialog.folder # "closed" /\ dialog'.folder # "closed" => Target' = Target
  /\ dialog.busy /\ dialog'.busy => Target' = Target

\* What settles while a folder is named or the owner works is the parent of a target that
\* has landed already: it moves to the right pane and stays the target.
LEMMA SettlesInert ==
  ASSUME PickIInv, Inert(dialog), NEW s \in scans, LegWaitOver(s) \/ Listed(s) \/ ListingFails(s)
  PROVE  Target' = Target
<1>0. PickTypes
  BY DEF PickIInv
<1>1. CASE ~CurrentScan(s)
  <2>1. dialog' = dialog
    BY <1>1 DEF LegWaitOver, Listed, ListingFails, Dropped
  <2> QED BY <2>1 DEF Target
<1>2. CASE CurrentScan(s)
  <2>1. /\ s \in Listings /\ s.landed = TRUE /\ s.leg = "parent" /\ dialog.parent = s.target
        /\ dialog.selected = None /\ s.target \in Levels /\ Level(s) \in Levels
    <3>1. s \in Listings /\ Pending(s, dialog) /\ s.landed \in BOOLEAN
      BY <1>2, CurrentFacts, ListingFields
    <3>2. s.landed = TRUE
      BY <1>2, <3>1, CurrentFacts
    <3> QED BY <1>2, <3>1, <3>2, CurrentFacts DEF Pending
  <2>2. CASE dialog' = landSingle(s, s.target)
    <3>1. dialog' = dialog
      BY <2>1, <2>2 DEF landSingle
    <3> QED BY <3>1 DEF Target
  <2>3. CASE dialog' = settle(s, [dialog EXCEPT !.parent = Level(s), !.selected = s.target, !.child = s.target])
    <3>1. SettledTo(dialog', Level(s), s.target, s)
      BY <1>0, <2>1, <2>3, BothTo
    <3>2. dialog'.selected = s.target /\ s.target # None
      BY <2>1, <3>1, LevelFacts DEF SettledTo
    <3> QED BY <2>1, <3>2 DEF Target
  <2>4. \/ dialog' = landSingle(s, s.target)
        \/ dialog' = settle(s, [dialog EXCEPT !.parent = Level(s), !.selected = s.target, !.child = s.target])
    BY <1>2, <2>1 DEF LegWaitOver, Listed, ListingFails, ParentListed
  <2> QED BY <2>2, <2>3, <2>4
<1> QED BY <1>1, <1>2

LEMMA TargetStep == PickIInv /\ [PickNext]_pickVars => [TargetStays]_pickVars
<1> SUFFICES ASSUME PickIInv, PickNext PROVE TargetStays
  OBVIOUS
<1>0. dialog \in Dialogs /\ Settled(dialog)
  BY DEF PickIInv, PickTypes
<1>1. CASE ~Inert(dialog)
  BY <1>1 DEF Inert, TargetStays
<1>2. CASE Inert(dialog)
  <2>1. ~Gesture /\ ~dialog.timer /\ dialog.open
    BY <1>0, <1>2 DEF Inert, Gesture, parentInert, Settled
  <2>2. ASSUME dialog'.parent = dialog.parent, dialog'.selected = dialog.selected
        PROVE  TargetStays
    BY <2>2 DEF Target, TargetStays
  <2>3. ASSUME dialog'.folder = "closed", dialog'.busy = FALSE
        PROVE  TargetStays
    BY <2>3 DEF TargetStays
  <2>4. CASE Pick \/ Advance \/ Jump \/ OpenEditor \/ Type \/ Submit \/ cancelPathEdit \/ DraftRests
    BY <2>1, <2>4 DEF Pick, Advance, Jump, OpenEditor, Type, Submit, cancelPathEdit, DraftRests
  <2>5. CASE NewFolder \/ Adopt \/ OwnerOpens
    BY <2>1, <2>5 DEF NewFolder, Adopt, MayCommit, OwnerOpens
  <2>6. CASE LeaveFolder \/ confirmCreate \/ FolderRefused \/ FolderMade
    <3>1. PICK f \in {"closed", "named", "creating"} :
            \/ dialog' = [dialog EXCEPT !.folder = f] \/ dialog' = dialog
            \/ dialog' = [dialog EXCEPT !.folder = "closed", !.loading = TRUE, !.error = FALSE]
      BY <2>6 DEF LeaveFolder, confirmCreate, FolderRefused, FolderMade
    <3>2. dialog'.parent = dialog.parent /\ dialog'.selected = dialog.selected
      BY <1>0, <3>1 DEF Dialogs
    <3> QED BY <2>2, <3>2
  <2>7. CASE NotAdopted
    <3>1. dialog' = [dialog EXCEPT !.busy = FALSE]
      BY <2>7 DEF NotAdopted
    <3>2. dialog'.parent = dialog.parent /\ dialog'.selected = dialog.selected
      BY <1>0, <3>1 DEF Dialogs
    <3> QED BY <2>2, <3>2
  <2>8. CASE ChosenElsewhere
    BY <2>2, <2>8 DEF ChosenElsewhere
  <2>9. CASE OwnerCloses
    <3>1. dialog' = Shut
      BY <2>9 DEF OwnerCloses
    <3>2. dialog'.folder = "closed" /\ dialog'.busy = FALSE
      BY <1>0, <3>1 DEF Shut, Dialogs
    <3> QED BY <2>3, <3>2
  <2>10. CASE ChooseHost
    <3> DEFINE d == [NoDialog EXCEPT !.open = TRUE]
    <3>1. dialog' = [d EXCEPT !.loading = TRUE, !.error = @ /\ ~TRUE]
      BY <2>10 DEF ChooseHost, Fresh, Home, land
    <3>2. d \in Dialogs /\ d.folder = "closed" /\ d.busy = FALSE
      BY OpenedFields
    <3> HIDE DEF d
    <3>3. dialog'.folder = "closed" /\ dialog'.busy = FALSE
      BY <3>1, <3>2 DEF Dialogs
    <3> QED BY <2>3, <3>3
  <2>11. CASE \E s \in scans : LegWaitOver(s) \/ Listed(s) \/ ListingFails(s)
    BY <1>2, <2>11, SettlesInert DEF TargetStays
  <2> QED BY <2>4, <2>5, <2>6, <2>7, <2>8, <2>9, <2>10, <2>11 DEF PickNext
<1> QED BY <1>1, <1>2

\* Of the directory dialog: while a folder is named or made the directory it is made in
\* does not change, nor does the one the owner takes while the owner works.
THEOREM TargetIsKept == PickSpec => TargetKept
  BY PickInvariantHolds, TargetStep, PTL DEF PickSpec, TargetKept, TargetStays

=============================================================================
