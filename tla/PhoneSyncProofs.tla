--------------------------- MODULE PhoneSyncProofs ---------------------------
(***************************************************************************)
(* Proofs about how a phone catches up: through the synchronisation plugin  *)
(* (SessionDelta), through the v3 reads of the mobile stream service        *)
(* (MobileReads) and through the copy for the Android shell (AndroidSync),  *)
(* for any number of sessions, any logs and any limits on pages; and how    *)
(* that copy tells it what happens meanwhile (AndroidEvents).               *)
(***************************************************************************)
EXTENDS SessionDelta, MobileReads, AndroidSync, AndroidEvents, FiniteSetTheorems, SequenceTheorems, TLAPS

\* A sequence of the log, or the cursor of an empty one.
Cursor == {-1} \cup Nat

BoundedLog(log) == log \in SUBSET Nat /\ \E b \in Nat : \A e \in log : e <= b

LogsOK == DOMAIN durable = SyncSessions /\ \A s \in SyncSessions : BoundedLog(durable[s])

IsCopy(x) == x = [cursor |-> x.cursor, held |-> x.held, life |-> x.life]

\* A phone is never ahead of a log it follows.
CopiesOK ==
  /\ DOMAIN copy = SyncSessions /\ due \subseteq SyncSessions
  /\ \A s \in SyncSessions :
       /\ IsCopy(copy[s]) /\ copy[s].cursor \in Cursor
       /\ copy[s].life = "this" => copy[s].cursor <= TopOf(durable[s])

IsCall(c) ==
  c = [stage |-> c.stage, kind |-> c.kind, session |-> c.session, after |-> c.after,
       limit |-> c.limit, fixed |-> c.fixed, records |-> c.records, pages |-> c.pages,
       more |-> c.more, rows |-> c.rows, unread |-> c.unread, listed |-> c.listed,
       hidden |-> c.hidden, followed |-> c.followed, then |-> c.then]

CallOK ==
  /\ IsCall(call)
  /\ call.stage \in {"opening", "paging"} => call.kind = "delta"
  /\ call.stage \in {"listing", "rows"} => call.kind = "snapshot"
  /\ call.kind = "delta" => call.stage \in {"body", "opening", "paging"}
  /\ call.stage = "body" => call.kind \in {"delta", "snapshot"}

\* What a walk has read is all of the log from some event up to the pinned cursor, and
\* all below too once there is no more.
Walked(got, fixed, after, more, log) ==
  /\ fixed \in log \cup {-1} /\ after <= fixed
  /\ got \subseteq log /\ \A e \in got : e <= fixed
  /\ \A d \in log : d <= fixed /\ (\E e \in got : e <= d) => d \in got
  /\ ~more => \A e \in log : e <= fixed => e \in got
  /\ fixed # -1 => got # {}

Arrived(got, fixed, after, more) == after >= fixed \/ ~more \/ \E e \in got : e <= after

\* All the events from a cursor up to where they end.
AllBetween(events, through, after, fixed, log) ==
  /\ events = {e \in log : after < e /\ e <= through}
  /\ through >= fixed <=> ~\E e \in log : through < e /\ e <= fixed
  /\ through >= fixed \/ events # {}
  /\ through \in Cursor /\ through \in {after} \cup events /\ after <= through /\ through <= fixed
  /\ fixed \in Cursor /\ fixed <= TopOf(log) /\ TopOf(log) \in Cursor

WalkOf(c, log) == Walked(c.records, c.fixed, c.after, c.more, log)

DeltaCallOK ==
  call.kind = "delta" =>
    \E s \in SyncSessions :
      /\ call.session = {s} /\ call.after = copy[s].cursor /\ call.limit \in Nat \ {0}
      /\ call.stage = "paging" => WalkOf(call, durable[s]) /\ ~CursorReached(call)

\* A row is unread, of a session that cannot be read, or of a moment after the request.
SnapshotCallOK ==
  call.kind = "snapshot" =>
    /\ \A s \in SyncSessions : call.then[s] \in Cursor /\ call.then[s] <= TopOf(durable[s])
    /\ call.hidden \subseteq archived /\ call.unread \subseteq SyncSessions
    /\ call.stage = "rows" => call.listed
    /\ call.listed =>
         /\ DOMAIN call.rows \subseteq SyncSessions
         /\ SyncSessions \subseteq DOMAIN call.rows \cup call.unread
         /\ \A s \in DOMAIN call.rows :
              /\ call.rows[s] \in Cursor /\ call.rows[s] <= TopOf(durable[s])
              /\ call.rows[s] = -1 \/ call.then[s] <= call.rows[s]

ExactDelta(said, log) ==
  /\ said.events = {e \in log : said.after < e /\ e <= said.through}
  /\ said.caughtUp <=> ~\E e \in log : said.through < e /\ e <= said.fixed
  /\ said.caughtUp \/ said.events # {}
  /\ said.after <= said.through
  /\ said.through \in Cursor /\ said.through <= TopOf(log)
  /\ said.fixed \in Cursor /\ said.fixed <= TopOf(log)

TrueRows(said) ==
  \A s \in SyncSessions \ archived :
    /\ s \in DOMAIN said.rows
    /\ said.rows[s] = -1
       \/ /\ said.then[s] \in Cursor /\ said.rows[s] \in Cursor
          /\ said.then[s] <= said.rows[s] /\ said.rows[s] <= TopOf(durable[s])

\* What an answer says is so when it is made, and stays so.
AnswerTrue(said) ==
  /\ said.type = "delta" =>
       said.session \in SyncSessions /\ ExactDelta(said, durable[said.session])
  /\ said.type = "snapshot" => TrueRows(said)

DeltaIInv == LogsOK /\ CopiesOK /\ CopyIsPrefix /\ CallOK /\ DeltaCallOK /\ SnapshotCallOK /\ AnswerTrue(reply)

-----------------------------------------------------------------------------
(* The newest and the oldest of some sequences.                             *)

LEMMA LeastNumber ==
  ASSUME NEW T \in SUBSET Nat, T # {}
  PROVE  \E m \in T : \A k \in T : m <= k
<1> DEFINE R == OpToRel(<, Nat)
<1>1. IsWellFoundedOn(R, Nat)
  BY NatLessThanWellFounded
<1> HIDE DEF R
<1>2. PICK m \in T : \A k \in T : ~(<<k, m>> \in R)
  BY <1>1, WFMin, Zenon
<1>3. \A k \in Nat : k < m => <<k, m>> \in R
  BY DEF R, OpToRel
<1>4. ASSUME NEW k \in T PROVE m <= k
  <2>1. m \in Nat /\ k \in Nat
    OBVIOUS
  <2>2. ~(k < m)
    BY <1>2, <1>3, <2>1
  <2> QED BY <2>1, <2>2
<1> QED BY <1>4

\* Sequences that are bounded have a newest one.
LEMMA TopIs ==
  ASSUME NEW S \in SUBSET Cursor, NEW b \in Nat, \A e \in S : e <= b
  PROVE  /\ TopOf(S) \in Cursor
         /\ S = {} => TopOf(S) = -1
         /\ S # {} => TopOf(S) \in S
         /\ \A e \in S : e <= TopOf(S)
<1>1. CASE S = {}
  BY <1>1 DEF TopOf, Cursor
<1>2. CASE S # {}
  <2> DEFINE T == {k \in Nat : \E e \in S : k = b - e}
  <2>1. PICK e \in S : TRUE
    BY <1>2
  <2>2. b - e \in Nat
    BY DEF Cursor
  <2>3. T \in SUBSET Nat /\ T # {}
    BY <2>2
  <2>4. PICK m \in T : \A k \in T : m <= k
    BY <2>3, LeastNumber
  <2>5. PICK t \in S : m = b - t
    BY <2>4
  <2>6. ASSUME NEW d \in S PROVE t >= d
    <3>1. d \in Int /\ t \in Int /\ b - d \in Nat
      BY DEF Cursor
    <3>2. b - d \in T
      BY <3>1
    <3> HIDE DEF T
    <3>3. m <= b - d
      BY <2>4, <3>2
    <3> QED BY <2>5, <3>1, <3>3
  <2>7. TopOf(S) = CHOOSE x \in S : \A y \in S : x >= y
    BY <1>2 DEF TopOf, Max
  <2>8. TopOf(S) \in S /\ \A y \in S : TopOf(S) >= y
    BY <2>6, <2>7
  <2> QED BY <1>2, <2>8 DEF Cursor
<1> QED BY <1>1, <1>2

\* The newest of a log.
LEMMA TopOfLog ==
  ASSUME NEW log, BoundedLog(log)
  PROVE  /\ TopOf(log) \in Cursor
         /\ log = {} => TopOf(log) = -1
         /\ log # {} => TopOf(log) \in log
         /\ \A e \in log : e <= TopOf(log)
<1>1. PICK b \in Nat : \A e \in log : e <= b
  BY DEF BoundedLog
<1>2. log \in SUBSET Cursor
  BY DEF BoundedLog, Cursor
<1> QED BY <1>1, <1>2, TopIs

\* An event later than the log becomes its newest.
LEMMA TopGrows ==
  ASSUME NEW log, BoundedLog(log), NEW n \in Int, TopOf(log) < n
  PROVE  n \in Nat /\ BoundedLog(log \cup {n}) /\ TopOf(log \cup {n}) = n
<1>1. TopOf(log) \in Cursor /\ \A e \in log : e <= TopOf(log)
  BY TopOfLog
<1>2. n \in Nat
  BY <1>1 DEF Cursor
<1>3. \A e \in log : e <= n
  BY <1>1, <1>2 DEF Cursor, BoundedLog
<1>4. BoundedLog(log \cup {n})
  BY <1>2, <1>3 DEF BoundedLog
<1>5. TopOf(log \cup {n}) \in log \cup {n} /\ \A e \in log \cup {n} : e <= TopOf(log \cup {n})
  BY <1>4, TopOfLog
<1>6. TopOf(log \cup {n}) \in Nat
  BY <1>4, <1>5 DEF BoundedLog
<1> QED BY <1>2, <1>3, <1>4, <1>5, <1>6

LEMMA OldestIs ==
  ASSUME NEW S \in SUBSET Nat, S # {}
  PROVE  Min(S) \in S /\ \A e \in S : Min(S) <= e
<1>1. \E m \in S : \A k \in S : m <= k
  BY LeastNumber
<1> QED BY <1>1 DEF Min

\* What is delivered is the oldest of what was found, and something if anything was.
LEMMA DeliveredIs ==
  ASSUME NEW found, BoundedLog(found), NEW limit \in Nat \ {0}
  PROVE  /\ Delivered(found, limit) \subseteq found
         /\ \A e \in Delivered(found, limit), d \in found : d <= e => d \in Delivered(found, limit)
         /\ found # {} => Delivered(found, limit) # {}
<1>1. found \in SUBSET Nat /\ IsFiniteSet(found)
  BY FS_BoundedSetOfNaturals DEF BoundedLog
<1>2. ASSUME NEW e \in Delivered(found, limit), NEW d \in found, d <= e
      PROVE  d \in Delivered(found, limit)
  <2> DEFINE D == {x \in found : x <= d} E == {x \in found : x <= e}
  <2>1. e \in found /\ e \in Nat /\ d \in Nat /\ Cardinality(E) <= limit
    BY <1>1 DEF Delivered
  <2>2. D \subseteq E
    <3>1. \A x \in found : x \in Nat
      BY <1>1
    <3>2. \A x \in found : x <= d => x <= e
      BY <1>2, <2>1, <3>1
    <3> QED BY <3>2
  <2>3. IsFiniteSet(E)
    BY <1>1, FS_Subset
  <2>4. IsFiniteSet(D) /\ Cardinality(D) <= Cardinality(E)
    BY <2>2, <2>3, FS_Subset
  <2>5. Cardinality(D) \in Nat /\ Cardinality(E) \in Nat
    BY <2>3, <2>4, FS_CardinalityType
  <2>6. Cardinality(D) <= limit
    BY <2>1, <2>4, <2>5
  <2> QED BY <2>6 DEF Delivered
<1>3. ASSUME found # {} PROVE Delivered(found, limit) # {}
  <2>1. PICK m \in found : \A k \in found : m <= k
    BY <1>1, <1>3, LeastNumber
  <2>2. {x \in found : x <= m} = {m}
    <3>1. \A x \in found : x \in Nat
      BY <1>1
    <3>2. \A x \in found : x <= m <=> x = m
      BY <2>1, <3>1
    <3> QED BY <3>2
  <2>3. Cardinality({x \in found : x <= m}) = 1
    BY <2>2, FS_Singleton
  <2>4. m \in Delivered(found, limit)
    BY <2>3 DEF Delivered
  <2> QED BY <2>4
<1> QED BY <1>2, <1>3 DEF Delivered
-----------------------------------------------------------------------------
(* What a walk that has arrived delivers.                                   *)

LEMMA WalkIsExact ==
  ASSUME NEW log, BoundedLog(log), NEW got, NEW fixed, NEW after \in Cursor, NEW more,
         Walked(got, fixed, after, more, log), NEW limit \in Nat \ {0},
         Arrived(got, fixed, after, more),
         NEW found, found = {e \in got : e > after}, NEW events, events = Delivered(found, limit),
         NEW through, through = TopOf({after} \cup events)
  PROVE  AllBetween(events, through, after, fixed, log)
<1>1. log \in SUBSET Nat /\ fixed \in Cursor /\ after <= fixed /\ fixed <= TopOf(log)
      /\ TopOf(log) \in Cursor /\ \A e \in log : e <= TopOf(log)
  <2>1. log \in SUBSET Nat
    BY DEF BoundedLog
  <2>2. TopOf(log) \in Cursor /\ \A e \in log : e <= TopOf(log)
    BY TopOfLog
  <2>3. fixed \in log \cup {-1} /\ after <= fixed
    BY DEF Walked
  <2>4. fixed \in Cursor
    BY <2>1, <2>3 DEF Cursor
  <2>5. fixed <= TopOf(log)
    <3>1. CASE fixed \in log
      BY <2>2, <3>1
    <3>2. CASE fixed = -1
      BY <2>2, <3>2 DEF Cursor
    <3> QED BY <2>3, <3>1, <3>2
  <2> QED BY <2>1, <2>2, <2>3, <2>4, <2>5
<1>2. \A e : e \in found <=> e \in log /\ after < e /\ e <= fixed
  <2>1. got \subseteq log /\ \A e \in got : e <= fixed
    BY DEF Walked
  <2>2. ASSUME NEW e \in log, after < e, e <= fixed PROVE e \in got
    <3>1. e \in Nat
      BY <1>1
    <3>2. CASE after >= fixed
      BY <1>1, <2>2, <3>1, <3>2 DEF Cursor
    <3>3. CASE ~more
      BY <2>2, <3>3 DEF Walked
    <3>4. CASE \E d \in got : d <= after
      <4>1. PICK d \in got : d <= after
        BY <3>4
      <4>2. d \in Nat
        BY <1>1, <2>1
      <4>3. d <= e
        BY <2>2, <3>1, <4>1, <4>2 DEF Cursor
      <4> QED BY <2>2, <4>3 DEF Walked
    <3> QED BY <3>2, <3>3, <3>4 DEF Arrived
  <2> QED BY <1>1, <2>1, <2>2 DEF Cursor
<1>3. BoundedLog(found)
  BY <1>2 DEF BoundedLog
<1>4. /\ events \subseteq found
      /\ \A e \in events, d \in found : d <= e => d \in events
      /\ found # {} => events # {}
  BY <1>3, DeliveredIs
<1>5. /\ through \in Cursor /\ through \in {after} \cup events
      /\ \A e \in {after} \cup events : e <= through
  <2>1. {after} \cup events \in SUBSET Cursor
    BY <1>1, <1>2, <1>4 DEF Cursor
  <2>2. PICK b \in Nat : \A e \in log : e <= b
    BY DEF BoundedLog
  <2>3. \E k \in Nat : \A e \in {after} \cup events : e <= k
    <3>0. \A e \in events : e \in Nat /\ e <= b
      BY <1>1, <1>2, <1>4, <2>2
    <3>1. CASE after = -1
      <4>1. \A e \in {after} \cup events : e <= b
        BY <3>0, <3>1
      <4> QED BY <4>1
    <3>2. CASE after \in Nat /\ after <= b
      BY <3>0, <3>2
    <3>3. CASE after \in Nat /\ ~(after <= b)
      <4>1. \A e \in events : e <= after
        BY <3>0, <3>3
      <4> QED BY <3>3, <4>1
    <3> QED BY <3>1, <3>2, <3>3 DEF Cursor
  <2>4. PICK k \in Nat : \A e \in {after} \cup events : e <= k
    BY <2>3
  <2> QED BY <2>1, <2>4, TopIs
<1>6. through <= fixed
  BY <1>1, <1>2, <1>4, <1>5 DEF Cursor
<1>7. events = {e \in log : after < e /\ e <= through}
  <2>1. ASSUME NEW e \in events PROVE e \in log /\ after < e /\ e <= through
    BY <1>2, <1>4, <1>5, <2>1
  <2>2. ASSUME NEW e \in log, after < e, e <= through PROVE e \in events
    <3>1. e \in Nat /\ e \in found
      BY <1>1, <1>2, <1>5, <1>6, <2>2 DEF Cursor
    <3>2. through \in events
      BY <1>1, <1>5, <2>2, <3>1 DEF Cursor
    <3> QED BY <1>4, <2>2, <3>1, <3>2
  <2> QED BY <2>1, <2>2
<1>8. through >= fixed <=> ~\E e \in log : through < e /\ e <= fixed
  <2>1. CASE through >= fixed
    <3>1. \A e \in log : e \in Nat
      BY <1>1
    <3> QED BY <1>1, <1>5, <2>1, <3>1 DEF Cursor
  <2>2. CASE ~(through >= fixed)
    <3>1. through < fixed /\ fixed # -1
      BY <1>1, <1>5, <2>2 DEF Cursor
    <3>2. fixed \in log /\ fixed <= fixed
      BY <1>1, <3>1 DEF Walked, Cursor
    <3> QED BY <2>2, <3>1, <3>2
  <2> QED BY <2>1, <2>2
<1>9. through >= fixed \/ events # {}
  <2>1. SUFFICES ASSUME events = {} PROVE after >= fixed
    BY <1>5
  <2>2. found = {}
    BY <1>4, <2>1
  <2>3. CASE fixed \in log
    <3>1. ~(after < fixed)
      BY <1>1, <1>2, <2>2, <2>3 DEF Cursor
    <3> QED BY <1>1, <3>1 DEF Cursor
  <2>4. CASE fixed = -1
    BY <2>4 DEF Cursor
  <2> QED BY <2>3, <2>4 DEF Walked
<1> QED BY <1>1, <1>5, <1>6, <1>7, <1>8, <1>9 DEF AllBetween

LEMMA DeltaIsExact ==
  ASSUME NEW log, BoundedLog(log), NEW c, WalkOf(c, log), CursorReached(c),
         c.after \in Cursor, c.limit \in Nat \ {0}
  PROVE  ExactDelta(DeltaOf(c), log)
<1>1. PICK events : events = Delivered({e \in c.records : e > c.after}, c.limit)
  OBVIOUS
<1>2. PICK through : through = TopOf({c.after} \cup events)
  OBVIOUS
<1>3. /\ DeltaOf(c).events = events /\ DeltaOf(c).through = through /\ DeltaOf(c).after = c.after
      /\ DeltaOf(c).fixed = c.fixed /\ (DeltaOf(c).caughtUp <=> through >= c.fixed)
  BY <1>1, <1>2 DEF DeltaOf
<1>4. PICK got, fixed, after, more, limit :
        got = c.records /\ fixed = c.fixed /\ after = c.after /\ more = c.more /\ limit = c.limit
  OBVIOUS
<1>5. AllBetween(events, through, after, fixed, log)
  <2>1. Walked(got, fixed, after, more, log)
    BY <1>4 DEF WalkOf
  <2>2. Arrived(got, fixed, after, more)
    BY <1>4 DEF CursorReached, Arrived
  <2>3. after \in Cursor /\ limit \in Nat \ {0}
    BY <1>4
  <2>4. PICK found : found = {e \in c.records : e > c.after}
    OBVIOUS
  <2>5. found = {e \in got : e > after}
    BY <1>4, <2>4
  <2>6. events = Delivered(found, limit)
    BY <1>1, <1>4, <2>4
  <2>7. through = TopOf({after} \cup events)
    BY <1>2, <1>4
  <2> QED BY <2>1, <2>2, <2>3, <2>5, <2>6, <2>7, WalkIsExact
<1>6. through <= TopOf(log)
  BY <1>5 DEF Cursor, AllBetween
<1> QED BY <1>3, <1>4, <1>5, <1>6 DEF ExactDelta, AllBetween

UpperParts(log) == {{e \in log : e >= from} : from \in log} \cup {log}
Below(log, got) == {e \in log : e < Min(got)}

\* A page has all there is from some event on.
LEMMA UpperPart ==
  ASSUME NEW log \in SUBSET Nat, NEW part \in UpperParts(log)
  PROVE  /\ part \subseteq log
         /\ \A d \in log : (\E e \in part : e <= d) => d \in part
         /\ log # {} => part # {}
<1>1. CASE part = log
  BY <1>1
<1>2. CASE \E from \in log : part = {e \in log : e >= from}
  <2>1. PICK from \in log : part = {e \in log : e >= from}
    BY <1>2
  <2>2. from \in Nat /\ \A e \in log : e \in Nat
    OBVIOUS
  <2>3. from \in part
    BY <2>1, <2>2
  <2>4. ASSUME NEW d \in log, NEW e \in part, e <= d PROVE d \in part
    <3>1. e \in log /\ e >= from
      BY <2>1
    <3>2. d >= from
      BY <2>2, <2>4, <3>1
    <3> QED BY <2>1, <3>2
  <2> QED BY <2>1, <2>3, <2>4
<1> QED BY <1>1, <1>2 DEF UpperParts

LEMMA WalkBegins ==
  ASSUME NEW log, BoundedLog(log), NEW after \in Cursor, ~(after > TopOf(log)),
         NEW got \in UpperParts(log), NEW more, ~more => got = log
  PROVE  Walked(got, TopOf(log), after, more, log)
<1>1. /\ log \in SUBSET Nat /\ TopOf(log) \in Cursor
      /\ log = {} => TopOf(log) = -1
      /\ log # {} => TopOf(log) \in log
      /\ \A e \in log : e <= TopOf(log)
  BY TopOfLog DEF BoundedLog
<1>2. /\ got \subseteq log /\ \A d \in log : (\E e \in got : e <= d) => d \in got
      /\ log # {} => got # {}
  BY <1>1, UpperPart
<1>3. TopOf(log) \in log \cup {-1} /\ (TopOf(log) # -1 => log # {})
  BY <1>1
<1>4. after <= TopOf(log)
  BY <1>1 DEF Cursor
<1> QED BY <1>1, <1>2, <1>3, <1>4 DEF Walked

\* The next page has what is below, from some event on.
LEMMA WalkExtends ==
  ASSUME NEW log, BoundedLog(log), NEW got, got # {}, NEW fixed, NEW after, NEW was,
         Walked(got, fixed, after, was, log), NEW left, left = Below(log, got),
         NEW entries \in UpperParts(left),
         NEW more, ~more => entries = left
  PROVE  Walked(got \cup entries, fixed, after, more, log)
<1>1. log \in SUBSET Nat /\ got \subseteq log /\ left \in SUBSET Nat
  BY DEF BoundedLog, Walked, Below
<1>2. PICK oldest : oldest = Min(got)
  OBVIOUS
<1>3. oldest \in got /\ \A e \in got : oldest <= e
  BY <1>1, <1>2, OldestIs
<1>4. /\ entries \subseteq left
      /\ \A d \in left : (\E e \in entries : e <= d) => d \in entries
  BY <1>1, UpperPart
<1>5. /\ fixed \in log \cup {-1} /\ after <= fixed
      /\ \A e \in got : e <= fixed
      /\ \A d \in log : d <= fixed /\ (\E e \in got : e <= d) => d \in got
  BY DEF Walked
<1>6. oldest \in Nat /\ \A e \in log : e \in Nat
  BY <1>1, <1>3
<1>7. oldest <= fixed /\ fixed \in Int
  BY <1>3, <1>5, <1>6
<1>8. \A e \in left : e \in log /\ e < oldest /\ e <= fixed
  BY <1>2, <1>6, <1>7 DEF Below
<1>9. \A d \in log : oldest <= d /\ d <= fixed => d \in got
  BY <1>3, <1>5
<1>10. \A d \in log : d \in left \/ oldest <= d
  BY <1>2, <1>6 DEF Below
<1>11. ASSUME NEW d \in log, d <= fixed, NEW e \in got \cup entries, e <= d
       PROVE  d \in got \cup entries
  <2>1. CASE oldest <= d
    BY <1>9, <1>11, <2>1
  <2>2. CASE d \in left
    <3>1. e \in Nat /\ d \in Nat /\ d < oldest
      BY <1>1, <1>4, <1>6, <1>8, <2>2
    <3>2. e \in entries
      BY <1>3, <1>6, <1>11, <3>1
    <3> QED BY <1>4, <1>11, <2>2, <3>2
  <2> QED BY <1>10, <2>1, <2>2
<1>12. ASSUME ~more, NEW e \in log, e <= fixed PROVE e \in got \cup entries
  BY <1>9, <1>10, <1>12
<1>13. got \cup entries \subseteq log /\ \A e \in got \cup entries : e <= fixed
  BY <1>1, <1>4, <1>5, <1>8
<1> QED BY <1>5, <1>11, <1>12, <1>13 DEF Walked

\* A walk outlives the growth of the log.
LEMMA WalkStays ==
  ASSUME NEW log, BoundedLog(log), NEW grown \in SUBSET Nat, log \subseteq grown,
         \A e \in grown : e <= TopOf(log) => e \in log,
         NEW got, NEW fixed, NEW after, NEW more, Walked(got, fixed, after, more, log)
  PROVE  Walked(got, fixed, after, more, grown)
<1>1. TopOf(log) \in Cursor /\ \A e \in log : e <= TopOf(log)
  BY TopOfLog
<1>2. fixed \in Int /\ TopOf(log) \in Int /\ fixed <= TopOf(log)
  <2>1. log \in SUBSET Nat /\ fixed \in log \cup {-1}
    BY DEF BoundedLog, Walked
  <2>2. CASE fixed \in log
    BY <1>1, <2>1, <2>2 DEF Cursor
  <2>3. CASE fixed = -1
    BY <1>1, <2>3 DEF Cursor
  <2> QED BY <2>1, <2>2, <2>3
<1>3. ASSUME NEW e \in grown, e <= fixed PROVE e \in log
  <2>1. e <= TopOf(log)
    BY <1>2, <1>3
  <2> QED BY <2>1
<1> QED BY <1>3 DEF Walked

-----------------------------------------------------------------------------
(* Responses.                                                               *)

\* An answer the phone can take.
AnswerFits(said) ==
  /\ AnswerTrue(said)
  /\ said.type = "delta" => said.after = copy[said.session].cursor
  /\ said.type = "baseline" => said.session \in SyncSessions
  /\ said.type = "snapshot" => DOMAIN said.rows \subseteq SyncSessions

LEMMA TakenDelta ==
  ASSUME LogsOK, CopiesOK, CopyIsPrefix, NEW said, AnswerFits(said), said.type = "delta",
         Taken(said), UNCHANGED durable
  PROVE  CopiesOK' /\ CopyIsPrefix'
<1> DEFINE t == said.session
<1> DEFINE row == [cursor |-> said.through, held |-> copy[t].held \cup said.events, life |-> copy[t].life]
<1>1. copy' = [copy EXCEPT ![t] = row] /\ due' = IF said.caughtUp THEN due \ {t} ELSE due
  BY DEF Taken
<1>2. t \in SyncSessions /\ ExactDelta(said, durable[t]) /\ said.after = copy[t].cursor
  BY DEF AnswerFits, AnswerTrue
<1> HIDE DEF row
<1>3. /\ DOMAIN copy' = SyncSessions /\ copy'[t] = row
      /\ \A s \in SyncSessions : s # t => copy'[s] = copy[s]
  BY <1>1, <1>2 DEF CopiesOK
<1>4. copy'[t] = [cursor |-> said.through, held |-> copy[t].held \cup said.events, life |-> copy[t].life]
  BY <1>3 DEF row
<1>5. due' \subseteq SyncSessions
  BY <1>1 DEF CopiesOK
<1>6. said.through \in Cursor /\ said.through <= TopOf(durable[t])
  BY <1>2 DEF ExactDelta
<1>7. CopiesOK'
  <2>1. ASSUME NEW s \in SyncSessions
        PROVE  /\ IsCopy(copy'[s]) /\ copy'[s].cursor \in Cursor
               /\ copy'[s].life = "this" => copy'[s].cursor <= TopOf(durable'[s])
    <3>1. CASE s = t
      BY <1>4, <1>6, <3>1 DEF IsCopy
    <3>2. CASE s # t
      BY <1>3, <3>2 DEF CopiesOK, IsCopy
    <3> QED BY <3>1, <3>2
  <2> QED BY <1>3, <1>5, <2>1 DEF CopiesOK, IsCopy
<1>8. CopyIsPrefix'
  <2>1. SUFFICES ASSUME NEW s \in SyncSessions, copy'[s].life = "this"
                 PROVE  copy'[s].held = {e \in durable[s] : e <= copy'[s].cursor}
    BY DEF CopyIsPrefix
  <2>2. CASE s # t
    BY <1>3, <2>1, <2>2 DEF CopyIsPrefix
  <2>3. CASE s = t
    <3>1. copy[t].held = {e \in durable[t] : e <= said.after}
      BY <1>2, <1>4, <2>1, <2>3 DEF CopyIsPrefix
    <3>2. said.events = {e \in durable[t] : said.after < e /\ e <= said.through}
          /\ said.after <= said.through
      BY <1>2 DEF ExactDelta
    <3>3. \A e \in durable[t] : e \in Int
      BY <1>2 DEF LogsOK, BoundedLog
    <3>4. said.after \in Int /\ said.through \in Int
      BY <1>2, <1>6 DEF CopiesOK, Cursor
    <3>5. \A e \in durable[t] : e <= said.through <=> (e <= said.after \/ (said.after < e /\ e <= said.through))
      BY <3>2, <3>3, <3>4
    <3>6. copy[t].held \cup said.events = {e \in durable[t] : e <= said.through}
      BY <3>1, <3>2, <3>5
    <3> QED BY <1>4, <2>3, <3>6
  <2> QED BY <2>2, <2>3
<1> QED BY <1>7, <1>8

LEMMA TakenBaseline ==
  ASSUME LogsOK, CopiesOK, CopyIsPrefix, NEW said, AnswerFits(said), said.type = "baseline",
         Taken(said), UNCHANGED durable
  PROVE  CopiesOK' /\ CopyIsPrefix'
<1> DEFINE t == said.session
           tip == TopOf(durable[t])
<1>1. /\ copy' = [copy EXCEPT ![t] = [cursor |-> tip, held |-> durable[t], life |-> "this"]]
      /\ due' = due \ {t}
  BY DEF Taken
<1>2. t \in SyncSessions /\ BoundedLog(durable[t])
  BY DEF AnswerFits, LogsOK
<1>3. /\ DOMAIN copy' = SyncSessions /\ due' \subseteq SyncSessions
      /\ \A s \in SyncSessions : s # t => copy'[s] = copy[s]
      /\ copy'[t] = [cursor |-> tip, held |-> durable[t], life |-> "this"]
  BY <1>1, <1>2 DEF CopiesOK
<1>4. tip \in Cursor /\ (\A e \in durable[t] : e <= tip) /\ tip <= tip
  BY <1>2, TopOfLog DEF Cursor
<1> HIDE DEF tip
<1>5. ASSUME NEW s \in SyncSessions
      PROVE  /\ IsCopy(copy'[s]) /\ copy'[s].cursor \in Cursor
             /\ copy'[s].life = "this" =>
                  /\ copy'[s].cursor <= TopOf(durable[s])
                  /\ copy'[s].held = {e \in durable[s] : e <= copy'[s].cursor}
  <2>1. CASE s = t
    BY <1>3, <1>4, <2>1 DEF IsCopy, tip
  <2>2. CASE s # t
    BY <1>3, <2>2 DEF CopiesOK, IsCopy, CopyIsPrefix
  <2> QED BY <2>1, <2>2
<1>6. CopiesOK'
  BY <1>3, <1>5 DEF CopiesOK, IsCopy
<1> QED BY <1>5, <1>6 DEF CopyIsPrefix

LEMMA TakenKeeps ==
  ASSUME LogsOK, CopiesOK, CopyIsPrefix, NEW said, AnswerFits(said), Taken(said),
         said.type \in {"delta", "baseline", "snapshot", "refused"}, UNCHANGED durable
  PROVE  CopiesOK' /\ CopyIsPrefix' /\ reply' = said
<1>1. reply' = said
  BY DEF Taken
<1>2. CASE said.type = "delta"
  BY <1>1, <1>2, TakenDelta
<1>3. CASE said.type = "baseline"
  BY <1>1, <1>3, TakenBaseline
<1>4. CASE said.type \in {"snapshot", "refused"}
  <2>1. copy' = copy /\ due' \subseteq SyncSessions
    BY <1>4 DEF Taken, AnswerFits, CopiesOK
  <2>2. CopiesOK'
    BY <2>1 DEF CopiesOK, IsCopy
  <2>3. CopyIsPrefix'
    BY <2>1 DEF CopyIsPrefix
  <2> QED BY <1>1, <2>2, <2>3
<1> QED BY <1>2, <1>3, <1>4

\* When no call is there, nothing is to be said of it.
LEMMA NoCallKeeps ==
  ASSUME NEW stage \in {"idle", "abandoned"}, call' = [NoCall EXCEPT !.stage = stage]
  PROVE  CallOK' /\ DeltaCallOK' /\ SnapshotCallOK'
<1>1. call'.kind = "none" /\ call'.stage = stage /\ IsCall(call')
  BY DEF NoCall, IsCall
<1> QED BY <1>1 DEF CallOK, IsCall, DeltaCallOK, SnapshotCallOK

LEMMA RespondKeeps ==
  ASSUME DeltaIInv, NEW said, AnswerFits(said), Respond(said),
         said.type \in {"delta", "baseline", "snapshot", "refused"}
  PROVE  DeltaIInv'
<1>1. LogsOK /\ CopiesOK /\ CopyIsPrefix
  BY DEF DeltaIInv
<1>2. call' = NoCall /\ durable' = durable /\ archived' = archived
  BY DEF Respond
<1>3. CallOK' /\ DeltaCallOK' /\ SnapshotCallOK'
  <2>1. call' = [NoCall EXCEPT !.stage = "idle"]
    BY <1>2 DEF NoCall
  <2> QED BY <2>1, NoCallKeeps
<1>4. LogsOK'
  BY <1>1, <1>2 DEF LogsOK
<1>5. PICK given : /\ Taken(given) /\ AnswerFits(given)
                   /\ given.type \in {"delta", "baseline", "snapshot", "refused"}
  <2>1. AnswerFits(Refused) /\ Refused.type = "refused"
    BY DEF Refused, AnswerFits, AnswerTrue
  <2>2. Taken(said) \/ Taken(Refused)
    BY DEF Respond
  <2> QED BY <2>1, <2>2
<1>6. CopiesOK' /\ CopyIsPrefix' /\ reply' = given
  BY <1>1, <1>2, <1>5, TakenKeeps
<1>7. AnswerTrue(reply)'
  BY <1>2, <1>5, <1>6 DEF AnswerFits, AnswerTrue, TrueRows
<1> QED BY <1>3, <1>4, <1>6, <1>7 DEF DeltaIInv

\* A refusal always fits, and so does the advice to begin anew.
LEMMA RefusedKeeps ==
  ASSUME DeltaIInv, Respond(Refused)
  PROVE  DeltaIInv'
<1>1. PICK a : a = Refused
  OBVIOUS
<1>2. AnswerFits(a) /\ a.type = "refused"
  BY <1>1 DEF Refused, AnswerFits, AnswerTrue
<1>3. Respond(a)
  BY <1>1
<1> QED BY <1>2, <1>3, RespondKeeps

LEMMA BaselineKeeps ==
  ASSUME DeltaIInv, call.kind = "delta", NEW cause, Respond(baselineRecovery(cause))
  PROVE  DeltaIInv'
<1>1. PICK a : a = baselineRecovery(cause)
  OBVIOUS
<1>2. PICK s \in SyncSessions : call.session = {s}
  BY DEF DeltaIInv, DeltaCallOK
<1>3. Target = s
  BY <1>2 DEF Target
<1>4. AnswerFits(a) /\ a.type = "baseline"
  BY <1>1, <1>3 DEF baselineRecovery, AnswerFits, AnswerTrue
<1>5. Respond(a)
  BY <1>1
<1> QED BY <1>4, <1>5, RespondKeeps
-----------------------------------------------------------------------------
(* The log and the phone.                                                   *)

LEMMA LogGrowsKeeps ==
  ASSUME DeltaIInv, NEW s \in SyncSessions, LogGrows(s)
  PROVE  DeltaIInv'
<1>0. LogsOK /\ CopiesOK /\ CopyIsPrefix /\ CallOK /\ DeltaCallOK /\ SnapshotCallOK /\ AnswerTrue(reply)
  BY DEF DeltaIInv
<1>1. PICK n \in TopOf(durable[s]) + 1..MaxSeq : durable' = [durable EXCEPT ![s] = @ \cup {n}]
  BY DEF LogGrows
<1>2. UNCHANGED <<archived, copy, due, call, reply, syncs>>
  BY DEF LogGrows
<1>3. BoundedLog(durable[s]) /\ TopOf(durable[s]) \in Int
  <2>1. BoundedLog(durable[s])
    BY <1>0 DEF LogsOK
  <2> QED BY <2>1, TopOfLog DEF Cursor
<1>4. MaxSeq \in Int
  BY DeltaAssumption
<1>5. n \in Int /\ TopOf(durable[s]) < n
  BY <1>3, <1>4
<1>6. n \in Nat /\ BoundedLog(durable[s] \cup {n}) /\ TopOf(durable[s] \cup {n}) = n
  BY <1>3, <1>5, TopGrows
<1>7. /\ DOMAIN durable' = SyncSessions
      /\ \A t \in SyncSessions : t # s => durable'[t] = durable[t]
      /\ durable'[s] = durable[s] \cup {n}
  BY <1>0, <1>1 DEF LogsOK
\* Each log is what it was, up to its end of before.
<1>8. ASSUME NEW t \in SyncSessions
      PROVE  /\ BoundedLog(durable'[t]) /\ durable[t] \subseteq durable'[t]
             /\ TopOf(durable[t]) \in Cursor /\ TopOf(durable'[t]) \in Cursor
             /\ TopOf(durable[t]) <= TopOf(durable'[t])
             /\ \A e \in durable'[t] : e \in Nat /\ (e <= TopOf(durable[t]) => e \in durable[t])
             /\ \A e \in durable[t] : e <= TopOf(durable[t])
  <2>1. BoundedLog(durable[t])
    BY <1>0 DEF LogsOK
  <2>2. TopOf(durable[t]) \in Cursor /\ \A e \in durable[t] : e <= TopOf(durable[t])
    BY <2>1, TopOfLog
  <2>3. CASE t = s
    BY <1>5, <1>6, <1>7, <2>1, <2>2, <2>3 DEF Cursor, BoundedLog
  <2>4. CASE t # s
    BY <1>7, <2>1, <2>2, <2>4 DEF Cursor, BoundedLog
  <2> QED BY <2>3, <2>4
<1>9. LogsOK'
  BY <1>7, <1>8 DEF LogsOK
<1>10. CopiesOK'
  <2>1. ASSUME NEW t \in SyncSessions, copy[t].life = "this" PROVE copy[t].cursor <= TopOf(durable'[t])
    <3>1. copy[t].cursor \in Cursor /\ copy[t].cursor <= TopOf(durable[t])
      BY <1>0, <2>1 DEF CopiesOK
    <3> QED BY <1>8, <3>1 DEF Cursor
  <2> QED BY <1>0, <1>2, <2>1 DEF CopiesOK, IsCopy
<1>11. CopyIsPrefix'
  <2>1. ASSUME NEW t \in SyncSessions, copy[t].life = "this"
        PROVE  copy[t].held = {e \in durable'[t] : e <= copy[t].cursor}
    <3>1. copy[t].cursor \in Cursor /\ copy[t].cursor <= TopOf(durable[t])
      BY <1>0, <2>1 DEF CopiesOK
    <3>2. copy[t].held = {e \in durable[t] : e <= copy[t].cursor}
      BY <1>0, <2>1 DEF CopyIsPrefix
    <3>3. \A e \in durable'[t] : e <= copy[t].cursor => e \in durable[t]
      <4>1. ASSUME NEW e \in durable'[t], e <= copy[t].cursor PROVE e \in durable[t]
        <5>1. e \in Nat /\ TopOf(durable[t]) \in Int /\ copy[t].cursor \in Int
          BY <1>8, <3>1 DEF Cursor
        <5>2. e <= TopOf(durable[t])
          BY <3>1, <4>1, <5>1
        <5> QED BY <1>8, <5>2
      <4> QED BY <4>1
    <3> QED BY <1>8, <3>2, <3>3
  <2> QED BY <1>2, <2>1 DEF CopyIsPrefix
<1>12. CallOK'
  BY <1>0, <1>2 DEF CallOK, IsCall
<1>13. DeltaCallOK'
  <2>1. SUFFICES ASSUME call.kind = "delta" PROVE DeltaCallOK'
    BY <1>2 DEF DeltaCallOK
  <2>2. PICK t \in SyncSessions :
          /\ call.session = {t} /\ call.after = copy[t].cursor /\ call.limit \in Nat \ {0}
          /\ call.stage = "paging" => WalkOf(call, durable[t]) /\ ~CursorReached(call)
    BY <1>0, <2>1 DEF DeltaCallOK
  <2>3. ASSUME WalkOf(call, durable[t]) PROVE WalkOf(call, durable'[t])
    <3>1. BoundedLog(durable[t])
      BY <1>0 DEF LogsOK
    <3>2. durable[t] \subseteq durable'[t] /\ durable'[t] \in SUBSET Nat
      BY <1>8
    <3>3. \A e \in durable'[t] : e <= TopOf(durable[t]) => e \in durable[t]
      BY <1>8
    <3>4. PICK got, fixed, after, more, log, grown :
            /\ got = call.records /\ fixed = call.fixed /\ after = call.after /\ more = call.more
            /\ log = durable[t] /\ grown = durable'[t]
      OBVIOUS
    <3>5. Walked(got, fixed, after, more, log)
      BY <2>3, <3>4 DEF WalkOf
    <3>6. Walked(got, fixed, after, more, grown)
      BY <3>1, <3>2, <3>3, <3>4, <3>5, WalkStays
    <3> QED BY <3>4, <3>6 DEF WalkOf
  <2>4. CursorReached(call)' <=> CursorReached(call)
    BY <1>2 DEF CursorReached
  <2>5. WalkOf(call, durable[t])' <=> WalkOf(call, durable'[t])
    BY <1>2 DEF WalkOf, Walked
  <2> QED BY <1>2, <2>2, <2>3, <2>4, <2>5 DEF DeltaCallOK
<1>14. SnapshotCallOK'
  <2>1. SUFFICES ASSUME call.kind = "snapshot" PROVE SnapshotCallOK'
    BY <1>2 DEF SnapshotCallOK
  <2>2. ASSUME NEW t \in SyncSessions
        PROVE  call.then[t] \in Cursor /\ call.then[t] <= TopOf(durable'[t])
    <3>1. call.then[t] \in Cursor /\ call.then[t] <= TopOf(durable[t])
      BY <1>0, <2>1 DEF SnapshotCallOK
    <3> QED BY <1>8, <3>1 DEF Cursor
  <2>3. ASSUME call.listed, NEW t \in DOMAIN call.rows
        PROVE  /\ call.rows[t] \in Cursor /\ call.rows[t] <= TopOf(durable'[t])
               /\ call.rows[t] = -1 \/ call.then[t] <= call.rows[t]
    <3>1. /\ t \in SyncSessions /\ call.rows[t] \in Cursor /\ call.rows[t] <= TopOf(durable[t])
          /\ call.rows[t] = -1 \/ call.then[t] <= call.rows[t]
      BY <1>0, <2>1, <2>3 DEF SnapshotCallOK
    <3> QED BY <1>8, <3>1 DEF Cursor
  <2>4. /\ call.hidden \subseteq archived /\ call.unread \subseteq SyncSessions
        /\ call.stage = "rows" => call.listed
        /\ call.listed => DOMAIN call.rows \subseteq SyncSessions /\ SyncSessions \subseteq DOMAIN call.rows \cup call.unread
    BY <1>0, <2>1 DEF SnapshotCallOK
  <2> QED BY <1>2, <2>2, <2>3, <2>4 DEF SnapshotCallOK
<1>15. AnswerTrue(reply)'
  <2>1. ASSUME reply.type = "delta" PROVE reply.session \in SyncSessions /\ ExactDelta(reply, durable'[reply.session])
    <3>1. reply.session \in SyncSessions /\ ExactDelta(reply, durable[reply.session])
      BY <1>0, <2>1 DEF AnswerTrue
    <3>2. PICK t \in SyncSessions : t = reply.session
      BY <3>1
    <3>3. ASSUME NEW tip \in Cursor, tip <= TopOf(durable[t])
          PROVE  tip <= TopOf(durable'[t]) /\ \A e \in durable'[t] : e <= tip => e \in durable[t]
      <4>1. TopOf(durable[t]) \in Int /\ TopOf(durable'[t]) \in Int /\ TopOf(durable[t]) <= TopOf(durable'[t]) /\ tip \in Int
        BY <1>8, <3>3 DEF Cursor
      <4>2. ASSUME NEW e \in durable'[t], e <= tip PROVE e \in durable[t]
        <5>1. e \in Nat
          BY <1>8
        <5>2. e <= TopOf(durable[t])
          BY <3>3, <4>1, <4>2, <5>1
        <5> QED BY <1>8, <5>2
      <4> QED BY <3>3, <4>1, <4>2
    <3>4. durable[t] \subseteq durable'[t]
      BY <1>8
    <3>5. /\ reply.through \in Cursor /\ reply.through <= TopOf(durable[t])
          /\ reply.fixed \in Cursor /\ reply.fixed <= TopOf(durable[t])
      BY <3>1, <3>2 DEF ExactDelta
    <3>6. {e \in durable[t] : reply.after < e /\ e <= reply.through} = {e \in durable'[t] : reply.after < e /\ e <= reply.through}
      BY <3>3, <3>4, <3>5
    <3>7. (\E e \in durable[t] : reply.through < e /\ e <= reply.fixed) <=> (\E e \in durable'[t] : reply.through < e /\ e <= reply.fixed)
      BY <3>3, <3>4, <3>5
    <3> QED BY <3>1, <3>2, <3>3, <3>5, <3>6, <3>7 DEF ExactDelta
  <2>2. ASSUME reply.type = "snapshot", NEW t \in SyncSessions \ archived
        PROVE  /\ t \in DOMAIN reply.rows
               /\ reply.rows[t] = -1
                  \/ /\ reply.then[t] \in Cursor /\ reply.rows[t] \in Cursor
                     /\ reply.then[t] <= reply.rows[t] /\ reply.rows[t] <= TopOf(durable'[t])
    <3>1. /\ t \in DOMAIN reply.rows
          /\ reply.rows[t] = -1
             \/ /\ reply.then[t] \in Cursor /\ reply.rows[t] \in Cursor
                /\ reply.then[t] <= reply.rows[t] /\ reply.rows[t] <= TopOf(durable[t])
      BY <1>0, <2>2 DEF AnswerTrue, TrueRows
    <3>2. TopOf(durable[t]) \in Cursor /\ TopOf(durable'[t]) \in Cursor /\ TopOf(durable[t]) <= TopOf(durable'[t])
      BY <1>8
    <3> QED BY <3>1, <3>2 DEF Cursor
  <2>3. reply' = reply /\ archived' = archived
    BY <1>2
  <2> QED BY <2>1, <2>2, <2>3 DEF AnswerTrue, TrueRows, ExactDelta
<1> QED BY <1>9, <1>10, <1>11, <1>12, <1>13, <1>14, <1>15 DEF DeltaIInv
\* Most of a call is between the phone and the host alone.
LEMMA CallAloneKeeps ==
  ASSUME DeltaIInv, UNCHANGED <<durable, archived, copy, due, reply>>,
         CallOK', DeltaCallOK', SnapshotCallOK'
  PROVE  DeltaIInv'
<1>1. LogsOK /\ CopiesOK /\ CopyIsPrefix /\ AnswerTrue(reply)
  BY DEF DeltaIInv
<1>2. LogsOK' /\ CopyIsPrefix'
  BY <1>1 DEF LogsOK, CopyIsPrefix
<1>3. CopiesOK'
  BY <1>1 DEF CopiesOK, IsCopy
<1>4. AnswerTrue(reply)'
  BY <1>1 DEF AnswerTrue, TrueRows, ExactDelta
<1> QED BY <1>2, <1>3, <1>4 DEF DeltaIInv

LEMMA PutAwayKeeps ==
  ASSUME DeltaIInv, NEW s \in SyncSessions, PutAway(s)
  PROVE  DeltaIInv'
<1>0. LogsOK /\ CopiesOK /\ CopyIsPrefix /\ CallOK /\ DeltaCallOK /\ SnapshotCallOK /\ AnswerTrue(reply)
  BY DEF DeltaIInv
<1>1. archived \subseteq archived' /\ UNCHANGED <<durable, copy, due, call, reply, syncs>>
  BY DEF PutAway
<1>2. LogsOK' /\ CopyIsPrefix'
  BY <1>0, <1>1 DEF LogsOK, CopyIsPrefix
<1>3. CopiesOK'
  BY <1>0, <1>1 DEF CopiesOK, IsCopy
<1>4. CallOK'
  BY <1>0, <1>1 DEF CallOK, IsCall
<1>5. DeltaCallOK'
  BY <1>0, <1>1 DEF DeltaCallOK, WalkOf, Walked, CursorReached
<1>6. SnapshotCallOK'
  BY <1>0, <1>1 DEF SnapshotCallOK
<1>7. AnswerTrue(reply)'
  <2>1. ASSUME reply.type = "snapshot" PROVE TrueRows(reply)'
    BY <1>0, <1>1, <2>1 DEF AnswerTrue, TrueRows
  <2>2. ASSUME reply.type = "delta" PROVE reply.session \in SyncSessions /\ ExactDelta(reply, durable[reply.session])'
    BY <1>0, <1>1, <2>2 DEF AnswerTrue, ExactDelta
  <2> QED BY <1>1, <2>1, <2>2 DEF AnswerTrue
<1> QED BY <1>2, <1>3, <1>4, <1>5, <1>6, <1>7 DEF DeltaIInv

LEMMA AskSnapshotKeeps ==
  ASSUME DeltaIInv, AskSnapshot
  PROVE  DeltaIInv'
<1>0. LogsOK
  BY DEF DeltaIInv
<1>1. UNCHANGED <<durable, archived, copy, due, reply>>
  BY DEF AskSnapshot
<1>2. /\ call'.stage = "body" /\ call'.kind = "snapshot" /\ call'.then = Cursors /\ IsCall(call')
      /\ call'.hidden = {} /\ call'.unread = {} /\ call'.listed = FALSE
  BY DEF AskSnapshot, AskedCall, NoCall, IsCall
<1>3. ASSUME NEW s \in SyncSessions
      PROVE  call'.then[s] \in Cursor /\ call'.then[s] <= TopOf(durable[s])
  <2>1. BoundedLog(durable[s])
    BY <1>0 DEF LogsOK
  <2>2. call'.then[s] = TopOf(durable[s]) /\ TopOf(durable[s]) \in Cursor
    BY <1>2, <2>1, TopOfLog DEF Cursors
  <2> QED BY <2>2 DEF Cursor
<1>4. CallOK'
  BY <1>2 DEF CallOK, IsCall
<1>5. DeltaCallOK'
  BY <1>2 DEF DeltaCallOK
<1>6. SnapshotCallOK'
  BY <1>1, <1>2, <1>3 DEF SnapshotCallOK
<1> QED BY <1>1, <1>4, <1>5, <1>6, CallAloneKeeps

LEMMA AskDeltaKeeps ==
  ASSUME DeltaIInv, NEW s \in SyncSessions, NEW limit \in 1..2, AskDelta(s, limit)
  PROVE  DeltaIInv'
<1>1. UNCHANGED <<durable, archived, copy, due, reply>>
  BY DEF AskDelta
<1>2. /\ call'.stage = "body" /\ call'.kind = "delta" /\ call'.session = {s} /\ IsCall(call')
      /\ call'.after = copy[s].cursor /\ call'.limit = limit
  BY DEF AskDelta, AskedCall, NoCall, IsCall
<1>3. CallOK'
  BY <1>2 DEF CallOK, IsCall
<1>4. DeltaCallOK'
  BY <1>1, <1>2 DEF DeltaCallOK
<1>5. SnapshotCallOK'
  BY <1>2 DEF SnapshotCallOK
<1> QED BY <1>1, <1>3, <1>4, <1>5, CallAloneKeeps

LEMMA CallEndsKeeps ==
  ASSUME DeltaIInv, ClientCloses \/ StrayAbort
  PROVE  DeltaIInv'
<1>1. UNCHANGED <<durable, archived, copy, due, reply>>
  BY DEF ClientCloses, StrayAbort
<1>2. CASE ClientCloses
  <2>1. call' = [NoCall EXCEPT !.stage = "idle"]
    BY <1>2 DEF ClientCloses, NoCall
  <2> QED BY <1>1, <2>1, NoCallKeeps, CallAloneKeeps
<1>3. CASE StrayAbort
  <2>1. call' = [NoCall EXCEPT !.stage = "abandoned"]
    BY <1>3 DEF StrayAbort
  <2> QED BY <1>1, <2>1, NoCallKeeps, CallAloneKeeps
<1> QED BY <1>2, <1>3

-----------------------------------------------------------------------------
(* The delta.                                                               *)

LEMMA OperationBeginsKeeps ==
  ASSUME DeltaIInv, OperationBegins
  PROVE  DeltaIInv'
<1>0. CallOK /\ DeltaCallOK /\ SnapshotCallOK
  BY DEF DeltaIInv
<1>1. UNCHANGED <<durable, archived, copy, due, reply>>
  BY DEF OperationBegins
<1>2. PICK stage : /\ call' = [call EXCEPT !.stage = stage]
                   /\ stage = IF call.kind = "delta" THEN "opening" ELSE "listing"
  BY DEF OperationBegins
<1>3. /\ call'.stage = stage /\ call'.kind = call.kind /\ call'.session = call.session
      /\ call'.after = call.after /\ call'.limit = call.limit /\ IsCall(call')
      /\ call'.then = call.then /\ call'.hidden = call.hidden /\ call'.unread = call.unread
      /\ call'.listed = call.listed /\ call'.rows = call.rows
  BY <1>0, <1>2 DEF CallOK, IsCall
<1>4. call.kind \in {"delta", "snapshot"}
  BY <1>0 DEF OperationBegins, CallOK
<1>5. CallOK'
  BY <1>2, <1>3, <1>4 DEF CallOK, IsCall
<1>6. DeltaCallOK'
  BY <1>0, <1>1, <1>2, <1>3 DEF DeltaCallOK
<1>7. SnapshotCallOK'
  BY <1>0, <1>1, <1>2, <1>3 DEF SnapshotCallOK
<1> QED BY <1>1, <1>5, <1>6, <1>7, CallAloneKeeps

\* A walk goes on, arrives or is given up.
LEMMA WalkOnKeeps ==
  ASSUME DeltaIInv, NEW s \in SyncSessions, call.session = {s}, call.kind = "delta",
         NEW c, IsCall(c), c.stage = "paging", c.kind = "delta", c.session = {s},
         c.after = call.after, c.limit = call.limit, WalkOf(c, durable[s]), WalkOn(c)
  PROVE  DeltaIInv'
<1>1. Target = s
  BY DEF Target
<1>2. /\ BoundedLog(durable[s]) /\ copy[s].cursor \in Cursor
      /\ call.after = copy[s].cursor /\ call.limit \in Nat \ {0}
  BY DEF DeltaIInv, LogsOK, CopiesOK, DeltaCallOK
<1>3. CASE CursorReached(c)
  <2>1. Respond(DeltaOf(c))
    BY <1>3 DEF WalkOn
  <2>2. PICK a : a = DeltaOf(c)
    OBVIOUS
  <2>3. ExactDelta(a, durable[s])
    BY <1>2, <1>3, <2>2, DeltaIsExact
  <2>4. a.type = "delta" /\ a.session = s /\ a.after = c.after
    BY <1>1, <2>2 DEF DeltaOf
  <2>5. AnswerFits(a)
    BY <1>2, <2>3, <2>4 DEF AnswerFits, AnswerTrue
  <2> QED BY <2>1, <2>2, <2>4, <2>5, RespondKeeps
<1>4. CASE ~CursorReached(c) /\ c.pages >= MaxScanPages
  BY <1>4, BaselineKeeps DEF WalkOn
<1>5. CASE ~CursorReached(c) /\ ~(c.pages >= MaxScanPages)
  <2>1. call' = c /\ UNCHANGED <<durable, archived, copy, due, reply, syncs>>
    BY <1>5 DEF WalkOn
  <2>2. CallOK'
    BY <2>1 DEF CallOK, IsCall
  <2>3. DeltaCallOK'
    BY <1>2, <1>5, <2>1 DEF DeltaCallOK, WalkOf, Walked, CursorReached
  <2>4. SnapshotCallOK'
    BY <2>1 DEF SnapshotCallOK
  <2> QED BY <2>1, <2>2, <2>3, <2>4, CallAloneKeeps
<1> QED BY <1>3, <1>4, <1>5

\* The newest of a log, from some event on.
LEMMA SnapshotOpensKeeps ==
  ASSUME DeltaIInv, SnapshotOpens
  PROVE  DeltaIInv'
<1>1. call.stage = "opening" /\ call.kind = "delta" /\ IsCall(call)
  BY DEF SnapshotOpens, DeltaIInv, CallOK
<1>2. PICK s \in SyncSessions : call.session = {s} /\ call.after = copy[s].cursor
  BY <1>1 DEF DeltaIInv, DeltaCallOK
<1>3. Target = s
  BY <1>2 DEF Target
<1>4. BoundedLog(durable[s]) /\ copy[s].cursor \in Cursor
  BY DEF DeltaIInv, LogsOK, CopiesOK
<1>5. PICK log : log = durable[s]
  OBVIOUS
<1>6. PICK tip : tip = TopOf(log)
  OBVIOUS
<1>8. CASE call.after > tip
  BY <1>1, <1>3, <1>5, <1>6, <1>8, BaselineKeeps DEF SnapshotOpens
<1>9. CASE ~(call.after > tip)
  <2> DEFINE Opened(l, t) ==
        \E records \in {{e \in l : e >= from} : from \in l} \cup {l} :
          \E more \in {TRUE, records # l} :
            /\ records = {} => ~more
            /\ WalkOn([call EXCEPT !.stage = "paging", !.fixed = t, !.records = records, !.more = more])
  <2>0. Opened(log, tip)
    <3>1. ~(call.after > TopOf(durable[Target]))
      BY <1>3, <1>5, <1>6, <1>9
    <3>2. Opened(durable[Target], TopOf(durable[Target]))
      BY <3>1 DEF SnapshotOpens
    <3> HIDE DEF Opened
    <3>3. log = durable[Target] /\ tip = TopOf(durable[Target])
      BY <1>3, <1>5, <1>6
    <3> QED BY <3>2, <3>3
  <2>1. PICK records \in {{e \in log : e >= from} : from \in log} \cup {log} :
          \E more \in {TRUE, records # log} :
            /\ records = {} => ~more
            /\ WalkOn([call EXCEPT !.stage = "paging", !.fixed = tip, !.records = records, !.more = more])
    BY <2>0
  <2>2. PICK more \in {TRUE, records # log} :
          /\ records = {} => ~more
          /\ WalkOn([call EXCEPT !.stage = "paging", !.fixed = tip, !.records = records, !.more = more])
    BY <2>1
  <2>3. PICK c : c = [call EXCEPT !.stage = "paging", !.fixed = tip, !.records = records, !.more = more]
    OBVIOUS
  <2>4. /\ IsCall(c) /\ c.stage = "paging" /\ c.kind = "delta" /\ c.session = {s} /\ c.after = call.after
        /\ c.limit = call.limit /\ c.fixed = tip /\ c.records = records /\ c.more = more
    BY <1>1, <1>2, <2>3 DEF IsCall
  <2>5. Walked(records, tip, call.after, more, log)
    <3>1. ~more => records = log
      BY <2>2
    <3>2. PICK after \in Cursor : after = call.after
      BY <1>2, <1>4
    <3>3. Walked(records, tip, after, more, log)
      BY <1>4, <1>5, <1>6, <1>9, <2>1, <3>1, <3>2, WalkBegins DEF UpperParts
    <3> QED BY <3>2, <3>3
  <2>6. WalkOf(c, log)
    BY <2>4, <2>5 DEF WalkOf
  <2>7. WalkOn(c)
    BY <2>2, <2>3
  <2> QED BY <1>1, <1>2, <1>5, <2>4, <2>6, <2>7, WalkOnKeeps
<1> QED BY <1>8, <1>9

\* A page of what is below.
LEMMA PageArrivesKeeps ==
  ASSUME DeltaIInv, PageArrives
  PROVE  DeltaIInv'
<1>1. call.stage = "paging" /\ call.kind = "delta" /\ IsCall(call)
  BY DEF PageArrives, DeltaIInv, CallOK
<1>2. PICK s \in SyncSessions : /\ call.session = {s} /\ call.after = copy[s].cursor
                                /\ WalkOf(call, durable[s]) /\ ~CursorReached(call)
  BY <1>1 DEF DeltaIInv, DeltaCallOK
<1>3. Target = s
  BY <1>2 DEF Target
<1>4. BoundedLog(durable[s])
  BY DEF DeltaIInv, LogsOK
<1>5. PICK log, had : log = durable[s] /\ had = call.records
  OBVIOUS
<1>6. log \in SUBSET Nat /\ had \subseteq log
  <2>1. durable[s] \in SUBSET Nat /\ call.records \subseteq durable[s]
    BY <1>2, <1>4 DEF BoundedLog, WalkOf, Walked
  <2> QED BY <1>5, <2>1
<1>7. had # {}
  <2>1. CASE call.fixed = -1
    <3>1. call.after \in Cursor
      BY <1>2 DEF DeltaIInv, CopiesOK
    <3>2. ~(call.after >= -1)
      BY <1>2, <2>1 DEF CursorReached
    <3> QED BY <3>1, <3>2 DEF Cursor
  <2>2. CASE call.fixed # -1
    BY <1>2, <1>5, <2>2 DEF WalkOf, Walked
  <2> QED BY <2>1, <2>2
<1> DEFINE left == {e \in log : e < Min(had)}
<1>9. PICK entries \in {{e \in left : e >= from} : from \in left} \cup {left} :
        \E more \in {TRUE, entries # left} :
          /\ entries = {} => ~more
          /\ WalkOn([call EXCEPT !.records = @ \cup entries, !.more = more, !.pages = @ + 1])
  <2> DEFINE Paged(l) ==
        \E entries \in {{e \in l : e >= from} : from \in l} \cup {l} :
          \E more \in {TRUE, entries # l} :
            /\ entries = {} => ~more
            /\ WalkOn([call EXCEPT !.records = @ \cup entries, !.more = more, !.pages = @ + 1])
  <2>1. Paged({e \in durable[Target] : e < Min(call.records)})
    BY DEF PageArrives
  <2> HIDE DEF Paged
  <2>2. left = {e \in durable[Target] : e < Min(call.records)}
    BY <1>3, <1>5
  <2>3. Paged(left)
    BY <2>1, <2>2
  <2> QED BY <2>3 DEF Paged
<1>10. PICK more \in {TRUE, entries # left} :
        /\ entries = {} => ~more
        /\ WalkOn([call EXCEPT !.records = @ \cup entries, !.more = more, !.pages = @ + 1])
  BY <1>9
<1>11. PICK c : c = [call EXCEPT !.records = @ \cup entries, !.more = more, !.pages = @ + 1]
  OBVIOUS
<1>12. /\ IsCall(c) /\ c.stage = "paging" /\ c.kind = "delta" /\ c.session = {s} /\ c.after = call.after
       /\ c.limit = call.limit /\ c.fixed = call.fixed /\ c.records = had \cup entries /\ c.more = more
  BY <1>1, <1>2, <1>5, <1>11 DEF IsCall
<1>13. Walked(had, call.fixed, call.after, call.more, log)
  BY <1>2, <1>5 DEF WalkOf
<1>14. WalkOf(c, log)
  <2>1. ~more => entries = left
    BY <1>10
  <2>2. PICK fixed, after, was : fixed = call.fixed /\ after = call.after /\ was = call.more
    OBVIOUS
  <2>3. PICK l : l = left
    OBVIOUS
  <2>4. Walked(had \cup entries, fixed, after, more, log)
    <3>1. entries \in UpperParts(l) /\ l = Below(log, had) /\ (~more => entries = l)
      BY <1>9, <2>1, <2>3 DEF UpperParts, Below
    <3>2. Walked(had, fixed, after, was, log) /\ BoundedLog(log)
      BY <1>4, <1>5, <1>13, <2>2
    <3> QED BY ONLY <1>7, <3>1, <3>2, WalkExtends
  <2> QED BY <1>12, <2>2, <2>4 DEF WalkOf
<1>15. WalkOn(c)
  BY <1>10, <1>11
<1> QED BY <1>1, <1>2, <1>5, <1>12, <1>14, <1>15, WalkOnKeeps
-----------------------------------------------------------------------------
(* The snapshot.                                                            *)

\* A snapshot call that goes on.
LEMMA SnapshotGoesOn ==
  ASSUME DeltaIInv, UNCHANGED <<durable, archived, copy, due, reply>>,
         IsCall(call'), call'.kind = "snapshot", call'.stage \in {"listing", "rows"},
         SnapshotCallOK'
  PROVE  DeltaIInv'
<1>1. CallOK'
  BY DEF CallOK, IsCall
<1>2. DeltaCallOK'
  BY DEF DeltaCallOK
<1> QED BY <1>1, <1>2, CallAloneKeeps

\* The cursor of a log, when it is looked at.
LEMMA RowIsTrue ==
  ASSUME LogsOK, SnapshotCallOK, call.kind = "snapshot", NEW s \in SyncSessions
  PROVE  TopOf(durable[s]) \in Cursor /\ TopOf(durable[s]) <= TopOf(durable[s])
         /\ call.then[s] <= TopOf(durable[s])
<1>1. BoundedLog(durable[s])
  BY DEF LogsOK
<1>2. TopOf(durable[s]) \in Cursor
  BY <1>1, TopOfLog
<1> QED BY <1>2 DEF SnapshotCallOK, Cursor

LEMMA ListAnswersKeeps ==
  ASSUME DeltaIInv, ListAnswers
  PROVE  DeltaIInv'
<1>0. LogsOK /\ SnapshotCallOK /\ IsCall(call) /\ call.kind = "snapshot" /\ call.stage = "listing"
  BY DEF DeltaIInv, CallOK, ListAnswers
<1>1. UNCHANGED <<durable, archived, copy, due, reply>>
  BY DEF ListAnswers
<1>2. PICK projected \in SUBSET SyncSessions :
        call' = RowsBegin([call EXCEPT !.listed = TRUE, !.unread = SyncSessions \ projected,
                             !.rows = [s \in projected |-> TopOf(durable[s])]])
  BY DEF ListAnswers
<1>3. PICK rows : rows = [s \in projected |-> TopOf(durable[s])]
  OBVIOUS
<1>4. PICK c : c = [call EXCEPT !.listed = TRUE, !.unread = SyncSessions \ projected, !.rows = rows]
  OBVIOUS
<1>5. /\ IsCall(c) /\ c.kind = "snapshot" /\ c.stage = "listing" /\ c.then = call.then
      /\ c.hidden = call.hidden /\ c.unread = SyncSessions \ projected /\ c.listed = TRUE /\ c.rows = rows
  BY <1>0, <1>4 DEF IsCall
<1>6. call' = RowsBegin(c)
  BY <1>2, <1>3, <1>4
<1>7. /\ IsCall(call') /\ call'.kind = "snapshot" /\ call'.stage \in {"listing", "rows"}
      /\ call'.then = call.then /\ call'.hidden = call.hidden /\ call'.unread = SyncSessions \ projected
      /\ call'.listed = TRUE /\ call'.rows = rows
  BY <1>5, <1>6 DEF RowsBegin, IsCall
<1>8. ASSUME NEW s \in DOMAIN rows
      PROVE  /\ rows[s] \in Cursor /\ rows[s] <= TopOf(durable[s])
             /\ rows[s] = -1 \/ call.then[s] <= rows[s]
  <2>1. s \in SyncSessions /\ rows[s] = TopOf(durable[s])
    BY <1>3
  <2> QED BY <1>0, <2>1, RowIsTrue
<1>9. DOMAIN rows = projected
  BY <1>3
<1>10. SnapshotCallOK'
  BY <1>0, <1>1, <1>7, <1>8, <1>9 DEF SnapshotCallOK
<1> QED BY <1>1, <1>7, <1>10, SnapshotGoesOn

LEMMA WorkspaceAnswersKeeps ==
  ASSUME DeltaIInv, WorkspaceAnswers
  PROVE  DeltaIInv'
<1>0. SnapshotCallOK /\ IsCall(call) /\ call.kind = "snapshot" /\ call.stage = "listing"
  BY DEF DeltaIInv, CallOK, WorkspaceAnswers
<1>1. UNCHANGED <<durable, archived, copy, due, reply>>
  BY DEF WorkspaceAnswers
<1>2. PICK c : c = [call EXCEPT !.followed = TRUE, !.hidden = archived]
  OBVIOUS
<1>3. /\ IsCall(c) /\ c.kind = "snapshot" /\ c.stage = "listing" /\ c.then = call.then
      /\ c.hidden = archived /\ c.unread = call.unread /\ c.listed = call.listed /\ c.rows = call.rows
  BY <1>0, <1>2 DEF IsCall
<1>4. call' = RowsBegin(c)
  BY <1>2 DEF WorkspaceAnswers
<1>5. /\ IsCall(call') /\ call'.kind = "snapshot" /\ call'.stage \in {"listing", "rows"}
      /\ call'.then = call.then /\ call'.hidden = archived /\ call'.unread = call.unread
      /\ call'.listed = call.listed /\ call'.rows = call.rows
      /\ call'.stage = "rows" => call'.listed
  BY <1>3, <1>4 DEF RowsBegin, IsCall
<1>6. SnapshotCallOK'
  BY <1>0, <1>1, <1>5 DEF SnapshotCallOK
<1> QED BY <1>1, <1>5, <1>6, SnapshotGoesOn

LEMMA ReadRowKeeps ==
  ASSUME DeltaIInv, NEW s \in SyncSessions, ReadRow(s)
  PROVE  DeltaIInv'
<1>0. LogsOK /\ SnapshotCallOK /\ IsCall(call) /\ call.kind = "snapshot" /\ call.stage = "rows" /\ call.listed
  BY DEF DeltaIInv, CallOK, SnapshotCallOK, ReadRow
<1>1. UNCHANGED <<durable, archived, copy, due, reply>>
  BY DEF ReadRow
<1>2. PICK rows \in {RowOpened(s), RowUnreadable(s)} : call' = [call EXCEPT !.unread = @ \ {s}, !.rows = rows]
  BY DEF ReadRow
<1>3. /\ IsCall(call') /\ call'.kind = "snapshot" /\ call'.stage = "rows" /\ call'.listed = call.listed
      /\ call'.then = call.then /\ call'.hidden = call.hidden
      /\ call'.unread = call.unread \ {s} /\ call'.rows = rows
  BY <1>0, <1>2 DEF IsCall
<1>4. /\ DOMAIN rows = DOMAIN call.rows \cup {s}
      /\ rows[s] = -1 \/ rows[s] = TopOf(durable[s])
      /\ \A t \in DOMAIN call.rows : t # s => rows[t] = call.rows[t]
  BY <1>2 DEF RowOpened, RowUnreadable
<1>5. ASSUME NEW t \in DOMAIN rows
      PROVE  /\ rows[t] \in Cursor /\ rows[t] <= TopOf(durable[t])
             /\ rows[t] = -1 \/ call.then[t] <= rows[t]
  <2>1. CASE t = s
    <3>1. TopOf(durable[s]) \in Cursor /\ TopOf(durable[s]) <= TopOf(durable[s])
          /\ call.then[s] <= TopOf(durable[s])
      BY <1>0, RowIsTrue
    <3> QED BY <1>4, <2>1, <3>1 DEF Cursor
  <2>2. CASE t # s
    <3>1. t \in DOMAIN call.rows /\ rows[t] = call.rows[t]
      BY <1>4, <2>2
    <3> QED BY <1>0, <3>1 DEF SnapshotCallOK
  <2> QED BY <2>1, <2>2
<1>6. DOMAIN rows \subseteq SyncSessions /\ SyncSessions \subseteq DOMAIN rows \cup (call.unread \ {s})
  BY <1>0, <1>4 DEF SnapshotCallOK
<1>7. SnapshotCallOK'
  BY <1>0, <1>1, <1>3, <1>5, <1>6 DEF SnapshotCallOK
<1> QED BY <1>1, <1>3, <1>7, SnapshotGoesOn

LEMMA SnapshotDoneKeeps ==
  ASSUME DeltaIInv, SnapshotDone
  PROVE  DeltaIInv'
<1>0. SnapshotCallOK /\ call.kind = "snapshot" /\ call.stage = "rows" /\ call.listed
  BY DEF DeltaIInv, CallOK, SnapshotCallOK, SnapshotDone
<1>1. PICK a : a = [type |-> "snapshot", then |-> call.then,
                    rows |-> [s \in DOMAIN call.rows \ call.hidden |-> call.rows[s]]]
  OBVIOUS
<1>2. Respond(a)
  BY <1>1 DEF SnapshotDone
<1>3. /\ a.type = "snapshot" /\ a.then = call.then /\ DOMAIN a.rows = DOMAIN call.rows \ call.hidden
      /\ \A s \in DOMAIN a.rows : a.rows[s] = call.rows[s]
  BY <1>1
<1>4. ASSUME NEW s \in SyncSessions \ archived
      PROVE  /\ s \in DOMAIN a.rows
             /\ a.rows[s] = -1
                \/ /\ a.then[s] \in Cursor /\ a.rows[s] \in Cursor
                   /\ a.then[s] <= a.rows[s] /\ a.rows[s] <= TopOf(durable[s])
  <2>1. s \notin call.hidden /\ s \notin call.unread
    BY <1>0 DEF SnapshotCallOK, SnapshotDone
  <2>2. s \in DOMAIN call.rows
    BY <1>0, <2>1 DEF SnapshotCallOK
  <2> QED BY <1>0, <1>3, <2>1, <2>2 DEF SnapshotCallOK
<1>5. AnswerFits(a)
  BY <1>0, <1>3, <1>4 DEF AnswerFits, AnswerTrue, TrueRows, SnapshotCallOK
<1> QED BY <1>2, <1>3, <1>5, RespondKeeps

-----------------------------------------------------------------------------
(* All of it.                                                               *)

\* Whatever fails is refused.
LEMMA FailureKeeps ==
  ASSUME DeltaIInv, Unauthorized \/ BodyRejected \/ RequestTimesOut \/ HostFails
  PROVE  DeltaIInv'
<1>1. Respond(Refused)
  BY DEF Unauthorized, BodyRejected, RequestTimesOut, HostFails, failureResult
<1> QED BY <1>1, RefusedKeeps

\* An answer of the host that cannot be used makes the phone begin anew.
LEMMA HostAnswersBadlyKeeps ==
  ASSUME DeltaIInv, HostAnswersBadly
  PROVE  DeltaIInv'
<1>1. call.kind = "delta" /\ Respond(baselineRecovery("host"))
  BY DEF HostAnswersBadly, DeltaIInv, CallOK
<1> QED BY <1>1, BaselineKeeps

LEMMA DeltaInitially ==
  ASSUME DeltaInit
  PROVE  DeltaIInv
<1>1. durable \in [SyncSessions -> {{}, {0, 1}}] /\ due = {} /\ call = NoCall /\ reply = Refused
  BY DEF DeltaInit
<1>2. PICK cursor \in -1..2 :
        copy = [s \in SyncSessions |-> [cursor |-> cursor, held |-> {e \in durable[s] : e <= cursor},
                  life |-> IF cursor <= TopOf(durable[s]) THEN "this" ELSE "earlier"]]
  BY DEF DeltaInit
<1>3. LogsOK
  <2>1. ASSUME NEW s \in SyncSessions PROVE BoundedLog(durable[s])
    <3>1. durable[s] \subseteq {0, 1}
      BY <1>1
    <3>2. \A e \in durable[s] : e <= 1
      BY <3>1
    <3> QED BY <3>1, <3>2 DEF BoundedLog
  <2> QED BY <1>1, <2>1 DEF LogsOK
<1>4. CopiesOK
  <2>1. ASSUME NEW s \in SyncSessions
        PROVE  /\ IsCopy(copy[s]) /\ copy[s].cursor \in Cursor
               /\ copy[s].life = "this" => copy[s].cursor <= TopOf(durable[s])
    <3>1. copy[s] = [cursor |-> cursor, held |-> {e \in durable[s] : e <= cursor},
                     life |-> IF cursor <= TopOf(durable[s]) THEN "this" ELSE "earlier"]
      BY <1>2
    <3>2. copy[s].cursor = cursor /\ cursor \in Cursor
      BY <3>1 DEF Cursor
    <3>3. copy[s].life = "this" => cursor <= TopOf(durable[s])
      BY <3>1
    <3>4. IsCopy(copy[s])
      BY <3>1 DEF IsCopy
    <3> QED BY <3>2, <3>3, <3>4
  <2> QED BY <1>1, <1>2, <2>1 DEF CopiesOK
<1>5. CopyIsPrefix
  BY <1>2 DEF CopyIsPrefix
<1>6. CallOK /\ DeltaCallOK /\ SnapshotCallOK
  BY <1>1 DEF NoCall, CallOK, IsCall, DeltaCallOK, SnapshotCallOK
<1>7. AnswerTrue(reply)
  BY <1>1 DEF Refused, AnswerTrue
<1> QED BY <1>3, <1>4, <1>5, <1>6, <1>7 DEF DeltaIInv

LEMMA DeltaStep ==
  ASSUME DeltaIInv, [DeltaNext]_deltaVars
  PROVE  DeltaIInv'
<1>1. ASSUME NEW s \in SyncSessions, LogGrows(s) \/ PutAway(s) \/ ReadRow(s) PROVE DeltaIInv'
  BY <1>1, LogGrowsKeeps, PutAwayKeeps, ReadRowKeeps
<1>2. ASSUME NEW s \in SyncSessions, NEW limit \in 1..2, AskDelta(s, limit) PROVE DeltaIInv'
  BY <1>2, AskDeltaKeeps
<1>3. CASE AskSnapshot
  BY <1>3, AskSnapshotKeeps
<1>4. CASE Unauthorized \/ BodyRejected \/ RequestTimesOut \/ HostFails
  BY <1>4, FailureKeeps
<1>5. CASE ClientCloses \/ StrayAbort
  BY <1>5, CallEndsKeeps
<1>6. CASE OperationBegins \/ SnapshotOpens \/ HostAnswersBadly \/ PageArrives
  BY <1>6, OperationBeginsKeeps, SnapshotOpensKeeps, HostAnswersBadlyKeeps, PageArrivesKeeps
<1>7. CASE ListAnswers \/ WorkspaceAnswers \/ SnapshotDone
  BY <1>7, ListAnswersKeeps, WorkspaceAnswersKeeps, SnapshotDoneKeeps
<1>8. CASE UNCHANGED deltaVars
  <2>1. UNCHANGED <<durable, archived, copy, due, call, reply>>
    BY <1>8 DEF deltaVars
  <2>2. CallOK' /\ DeltaCallOK' /\ SnapshotCallOK'
    BY <2>1 DEF DeltaIInv, CallOK, IsCall, DeltaCallOK, WalkOf, Walked, CursorReached, SnapshotCallOK
  <2> QED BY <2>1, <2>2, CallAloneKeeps
<1> QED BY <1>1, <1>2, <1>3, <1>4, <1>5, <1>6, <1>7, <1>8 DEF DeltaNext

\* What the phone is told, the call in progress and its copies agree with the logs, at
\* every moment.
THEOREM DeltaInvariantHolds == DeltaSpec => []DeltaIInv
<1>1. DeltaInit => DeltaIInv
  BY DeltaInitially
<1>2. DeltaIInv /\ [DeltaNext]_deltaVars => DeltaIInv'
  BY DeltaStep
<1> QED BY <1>1, <1>2, PTL DEF DeltaSpec

\* readSessionDelta gives exactly the events from the phone's cursor up to where the
\* answer ends, whatever pages the host makes of a log that grows meanwhile, and
\* readSessionSyncSnapshot leaves out no session and no event of before the request; so
\* the phone's copy is the log up to its cursor.
THEOREM DeltaIsSound == DeltaSpec => []DeltaSound
<1>1. DeltaIInv => DeltaSound
  <2> SUFFICES ASSUME DeltaIInv PROVE DeltaSound
    OBVIOUS
  <2>1. CopyIsPrefix /\ AnswerTrue(reply)
    BY DEF DeltaIInv
  <2>2. DeltaExact
    BY <2>1 DEF DeltaExact, AnswerTrue, ExactDelta
  <2>3. NothingForgotten
    BY <2>1 DEF NothingForgotten, AnswerTrue, TrueRows
  <2> QED BY <2>1, <2>2, <2>3 DEF DeltaSound
<1> QED BY <1>1, DeltaInvariantHolds, PTL
-----------------------------------------------------------------------------
(***************************************************************************)
(* What a phone reads of one session is of one log, over any number of     *)
(* restarts and logs, and for any limits of pages and events.              *)
(***************************************************************************)
LEMMA TipIsTop ==
  ASSUME NEW S
  PROVE  Tip(S) = TopOf(S)
BY DEF Tip, TopOf

LEMMA NoMoreThanIsDelivered ==
  ASSUME NEW limit, NEW events
  PROVE  NoMoreThan(limit, events) = Delivered(events, limit)
BY DEF NoMoreThan, Delivered

LogOK == BoundedLog(written) /\ epoch \in Nat /\ mark \in {NoMark} \cup Cursor

IsClient(c) ==
  c = [epoch |-> c.epoch, cursor |-> c.cursor, held |-> c.held, more |-> c.more, due |-> c.due]

\* A phone knows of no later epoch, and is not ahead of the log of its own.
ClientFits(c) ==
  /\ IsClient(c) /\ c.epoch \in Nat /\ c.epoch <= epoch
  /\ c.cursor \in Cursor /\ c.held \in SUBSET Nat
  /\ c.more => c.held # {}
  /\ epoch # 0 /\ c.epoch = epoch => c.cursor <= Tip(written)

IsAsk(a) ==
  a = [stage |-> a.stage, kind |-> a.kind, epoch |-> a.epoch, after |-> a.after, before |-> a.before,
       fixed |-> a.fixed, found |-> a.found, more |-> a.more, pages |-> a.pages, then |-> a.then]

\* What goes on from the phone's cursor or its oldest event is of its epoch, which is the
\* host's once it is let in.
AskFits(a) ==
  /\ IsAsk(a)
  /\ a.stage = "paging" => a.kind = "delta"
  /\ a.stage = "older" => a.kind = "older"
  /\ a.kind = "history" => a.before = -1
  /\ a.kind = "delta" => a.after = client.cursor /\ a.epoch = client.epoch
  /\ a.kind = "older" => a.before = Min(client.held) /\ client.more /\ a.epoch = client.epoch
  /\ a.stage \in {"opening", "paging", "older"} /\ a.kind \in {"delta", "older"} /\ epoch # 0 =>
       a.epoch = epoch
  /\ a.stage = "paging" => Walked(a.found, a.fixed, a.after, a.more, written) /\ ~Reached(a)

\* No hole below the cursor and nothing of another log.
CopyHas(c, log) ==
  /\ c.held \subseteq log
  /\ \A e \in log : e <= c.cursor /\ e \notin c.held => c.more /\ \A h \in c.held : e < h

CopyFits(c) == epoch # 0 /\ c.epoch = epoch => CopyHas(c, written)

HonestDelta(said) ==
  said.type = "delta" =>
    /\ said.caughtUp => ~said.baseline /\ said.through >= said.last
    /\ said.more \/ said.caughtUp \/ said.baseline
    /\ said.more => said.events # {} \/ said.baseline

ReadsIInv ==
  LogOK /\ MarkOfThisLog /\ ClientFits(client) /\ CopyFits(client) /\ AskFits(asked) /\ HonestDelta(answer)

-----------------------------------------------------------------------------
(* Responses.                                                               *)

TypesOfResponse == {"epoch", "delta", "page", "snapshot", "declined"}

\* A response that a phone can take: of this epoch, and all there is between its ends.
ResponseFits(said) ==
  /\ said.type \in TypesOfResponse
  /\ said.type # "declined" => said.epoch = epoch
  /\ HonestDelta(said)
  /\ said.type = "delta" =>
       /\ client.epoch = epoch
       /\ said.through \in Cursor /\ client.cursor <= said.through
       /\ epoch # 0 => said.through <= Tip(written)
       /\ said.events = {e \in written : client.cursor < e /\ e <= said.through}
  /\ said.type = "page" =>
       /\ said.events \subseteq written
       /\ said.more => said.events # {}
       /\ said.before # -1 => client.more /\ said.before = Min(client.held) /\ (epoch # 0 => client.epoch = epoch)
       /\ \A e \in said.events : said.before # -1 => e < said.before
       /\ \A e \in written : (said.before # -1 => e < said.before) /\ e \notin said.events =>
            said.more /\ \A h \in said.events : e < h

LEMMA BlankFits ==
  ASSUME LogOK
  PROVE  ClientFits(Blank(epoch)) /\ CopyFits(Blank(epoch))
<1>1. PICK c : c = Blank(epoch)
  OBVIOUS
<1>2. c.epoch = epoch /\ c.cursor = -1 /\ c.held = {} /\ c.more = FALSE /\ IsClient(c)
  BY <1>1 DEF Blank, IsClient
<1>3. epoch \in Nat /\ written \in SUBSET Nat /\ Tip(written) \in Cursor
  BY TopOfLog, TipIsTop DEF LogOK, BoundedLog
<1>4. -1 <= Tip(written) /\ epoch <= epoch /\ -1 \in Cursor
  BY <1>3 DEF Cursor
<1>5. ClientFits(c)
  BY <1>2, <1>3, <1>4 DEF ClientFits
<1>6. \A e \in written : ~(e <= -1)
  BY <1>3
<1>7. CopyFits(c)
  BY <1>2, <1>6 DEF CopyFits, CopyHas
<1> QED BY <1>1, <1>5, <1>7

LEMMA DeltaTaken ==
  ASSUME LogOK, ClientFits(client), CopyFits(client), NEW said, ResponseFits(said), said.type = "delta",
         NEW c, c = [Heard(said.epoch) EXCEPT !.cursor = said.through, !.held = @ \cup said.events,
                                              !.due = said.baseline]
  PROVE  ClientFits(c) /\ CopyFits(c)
<1>1. /\ client.epoch = epoch /\ said.epoch = epoch
      /\ said.through \in Cursor /\ client.cursor <= said.through
      /\ epoch # 0 => said.through <= Tip(written)
      /\ said.events = {e \in written : client.cursor < e /\ e <= said.through}
  BY DEF ResponseFits
<1>2. /\ c.epoch = epoch /\ c.cursor = said.through /\ c.held = client.held \cup said.events
      /\ c.more = client.more /\ IsClient(c)
  BY <1>1 DEF Heard, ClientFits, IsClient
<1>3. written \in SUBSET Nat
  BY DEF LogOK, BoundedLog
<1>4. ClientFits(c)
  BY <1>1, <1>2, <1>3 DEF ClientFits
<1>5. ASSUME epoch # 0 PROVE CopyHas(c, written)
  <2>1. CopyHas(client, written)
    BY <1>1, <1>5 DEF CopyFits
  <2>2. c.held \subseteq written
    BY <1>1, <1>2, <2>1 DEF CopyHas
  <2>3. ASSUME NEW e \in written, e <= c.cursor, e \notin c.held
        PROVE  c.more /\ \A h \in c.held : e < h
    <3>1. e \in Int /\ client.cursor \in Int /\ ~(client.cursor < e)
      BY <1>1, <1>2, <1>3, <2>3 DEF ClientFits, Cursor
    <3>2. e <= client.cursor /\ e \notin client.held
      BY <1>2, <2>3, <3>1
    <3>3. client.more /\ \A h \in client.held : e < h
      BY <2>1, <3>2 DEF CopyHas
    <3>4. \A h \in said.events : h \in Nat /\ client.cursor < h
      BY <1>1, <1>3
    <3>5. \A h \in said.events : e < h
      BY <3>1, <3>2, <3>4
    <3> QED BY <1>2, <3>3, <3>5
  <2> QED BY <2>2, <2>3 DEF CopyHas
<1> QED BY <1>4, <1>5 DEF CopyFits

LEMMA FirstPageTaken ==
  ASSUME LogOK, NEW said, ResponseFits(said), said.type = "page", said.before = -1,
         NEW c, c = [Blank(said.epoch) EXCEPT !.cursor = Tip(said.events), !.held = said.events,
                                              !.more = said.more]
  PROVE  ClientFits(c) /\ CopyFits(c)
<1>1. /\ said.epoch = epoch /\ said.events \subseteq written
      /\ said.more => said.events # {}
      /\ \A e \in written : e \notin said.events => said.more /\ \A h \in said.events : e < h
  BY DEF ResponseFits
<1>2. /\ c.epoch = epoch /\ c.cursor = Tip(said.events) /\ c.held = said.events
      /\ c.more = said.more /\ IsClient(c)
  BY <1>1 DEF Blank, IsClient
<1>3. epoch \in Nat /\ BoundedLog(written) /\ written \in SUBSET Nat
  BY DEF LogOK, BoundedLog
<1>4. BoundedLog(said.events)
  BY <1>1, <1>3 DEF BoundedLog
<1>5. Tip(said.events) \in Cursor /\ Tip(said.events) <= Tip(written)
  <2>1. /\ TopOf(said.events) \in Cursor /\ (said.events = {} => TopOf(said.events) = -1)
        /\ (said.events # {} => TopOf(said.events) \in said.events)
    BY <1>4, TopOfLog
  <2>2. TopOf(written) \in Cursor /\ \A e \in written : e <= TopOf(written)
    BY <1>3, TopOfLog
  <2>3. TopOf(said.events) <= TopOf(written)
    BY <1>1, <2>1, <2>2 DEF Cursor
  <2> QED BY <2>1, <2>3, TipIsTop
<1>6. ClientFits(c)
  BY <1>1, <1>2, <1>3, <1>5 DEF ClientFits
<1> QED BY <1>1, <1>2, <1>6 DEF CopyFits, CopyHas

LEMMA OlderPageTaken ==
  ASSUME LogOK, ClientFits(client), CopyFits(client), NEW said, ResponseFits(said), said.type = "page",
         said.before # -1, NEW c, c = [client EXCEPT !.held = @ \cup said.events, !.more = said.more]
  PROVE  ClientFits(c) /\ CopyFits(c)
<1>1. /\ said.events \subseteq written /\ client.more /\ said.before = Min(client.held)
      /\ \A e \in said.events : e < said.before
      /\ \A e \in written : e < said.before /\ e \notin said.events => said.more /\ \A h \in said.events : e < h
  BY DEF ResponseFits
<1>2. /\ c.epoch = client.epoch /\ c.cursor = client.cursor /\ c.held = client.held \cup said.events
      /\ c.more = said.more /\ IsClient(c)
  BY DEF ClientFits, IsClient
<1>3. written \in SUBSET Nat /\ client.held \in SUBSET Nat /\ client.held # {}
  BY <1>1 DEF LogOK, BoundedLog, ClientFits
<1>4. Min(client.held) \in client.held /\ \A h \in client.held : Min(client.held) <= h
  BY <1>3, OldestIs
<1>5. ClientFits(c)
  BY <1>1, <1>2, <1>3 DEF ClientFits
<1>6. ASSUME CopyHas(client, written) PROVE CopyHas(c, written)
  <2>1. c.held \subseteq written
    BY <1>1, <1>2, <1>6 DEF CopyHas
  <2>2. ASSUME NEW e \in written, e <= c.cursor, e \notin c.held
        PROVE  c.more /\ \A h \in c.held : e < h
    <3>1. \A h \in client.held : e < h
      BY <1>2, <1>6, <2>2 DEF CopyHas
    <3>2. e < said.before
      BY <1>1, <1>4, <3>1
    <3>3. said.more /\ \A h \in said.events : e < h
      BY <1>1, <1>2, <2>2, <3>2
    <3> QED BY <1>2, <3>1, <3>3
  <2> QED BY <2>1, <2>2 DEF CopyHas
<1> QED BY <1>2, <1>5, <1>6 DEF CopyFits

\* The client after any response.
LEMMA TakeKeeps ==
  ASSUME LogOK, ClientFits(client), CopyFits(client), NEW said, ResponseFits(said), Take(said)
  PROVE  ClientFits(client') /\ CopyFits(client') /\ answer' = said
<1>0. answer' = said
  BY DEF Take
<1>1. CASE said.type = "epoch"
  <2>1. client' = Blank(epoch)
    BY <1>1 DEF Take, ResponseFits
  <2> QED BY <1>0, <2>1, BlankFits
<1>2. CASE said.type = "delta"
  <2>1. PICK c : c = [Heard(said.epoch) EXCEPT !.cursor = said.through, !.held = @ \cup said.events,
                                               !.due = said.baseline]
    OBVIOUS
  <2>2. client' = c
    BY <1>2, <2>1 DEF Take
  <2> QED BY <1>0, <1>2, <2>1, <2>2, DeltaTaken
<1>3. CASE said.type = "page" /\ said.before = -1
  <2>1. PICK c : c = [Blank(said.epoch) EXCEPT !.cursor = Tip(said.events), !.held = said.events,
                                               !.more = said.more]
    OBVIOUS
  <2>2. client' = c
    BY <1>3, <2>1 DEF Take
  <2> QED BY <1>0, <1>3, <2>1, <2>2, FirstPageTaken
<1>4. CASE said.type = "page" /\ said.before # -1
  <2>1. PICK c : c = [client EXCEPT !.held = @ \cup said.events, !.more = said.more]
    OBVIOUS
  <2>2. client' = c
    BY <1>4, <2>1 DEF Take
  <2> QED BY <1>0, <1>4, <2>1, <2>2, OlderPageTaken
<1>5. CASE said.type = "snapshot"
  <2>1. client' = Heard(epoch)
    BY <1>5 DEF Take, ResponseFits
  <2>2. client' = client \/ client' = Blank(epoch)
    BY <2>1 DEF Heard
  <2> QED BY <1>0, <2>2, BlankFits
<1>6. CASE said.type = "declined"
  <2>1. client' = client
    BY <1>6 DEF Take
  <2> QED BY <1>0, <2>1
<1> QED BY <1>1, <1>2, <1>3, <1>4, <1>5, <1>6 DEF ResponseFits, TypesOfResponse
\* A watermark that may be told.
SeenFits(seen) == seen \in {NoMark} \cup Cursor /\ (epoch # 0 => seen <= Tip(written))

LEMMA NothingSeen ==
  ASSUME LogOK
  PROVE  SeenFits(NoMark)
<1>1. Tip(written) \in Cursor
  BY TopOfLog, TipIsTop DEF LogOK
<1> QED BY <1>1 DEF SeenFits, NoMark, Cursor

LEMMA MarkMoves ==
  ASSUME LogOK, MarkOfThisLog, NEW seen, SeenFits(seen), mark' = Watermark(seen), UNCHANGED <<written, epoch>>
  PROVE  LogOK' /\ MarkOfThisLog'
<1>1. mark' = seen \/ mark' = mark
  BY DEF Watermark
<1> QED BY <1>1 DEF LogOK, MarkOfThisLog, SeenFits

LEMMA DeclinedFits == ResponseFits(Declined)
BY DEF ResponseFits, Declined, TypesOfResponse, HonestDelta

LEMMA NoAskFits ==
  ASSUME NEW a, NEW stage \in {"idle", "lost"}, a = [NoAsk EXCEPT !.stage = stage]
  PROVE  AskFits(a)'
<1>1. a.stage = stage /\ a.kind = "none" /\ IsAsk(a)
  BY DEF NoAsk, IsAsk
<1> QED BY <1>1 DEF AskFits, IsAsk

LEMMA SendKeeps ==
  ASSUME ReadsIInv, NEW said, ResponseFits(said), NEW seen, SeenFits(seen), Send(said, seen)
  PROVE  ReadsIInv'
<1>0. LogOK /\ MarkOfThisLog /\ ClientFits(client) /\ CopyFits(client)
  BY DEF ReadsIInv
<1>1. UNCHANGED <<written, life, epoch, asks>> /\ mark' = Watermark(seen) /\ asked' = NoAsk
  BY DEF Send
<1>2. PICK given : ResponseFits(given) /\ Take(given)
  <2>1. PICK d : d = Declined
    OBVIOUS
  <2>2. ResponseFits(d)
    BY <2>1, DeclinedFits
  <2> QED BY <2>1, <2>2 DEF Send
<1>3. ClientFits(client') /\ CopyFits(client') /\ answer' = given
  BY <1>0, <1>2, TakeKeeps
<1>4. ClientFits(client)' /\ CopyFits(client)'
  BY <1>1, <1>3 DEF ClientFits, IsClient, CopyFits, CopyHas
<1>5. HonestDelta(answer)'
  BY <1>2, <1>3 DEF ResponseFits, HonestDelta
<1>6. LogOK' /\ MarkOfThisLog'
  BY <1>0, <1>1, MarkMoves
<1>7. AskFits(asked)'
  <2>1. PICK a : a = [NoAsk EXCEPT !.stage = "idle"]
    OBVIOUS
  <2>2. asked' = a
    BY <1>1, <2>1 DEF NoAsk
  <2>3. AskFits(a)'
    BY <2>1, NoAskFits
  <2> QED BY <2>2, <2>3
<1> QED BY <1>4, <1>5, <1>6, <1>7 DEF ReadsIInv

LEMMA DeclineKeeps ==
  ASSUME ReadsIInv, Send(Declined, NoMark)
  PROVE  ReadsIInv'
<1>1. PICK d, n : d = Declined /\ n = NoMark
  OBVIOUS
<1>2. ResponseFits(d) /\ SeenFits(n)
  BY <1>1, DeclinedFits, NothingSeen DEF ReadsIInv
<1>3. Send(d, n)
  BY <1>1
<1> QED BY <1>2, <1>3, SendKeeps

\* The phone is sent for a baseline and keeps what it has.
LEMMA RecoversKeeps ==
  ASSUME ReadsIInv, asked.kind = "delta", asked.stage \in {"opening", "paging"},
         NEW last, SeenFits(last), Recovers(last)
  PROVE  ReadsIInv'
<1>1. LogOK /\ ClientFits(client) /\ asked.after = client.cursor /\ (epoch # 0 => client.epoch = epoch)
  BY DEF ReadsIInv, AskFits
<1>2. PICK d : d = RecoveryOf(last)
  OBVIOUS
<1>3. /\ d.type = "delta" /\ d.epoch = epoch /\ d.through = client.cursor /\ d.events = {}
      /\ d.caughtUp = FALSE /\ d.baseline = TRUE
  BY <1>1, <1>2 DEF RecoveryOf
<1>4. client.epoch = epoch
  <2>1. client.epoch \in Nat /\ client.epoch <= epoch
    BY <1>1 DEF ClientFits
  <2> QED BY <1>1, <2>1 DEF LogOK
<1>5. client.cursor \in Cursor /\ client.cursor <= client.cursor /\ (epoch # 0 => client.cursor <= Tip(written))
  BY <1>1, <1>4 DEF ClientFits, Cursor
<1>6. {e \in written : client.cursor < e /\ e <= client.cursor} = {}
  <2>1. \A e \in written : e \in Int /\ client.cursor \in Int
    BY <1>1, <1>5 DEF LogOK, BoundedLog, Cursor
  <2> QED BY <2>1
<1>7. ResponseFits(d)
  BY <1>3, <1>4, <1>5, <1>6 DEF ResponseFits, HonestDelta, TypesOfResponse
<1>8. Send(d, last)
  BY <1>2 DEF Recovers
<1> QED BY <1>7, <1>8, SendKeeps

-----------------------------------------------------------------------------
(* The delta of the stream service.                                         *)

\* As many as there is room for are all there is from the cursor up to the last of them.
LEMMA FittedIs ==
  ASSUME NEW log, BoundedLog(log), NEW after \in Cursor, NEW fixed, NEW delivered, NEW through,
         AllBetween(delivered, through, after, fixed, log),
         NEW fitted \in HeadOf(delivered), NEW cut \in CutOf(fitted, delivered),
         NEW end, end = TopOf({after} \cup fitted)
  PROVE  /\ fitted = {e \in log : after < e /\ e <= end}
         /\ end \in Cursor /\ after <= end /\ end <= through
         /\ ~cut => end = through
         /\ cut \/ through < fixed => fitted # {}
<1>1. /\ delivered = {e \in log : after < e /\ e <= through}
      /\ through >= fixed \/ delivered # {}
      /\ through \in Cursor /\ through \in {after} \cup delivered /\ after <= through /\ fixed \in Cursor
  BY DEF AllBetween
<1>2. log \in SUBSET Nat /\ after \in Int /\ through \in Int /\ fixed \in Int
  BY <1>1 DEF BoundedLog, Cursor
<1>3. CASE delivered = {}
  <2>1. fitted = {}
    BY <1>3 DEF HeadOf
  <2>2. cut = FALSE
    BY <1>3, <2>1 DEF CutOf
  <2>3. end = after
    <3>1. PICK S : S = {after} \cup fitted
      OBVIOUS
    <3>2. S = {after} /\ S \in SUBSET Cursor
      BY <2>1, <3>1
    <3>3. \E b \in Nat : \A e \in S : e <= b
      <4>1. CASE after = -1
        BY <3>2, <4>1
      <4>2. CASE after \in Nat
        BY <3>2, <4>2
      <4> QED BY <4>1, <4>2 DEF Cursor
    <3>4. TopOf(S) \in S
      BY <3>2, <3>3, TopIs
    <3>5. end = TopOf(S)
      BY <3>1
    <3> QED BY <3>2, <3>4, <3>5
  <2>4. {e \in log : after < e /\ e <= after} = {}
    <3>1. \A e \in log : e \in Nat
      BY <1>2
    <3>2. \A e \in log : ~(after < e /\ e <= after)
      BY <1>2, <3>1
    <3> QED BY <3>2
  <2>5. after = through
    BY <1>1, <1>3
  <2>6. ~(through < fixed)
    BY <1>1, <1>2, <1>3
  <2> QED BY <1>1, <1>2, <2>1, <2>2, <2>3, <2>4, <2>5, <2>6
<1>4. CASE delivered # {}
  <2>1. PICK last \in delivered : fitted = {e \in delivered : e <= last}
    BY <1>4 DEF HeadOf
  <2>2. last \in log /\ last \in Nat /\ after < last /\ last <= through /\ last \in fitted
    BY <1>1, <1>2, <2>1
  <2>3. end = last
    <3>1. {after} \cup fitted \in SUBSET Cursor
      BY <1>1, <1>2, <2>1 DEF Cursor
    <3>2. \A e \in {after} \cup fitted : e <= last
      BY <1>2, <2>1, <2>2
    <3>3. end \in {after} \cup fitted /\ \A e \in {after} \cup fitted : e <= end
      BY <2>2, <3>1, <3>2, TopIs
    <3> QED BY <1>2, <2>2, <3>2, <3>3
  <2>4. fitted = {e \in log : after < e /\ e <= last}
    <3>1. \A e \in log : e \in Nat /\ (e <= last => e <= through)
      BY <1>2, <2>2
    <3> QED BY <1>1, <2>1, <3>1
  <2>5. ~cut => last = through
    <3>1. ASSUME ~cut PROVE fitted = delivered
      BY <3>1 DEF CutOf
    <3>2. through \in delivered
      BY <1>1, <1>2, <2>2
    <3> QED BY <1>2, <2>1, <2>2, <3>1, <3>2
  <2>6. last \in Cursor /\ after <= last
    BY <1>2, <2>2 DEF Cursor
  <2>7. fitted # {}
    BY <2>2
  <2> QED BY <2>2, <2>3, <2>4, <2>5, <2>6, <2>7
<1> QED BY <1>3, <1>4
LEMMA DeltaFittedKeeps ==
  ASSUME ReadsIInv, asked.kind = "delta", asked.stage \in {"opening", "paging"},
         NEW c, c.after = asked.after, Walked(c.found, c.fixed, c.after, c.more, written),
         Reached(c), DeltaFitted(c)
  PROVE  ReadsIInv'
<1>1. LogOK /\ ClientFits(client) /\ asked.after = client.cursor /\ (epoch # 0 => client.epoch = epoch)
  BY DEF ReadsIInv, AskFits
<1>2. client.epoch = epoch
  <2>1. client.epoch \in Nat /\ client.epoch <= epoch
    BY <1>1 DEF ClientFits
  <2> QED BY <1>1, <2>1 DEF LogOK
<1>3. PICK log, after, fixed, got, more : /\ log = written /\ after = c.after /\ fixed = c.fixed
                                          /\ got = c.found /\ more = c.more
  OBVIOUS
<1>4. BoundedLog(log) /\ after \in Cursor /\ client.cursor = after
  BY <1>1, <1>3 DEF LogOK, ClientFits
<1>5. PICK found : found = {e \in c.found : e > c.after}
  OBVIOUS
<1>6. PICK delivered : delivered = NoMoreThan(EventLimit, found)
  OBVIOUS
<1>7. PICK through : through = Tip({c.after} \cup delivered)
  OBVIOUS
<1>8. AllBetween(delivered, through, after, fixed, log)
  <2>1. found = {e \in got : e > after}
    BY <1>3, <1>5
  <2>0. PICK limit \in Nat \ {0} : limit = EventLimit
    BY ReadsAssumption
  <2>2. delivered = Delivered(found, limit)
    BY <1>6, <2>0, NoMoreThanIsDelivered
  <2>3. through = TopOf({after} \cup delivered)
    BY <1>3, <1>7, TipIsTop
  <2>4. Walked(got, fixed, after, more, log)
    BY <1>3
  <2>5. Arrived(got, fixed, after, more)
    BY <1>3 DEF Reached, Arrived
  <2>6. BoundedLog(log) /\ after \in Cursor
    BY <1>4
  <2> QED BY ONLY <2>0, <2>1, <2>2, <2>3, <2>4, <2>5, <2>6, WalkIsExact
<1>9. PICK fitted \in HeadOf(delivered) : \E cut \in CutOf(fitted, delivered) :
        Send([type |-> "delta", epoch |-> epoch, after |-> c.after, last |-> c.fixed, events |-> fitted,
              through |-> Tip({c.after} \cup fitted), caughtUp |-> ~cut /\ through >= c.fixed,
              more |-> cut \/ through < c.fixed, baseline |-> FALSE, then |-> c.then], c.fixed)
  <2> DEFINE Out(sent, to) ==
        \E fitted \in HeadOf(sent) : \E cut \in CutOf(fitted, sent) :
          Send([type |-> "delta", epoch |-> epoch, after |-> c.after, last |-> c.fixed, events |-> fitted,
                through |-> Tip({c.after} \cup fitted), caughtUp |-> ~cut /\ to >= c.fixed,
                more |-> cut \/ to < c.fixed, baseline |-> FALSE, then |-> c.then], c.fixed)
  <2>1. \E sent \in {NoMoreThan(EventLimit, {e \in c.found : e > c.after})} :
          Out(sent, Tip({c.after} \cup sent))
    BY DEF DeltaFitted
  <2> HIDE DEF Out
  <2>2. Out(NoMoreThan(EventLimit, found), Tip({c.after} \cup NoMoreThan(EventLimit, found)))
    BY <1>5, <2>1
  <2>3. Out(delivered, through)
    BY <1>6, <1>7, <2>2
  <2> QED BY <2>3 DEF Out
<1>10. PICK cut \in CutOf(fitted, delivered) :
        Send([type |-> "delta", epoch |-> epoch, after |-> c.after, last |-> c.fixed, events |-> fitted,
              through |-> Tip({c.after} \cup fitted), caughtUp |-> ~cut /\ through >= c.fixed,
              more |-> cut \/ through < c.fixed, baseline |-> FALSE, then |-> c.then], c.fixed)
  BY <1>9
<1>11. PICK end : end = Tip({c.after} \cup fitted)
  OBVIOUS
<1>12. /\ fitted = {e \in log : after < e /\ e <= end}
       /\ end \in Cursor /\ after <= end /\ end <= through
       /\ ~cut => end = through
       /\ cut \/ through < fixed => fitted # {}
  <2>1. end = TopOf({after} \cup fitted)
    BY <1>3, <1>11, TipIsTop
  <2> QED BY <1>4, <1>8, <2>1, FittedIs
<1>13. PICK d : d = [type |-> "delta", epoch |-> epoch, after |-> c.after, last |-> c.fixed, events |-> fitted,
                     through |-> end, caughtUp |-> ~cut /\ through >= c.fixed,
                     more |-> cut \/ through < c.fixed, baseline |-> FALSE, then |-> c.then]
  OBVIOUS
<1>14. /\ d.type = "delta" /\ d.epoch = epoch /\ d.last = fixed /\ d.events = fitted /\ d.through = end
       /\ d.caughtUp <=> ~cut /\ through >= fixed
       /\ d.more <=> cut \/ through < fixed
       /\ d.baseline = FALSE
  BY <1>3, <1>13
<1>15. through \in Int /\ fixed \in Int /\ TopOf(log) \in Int /\ through <= fixed /\ fixed <= TopOf(log) /\ end \in Int
  BY <1>8, <1>12 DEF AllBetween, Cursor
<1>16. HonestDelta(d)
  BY <1>12, <1>14, <1>15 DEF HonestDelta
<1>17. d.through <= Tip(written) /\ fixed <= Tip(written)
  <2>1. Tip(written) = TopOf(log)
    BY <1>3, TipIsTop
  <2> QED BY <1>12, <1>14, <1>15, <2>1
<1>18. d.events = {e \in written : client.cursor < e /\ e <= d.through}
  BY <1>3, <1>4, <1>12, <1>14
<1>19. ResponseFits(d)
  BY <1>2, <1>4, <1>12, <1>14, <1>16, <1>17, <1>18 DEF ResponseFits, TypesOfResponse
<1>20. SeenFits(fixed)
  BY <1>8, <1>17 DEF SeenFits, AllBetween
<1>21. Send(d, fixed)
  BY <1>3, <1>10, <1>11, <1>13
<1> QED BY <1>19, <1>20, <1>21, SendKeeps

\* Nothing of the phone and of the log moves while it is asked for.
LEMMA AskAloneKeeps ==
  ASSUME ReadsIInv, UNCHANGED <<written, epoch, mark, client, answer>>, NEW a, asked' = a, AskFits(a)
  PROVE  ReadsIInv'
<1>1. LogOK' /\ MarkOfThisLog'
  BY DEF ReadsIInv, LogOK, MarkOfThisLog
<1>2. ClientFits(client)' /\ CopyFits(client)'
  BY DEF ReadsIInv, ClientFits, IsClient, CopyFits, CopyHas
<1>3. HonestDelta(answer)'
  BY DEF ReadsIInv, HonestDelta
<1>4. AskFits(asked)'
  BY DEF AskFits, IsAsk, Walked, Reached
<1> QED BY <1>1, <1>2, <1>3, <1>4 DEF ReadsIInv

\* A walk goes on, arrives or is given up.
LEMMA FurtherKeeps ==
  ASSUME ReadsIInv, asked.kind = "delta", asked.stage \in {"opening", "paging"},
         NEW c, IsAsk(c), c.stage = "paging", c.kind = "delta", c.after = asked.after, c.epoch = asked.epoch,
         Walked(c.found, c.fixed, c.after, c.more, written), Further(c)
  PROVE  ReadsIInv'
<1>1. CASE Reached(c)
  <2>1. DeltaFitted(c)
    BY <1>1 DEF Further
  <2> QED BY <1>1, <2>1, DeltaFittedKeeps
<1>2. CASE ~Reached(c) /\ c.pages >= ScanLimit
  <2>1. PICK last : last = c.fixed
    OBVIOUS
  <2>2. Recovers(last)
    BY <1>2, <2>1 DEF Further
  <2>3. SeenFits(last)
    <3>1. /\ last \in written \cup {-1} /\ written \in SUBSET Nat
          /\ TopOf(written) \in Cursor /\ \A e \in written : e <= TopOf(written)
      BY <2>1, TopOfLog DEF Walked, ReadsIInv, LogOK, BoundedLog
    <3>2. CASE last \in written
      BY <3>1, <3>2, TipIsTop DEF SeenFits, Cursor
    <3>3. CASE last = -1
      BY <3>1, <3>3, TipIsTop DEF SeenFits, Cursor
    <3> QED BY <3>1, <3>2, <3>3
  <2> QED BY <2>2, <2>3, RecoversKeeps
<1>3. CASE ~Reached(c) /\ ~(c.pages >= ScanLimit)
  <2>1. asked' = c /\ UNCHANGED <<written, epoch, mark, client, answer>>
    BY <1>3 DEF Further
  <2>2. AskFits(c)
    BY <1>3 DEF ReadsIInv, AskFits
  <2> QED BY <2>1, <2>2, AskAloneKeeps
<1> QED BY <1>1, <1>2, <1>3

LEMMA TipOfLog ==
  ASSUME LogOK
  PROVE  /\ written \in SUBSET Nat /\ Tip(written) \in Cursor /\ SeenFits(Tip(written))
         /\ \A e \in written : e <= Tip(written)
<1>1. TopOf(written) \in Cursor /\ \A e \in written : e <= TopOf(written)
  BY TopOfLog DEF LogOK
<1>2. Tip(written) = TopOf(written)
  BY TipIsTop
<1>3. TopOf(written) <= TopOf(written)
  BY <1>1 DEF Cursor
<1> QED BY <1>1, <1>2, <1>3 DEF SeenFits, LogOK, BoundedLog

\* What the host gives is all from some event on.
LEMMA ServedIs ==
  ASSUME NEW log, NEW r \in Served(log)
  PROVE  /\ r.found \in UpperParts(log)
         /\ ~r.more => r.found = log
         /\ r.more => r.found # {}
BY DEF Served, UpperParts

LEMMA DeltaOpensKeeps ==
  ASSUME ReadsIInv, DeltaOpens
  PROVE  ReadsIInv'
<1>1. /\ asked.stage = "opening" /\ asked.kind = "delta" /\ IsAsk(asked) /\ LogOK
      /\ asked.after = client.cursor /\ client.cursor \in Cursor
  BY DEF DeltaOpens, ReadsIInv, AskFits, ClientFits
<1>2. PICK tip : tip = Tip(written)
  OBVIOUS
<1>3. SeenFits(tip)
  BY <1>1, <1>2, TipOfLog
<1>4. CASE asked.after > tip
  <2>1. Recovers(tip)
    BY <1>2, <1>4 DEF DeltaOpens
  <2> QED BY <1>1, <1>3, <2>1, RecoversKeeps
<1>5. CASE ~(asked.after > tip)
  <2>1. PICK r \in Served(written) :
          Further([asked EXCEPT !.stage = "paging", !.fixed = tip, !.found = r.found, !.more = r.more])
    BY <1>2, <1>5 DEF DeltaOpens
  <2>2. PICK c : c = [asked EXCEPT !.stage = "paging", !.fixed = tip, !.found = r.found, !.more = r.more]
    OBVIOUS
  <2>3. /\ IsAsk(c) /\ c.stage = "paging" /\ c.kind = "delta" /\ c.after = asked.after /\ c.epoch = asked.epoch
        /\ c.found = r.found /\ c.fixed = tip /\ c.more = r.more
    BY <1>1, <2>2 DEF IsAsk
  <2>4. PICK log, got, after, more : log = written /\ got = r.found /\ after = asked.after /\ more = r.more
    OBVIOUS
  <2>5. tip = TopOf(log)
    BY <1>2, <2>4, TipIsTop
  <2>6. Walked(got, tip, after, more, log)
    <3>1. got \in UpperParts(log) /\ (~more => got = log)
      BY <2>1, <2>4, ServedIs
    <3>2. BoundedLog(log) /\ after \in Cursor /\ ~(after > TopOf(log))
      BY <1>1, <1>5, <2>4, <2>5 DEF LogOK
    <3> QED BY <2>5, <3>1, <3>2, WalkBegins
  <2>7. Walked(c.found, c.fixed, c.after, c.more, written)
    BY <2>3, <2>4, <2>6
  <2> QED BY <1>1, <2>1, <2>2, <2>3, <2>7, FurtherKeeps
<1> QED BY <1>4, <1>5

LEMMA DeltaPageKeeps ==
  ASSUME ReadsIInv, DeltaPage
  PROVE  ReadsIInv'
<1>1. /\ asked.stage = "paging" /\ asked.kind = "delta" /\ IsAsk(asked) /\ LogOK
      /\ asked.after = client.cursor /\ client.cursor \in Cursor
      /\ Walked(asked.found, asked.fixed, asked.after, asked.more, written) /\ ~Reached(asked)
  BY DEF DeltaPage, ReadsIInv, AskFits, ClientFits
<1>2. PICK had : had = asked.found
  OBVIOUS
<1>3. PICK left : left = Below(written, had)
  OBVIOUS
<1>4. had # {}
  <2>1. CASE asked.fixed = -1
    <3>1. ~(asked.after >= -1)
      BY <1>1, <2>1 DEF Reached
    <3> QED BY <1>1, <3>1 DEF Cursor
  <2>2. CASE asked.fixed # -1
    BY <1>1, <1>2, <2>2 DEF Walked
  <2> QED BY <2>1, <2>2
<1>5. PICK r \in Served(left) :
        Further([asked EXCEPT !.found = @ \cup r.found, !.more = r.more, !.pages = @ + 1])
  BY <1>2, <1>3 DEF DeltaPage, Below
<1>6. PICK c : c = [asked EXCEPT !.found = @ \cup r.found, !.more = r.more, !.pages = @ + 1]
  OBVIOUS
<1>7. /\ IsAsk(c) /\ c.stage = "paging" /\ c.kind = "delta" /\ c.after = asked.after /\ c.epoch = asked.epoch
      /\ c.found = had \cup r.found /\ c.fixed = asked.fixed /\ c.more = r.more
  BY <1>1, <1>2, <1>6 DEF IsAsk
<1>8. PICK log, entries, fixed, after, was, more :
        /\ log = written /\ entries = r.found /\ fixed = asked.fixed /\ after = asked.after
        /\ was = asked.more /\ more = r.more
  OBVIOUS
<1>9. Walked(had, fixed, after, was, log)
  BY <1>1, <1>2, <1>8
<1>10. entries \in UpperParts(left) /\ (~more => entries = left)
  BY <1>5, <1>8, ServedIs
<1>11. BoundedLog(log) /\ left = Below(log, had)
  BY <1>1, <1>3, <1>8 DEF LogOK
<1>12. Walked(had \cup entries, fixed, after, more, log)
  BY ONLY <1>4, <1>9, <1>10, <1>11, WalkExtends
<1>13. Walked(c.found, c.fixed, c.after, c.more, written)
  BY <1>7, <1>8, <1>12
<1> QED BY <1>1, <1>5, <1>6, <1>7, <1>13, FurtherKeeps

LEMMA UnusableKeeps ==
  ASSUME ReadsIInv, OpeningUnusable \/ PageUnusable
  PROVE  ReadsIInv'
<1>1. CASE OpeningUnusable
  <2>1. asked.stage = "opening" /\ asked.kind = "delta" /\ Recovers(asked.after)
    BY <1>1 DEF OpeningUnusable
  <2>2. PICK last : last = asked.after
    OBVIOUS
  <2>3. SeenFits(last)
    <3>1. last = client.cursor /\ (epoch # 0 => client.epoch = epoch) /\ ClientFits(client)
      BY <2>1, <2>2 DEF ReadsIInv, AskFits
    <3> QED BY <3>1 DEF SeenFits, ClientFits
  <2> QED BY <2>1, <2>2, <2>3, RecoversKeeps
<1>2. CASE asked.stage = "opening" /\ asked.kind = "delta" /\ Recovers(Tip(written))
  <2>1. PICK last : last = Tip(written)
    OBVIOUS
  <2>2. SeenFits(last)
    BY <2>1, TipOfLog DEF ReadsIInv
  <2> QED BY <1>2, <2>1, <2>2, RecoversKeeps
<1>3. CASE asked.stage = "paging" /\ Recovers(asked.fixed)
  <2>1. PICK last : last = asked.fixed
    OBVIOUS
  <2>2. LogOK /\ asked.kind = "delta" /\ last \in written \cup {-1}
    BY <1>3, <2>1 DEF ReadsIInv, AskFits, Walked
  <2>3. /\ written \in SUBSET Nat /\ Tip(written) \in Cursor
        /\ \A e \in written : e <= Tip(written)
    BY <2>2, TipOfLog
  <2>4. SeenFits(last)
    <3>1. CASE last \in written
      BY <2>3, <3>1 DEF SeenFits, Cursor
    <3>2. CASE last = -1
      BY <2>3, <3>2 DEF SeenFits, Cursor
    <3> QED BY <2>2, <3>1, <3>2
  <2> QED BY <1>3, <2>1, <2>2, <2>4, RecoversKeeps
<1> QED BY <1>1, <1>2, <1>3 DEF PageUnusable
-----------------------------------------------------------------------------
(* History.                                                                 *)

LEMMA PageIs ==
  ASSUME NEW log \in SUBSET Nat, NEW part \in UpperParts(log), NEW fitted \in TailOf(part),
         NEW cut \in CutOf(fitted, part), NEW more \in BOOLEAN, ~more => part = log, more => part # {}
  PROVE  /\ fitted \subseteq log
         /\ more \/ cut => fitted # {}
         /\ \A e \in log : e \notin fitted => (more \/ cut) /\ \A h \in fitted : e < h
<1>1. /\ part \subseteq log
      /\ \A d \in log : (\E e \in part : e <= d) => d \in part
  BY UpperPart
<1>2. CASE part = {}
  <2>1. fitted = {}
    BY <1>2 DEF TailOf
  <2>2. cut = FALSE
    BY <1>2, <2>1 DEF CutOf
  <2> QED BY <1>2, <2>1, <2>2
<1>3. CASE part # {}
  <2>1. PICK first \in part : fitted = {e \in part : e >= first}
    BY <1>3 DEF TailOf
  <2>2. first \in fitted /\ first \in Nat /\ \A e \in log : e \in Nat
    BY <1>1, <2>1
  <2>3. fitted \subseteq log
    BY <1>1, <2>1
  <2>4. ASSUME NEW e \in log, e \notin fitted PROVE (more \/ cut) /\ \A h \in fitted : e < h
    <3>1. more \/ cut
      <4>1. ASSUME ~cut PROVE fitted = part
        BY <4>1 DEF CutOf
      <4> QED BY <2>4, <4>1
    <3>2. ASSUME NEW h \in fitted PROVE e < h
      <4>1. h \in part /\ h \in Nat /\ e \in Nat /\ h >= first
        BY <1>1, <2>1, <2>2
      <4>2. CASE h <= e
        <5>1. e \in part /\ e >= first
          BY <1>1, <2>2, <4>1, <4>2
        <5> QED BY <2>1, <2>4, <5>1
      <4>3. CASE ~(h <= e)
        BY <4>1, <4>3
      <4> QED BY <4>2, <4>3
    <3> QED BY <3>1, <3>2
  <2> QED BY <2>2, <2>3, <2>4
<1> QED BY <1>2, <1>3

\* A page that is sent.
LEMMA PageOfKeeps ==
  ASSUME ReadsIInv, NEW r \in Served({e \in written : asked.before # -1 => e < asked.before}),
         PageOf(r.found, r.more),
         asked.before # -1 => client.more /\ asked.before = Min(client.held) /\ (epoch # 0 => client.epoch = epoch)
  PROVE  ReadsIInv'
<1>1. LogOK /\ written \in SUBSET Nat
  BY DEF ReadsIInv, LogOK, BoundedLog
<1>2. PICK log, part, more : /\ log = {e \in written : asked.before # -1 => e < asked.before}
                             /\ part = r.found /\ more = r.more
  OBVIOUS
<1>3. PICK fitted \in TailOf(part) : \E cut \in CutOf(fitted, part) :
        Send([type |-> "page", epoch |-> epoch, before |-> asked.before, events |-> fitted,
              more |-> more \/ cut], IF asked.before = -1 THEN Tip(written) ELSE NoMark)
  BY <1>2 DEF PageOf
<1>4. PICK cut \in CutOf(fitted, part) :
        Send([type |-> "page", epoch |-> epoch, before |-> asked.before, events |-> fitted,
              more |-> more \/ cut], IF asked.before = -1 THEN Tip(written) ELSE NoMark)
  BY <1>3
<1>5. /\ fitted \subseteq log
      /\ more \/ cut => fitted # {}
      /\ \A e \in log : e \notin fitted => (more \/ cut) /\ \A h \in fitted : e < h
  <2>1. log \in SUBSET Nat
    BY <1>1, <1>2
  <2>2. part \in UpperParts(log) /\ (~more => part = log) /\ (more => part # {})
    BY <1>2, ServedIs
  <2>3. more \in BOOLEAN
    BY <1>2 DEF Served
  <2>4. fitted \in TailOf(part) /\ cut \in CutOf(fitted, part)
    OBVIOUS
  <2> QED BY ONLY <2>1, <2>2, <2>3, <2>4, PageIs
<1>6. PICK d : d = [type |-> "page", epoch |-> epoch, before |-> asked.before, events |-> fitted, more |-> more \/ cut]
  OBVIOUS
<1>7. PICK seen : seen = IF asked.before = -1 THEN Tip(written) ELSE NoMark
  OBVIOUS
<1>8. SeenFits(seen)
  BY <1>1, <1>7, TipOfLog, NothingSeen
<1>9. /\ d.type = "page" /\ d.epoch = epoch /\ d.before = asked.before /\ d.events = fitted
      /\ d.more <=> more \/ cut
  BY <1>6
<1>10. /\ d.events \subseteq written
       /\ \A e \in d.events : d.before # -1 => e < d.before
       /\ \A e \in written : (d.before # -1 => e < d.before) /\ e \notin d.events =>
            d.more /\ \A h \in d.events : e < h
  BY <1>2, <1>5, <1>9
<1>11. d.more => d.events # {}
  BY <1>5, <1>9
<1>12. ResponseFits(d)
  BY <1>9, <1>10, <1>11 DEF ResponseFits, HonestDelta, TypesOfResponse
<1>13. Send(d, seen)
  BY <1>4, <1>6, <1>7
<1> QED BY <1>8, <1>12, <1>13, SendKeeps

LEMMA HistoryOpensKeeps ==
  ASSUME ReadsIInv, HistoryOpens
  PROVE  ReadsIInv'
<1>1. asked.before = -1
  BY DEF HistoryOpens, ReadsIInv, AskFits
<1>2. written = {e \in written : asked.before # -1 => e < asked.before}
  BY <1>1
<1>3. PICK r \in Served(written) : PageOf(r.found, r.more)
  BY DEF HistoryOpens
<1>4. r \in Served({e \in written : asked.before # -1 => e < asked.before})
  BY <1>2, <1>3
<1> QED BY <1>1, <1>3, <1>4, PageOfKeeps

LEMMA OlderPageKeeps ==
  ASSUME ReadsIInv, OlderPage
  PROVE  ReadsIInv'
<1>1. /\ client.more /\ asked.before = Min(client.held) /\ (epoch # 0 => client.epoch = epoch)
      /\ ClientFits(client)
  BY DEF OlderPage, ReadsIInv, AskFits
<1>2. asked.before # -1
  <2>1. client.held \in SUBSET Nat /\ client.held # {}
    BY <1>1 DEF ClientFits
  <2>2. Min(client.held) \in Nat
    BY <2>1, OldestIs
  <2> QED BY <1>1, <2>2
<1>3. {e \in written : e < asked.before} = {e \in written : asked.before # -1 => e < asked.before}
  BY <1>2
<1>4. PICK r \in Served({e \in written : e < asked.before}) : PageOf(r.found, r.more)
  BY DEF OlderPage
<1>5. r \in Served({e \in written : asked.before # -1 => e < asked.before})
  BY <1>3, <1>4
<1> QED BY <1>1, <1>4, <1>5, PageOfKeeps

LEMMA OlderOpensKeeps ==
  ASSUME ReadsIInv, OlderOpens
  PROVE  ReadsIInv'
<1>1. UNCHANGED <<written, epoch, mark, client, answer>> /\ asked.stage = "opening" /\ asked.kind = "older"
  BY DEF OlderOpens
<1>2. PICK a : a = [asked EXCEPT !.stage = "older"]
  OBVIOUS
<1>3. AskFits(asked)
  BY DEF ReadsIInv
<1>4. /\ a.stage = "older" /\ a.kind = asked.kind /\ a.epoch = asked.epoch /\ a.before = asked.before /\ IsAsk(a)
  BY <1>2, <1>3 DEF AskFits, IsAsk
<1>5. AskFits(a)
  BY <1>1, <1>3, <1>4 DEF AskFits
<1>6. asked' = a
  BY <1>2 DEF OlderOpens
<1> QED BY <1>1, <1>5, <1>6, AskAloneKeeps

-----------------------------------------------------------------------------
(* The requests.                                                            *)

LEMMA AskKeeps ==
  ASSUME ReadsIInv, NEW kind \in {"delta", "history", "older", "snapshot"}, Ask(kind)
  PROVE  ReadsIInv'
<1>1. UNCHANGED <<written, epoch, mark, client, answer>> /\ (kind = "older" => client.more)
  BY DEF Ask
<1>2. PICK a : a = [NoAsk EXCEPT !.stage = "body", !.kind = kind, !.epoch = client.epoch, !.then = Tip(written),
                       !.after = IF kind = "delta" THEN client.cursor ELSE -1,
                       !.before = IF kind = "older" THEN Min(client.held) ELSE -1]
  OBVIOUS
<1>3. /\ a.stage = "body" /\ a.kind = kind /\ a.epoch = client.epoch /\ IsAsk(a)
      /\ a.after = IF kind = "delta" THEN client.cursor ELSE -1
      /\ a.before = IF kind = "older" THEN Min(client.held) ELSE -1
  BY <1>2 DEF NoAsk, IsAsk
<1>4. AskFits(a)
  BY <1>1, <1>3 DEF AskFits
<1>5. asked' = a
  BY <1>2 DEF Ask
<1> QED BY <1>1, <1>4, <1>5, AskAloneKeeps

LEMMA UnansweredKeeps ==
  ASSUME ReadsIInv, Unanswered \/ HangsUp
  PROVE  ReadsIInv'
<1>1. UNCHANGED <<written, epoch, mark, client, answer>>
  BY DEF Unanswered, HangsUp
<1>2. PICK stage \in {"idle", "lost"} : asked' = [NoAsk EXCEPT !.stage = stage]
  <2>1. NoAsk = [NoAsk EXCEPT !.stage = "idle"]
    BY DEF NoAsk
  <2> QED BY <2>1 DEF Unanswered, HangsUp
<1>3. PICK a : a = [NoAsk EXCEPT !.stage = stage]
  OBVIOUS
<1>4. a.stage = stage /\ a.kind = "none" /\ IsAsk(a)
  BY <1>3 DEF NoAsk, IsAsk
<1>5. AskFits(a)
  BY <1>4 DEF AskFits
<1> QED BY <1>1, <1>2, <1>3, <1>5, AskAloneKeeps

LEMMA EpochRefusedKeeps ==
  ASSUME ReadsIInv, EpochRefused
  PROVE  ReadsIInv'
<1>1. PICK d, n : d = [type |-> "epoch", epoch |-> epoch] /\ n = NoMark
  OBVIOUS
<1>2. ResponseFits(d)
  BY <1>1 DEF ResponseFits, HonestDelta, TypesOfResponse
<1>3. SeenFits(n)
  BY <1>1, NothingSeen DEF ReadsIInv
<1>4. Send(d, n)
  BY <1>1 DEF EpochRefused
<1> QED BY <1>2, <1>3, <1>4, SendKeeps

LEMMA SnapshotAnswersKeeps ==
  ASSUME ReadsIInv, SnapshotAnswers
  PROVE  ReadsIInv'
<1>1. PICK d, n : d = [type |-> "snapshot", epoch |-> epoch, row |-> Row] /\ n = NoMark
  OBVIOUS
<1>2. ResponseFits(d)
  BY <1>1 DEF ResponseFits, HonestDelta, TypesOfResponse
<1>3. SeenFits(n)
  BY <1>1, NothingSeen DEF ReadsIInv
<1>4. Send(d, n)
  BY <1>1 DEF SnapshotAnswers
<1> QED BY <1>2, <1>3, <1>4, SendKeeps

\* What goes on from a cursor is let in with the epoch of the host alone.
LEMMA DecodedKeeps ==
  ASSUME ReadsIInv, Decoded
  PROVE  ReadsIInv'
<1>1. UNCHANGED <<written, epoch, mark, client, answer>> /\ EpochFits
  BY DEF Decoded
<1>2. PICK stage : stage = IF asked.kind = "snapshot" THEN "listing" ELSE "opening"
  OBVIOUS
<1>3. PICK a : a = [asked EXCEPT !.stage = stage]
  OBVIOUS
<1>4. AskFits(asked)
  BY DEF ReadsIInv
<1>5. /\ a.stage = stage /\ a.kind = asked.kind /\ a.epoch = asked.epoch /\ a.before = asked.before
      /\ a.after = asked.after /\ IsAsk(a)
  BY <1>3, <1>4 DEF AskFits, IsAsk
<1>6. epoch # 0 /\ asked.kind \in {"delta", "older"} => asked.epoch = epoch
  BY <1>1 DEF EpochFits, Continues
<1>7. AskFits(a)
  BY <1>2, <1>4, <1>5, <1>6 DEF AskFits
<1>8. asked' = a
  BY <1>2, <1>3 DEF Decoded
<1> QED BY <1>1, <1>7, <1>8, AskAloneKeeps

-----------------------------------------------------------------------------
(* The log and the process around it.                                       *)

LEMMA LogAppendsKeeps ==
  ASSUME ReadsIInv, LogAppends
  PROVE  ReadsIInv'
<1>0. /\ LogOK /\ MarkOfThisLog /\ ClientFits(client) /\ CopyFits(client) /\ AskFits(asked)
      /\ HonestDelta(answer)
  BY DEF ReadsIInv
<1>1. PICK n \in Tip(written) + 1..MaxWritten : written' = written \cup {n}
  BY DEF LogAppends
<1>2. UNCHANGED <<life, epoch, mark, client, asked, answer, asks>>
  BY DEF LogAppends
<1>3. Tip(written) = TopOf(written) /\ BoundedLog(written)
  BY <1>0, TipIsTop DEF LogOK
<1>4. TopOf(written) \in Cursor /\ \A e \in written : e <= TopOf(written)
  BY <1>3, TopOfLog
<1>5. n \in Int /\ TopOf(written) < n
  <2>1. MaxWritten \in Int
    BY ReadsAssumption
  <2> QED BY <1>3, <1>4, <2>1 DEF Cursor
<1>6. n \in Nat /\ BoundedLog(written \cup {n}) /\ TopOf(written \cup {n}) = n
  BY <1>3, <1>5, TopGrows
<1>7. Tip(written') = n /\ Tip(written)' = n
  <2>1. Tip(written \cup {n}) = n
    BY <1>6, TipIsTop
  <2> QED BY <1>1, <2>1 DEF Tip
<1>8. \A e \in written' : e <= TopOf(written) => e \in written
  BY <1>1, <1>4, <1>5 DEF Cursor
<1>9. LogOK'
  BY <1>0, <1>1, <1>2, <1>6 DEF LogOK
<1>10. MarkOfThisLog'
  <2>1. ASSUME epoch # 0 PROVE mark <= n
    <3>1. mark <= TopOf(written) /\ mark \in Int
      BY <1>0, <1>3, <2>1 DEF MarkOfThisLog, LogOK, NoMark, Cursor
    <3> QED BY <1>4, <1>5, <3>1 DEF Cursor
  <2> QED BY <1>2, <1>7, <2>1 DEF MarkOfThisLog
<1>11. ClientFits(client)'
  <2>1. ASSUME epoch # 0, client.epoch = epoch PROVE client.cursor <= n
    <3>1. client.cursor <= TopOf(written) /\ client.cursor \in Int
      BY <1>0, <1>3, <2>1 DEF ClientFits, Cursor
    <3> QED BY <1>4, <1>5, <3>1 DEF Cursor
  <2> QED BY <1>0, <1>2, <1>7, <2>1 DEF ClientFits, IsClient
<1>12. CopyFits(client)'
  <2>1. ASSUME epoch # 0, client.epoch = epoch PROVE CopyHas(client, written')
    <3>1. CopyHas(client, written) /\ client.cursor \in Cursor /\ client.cursor <= TopOf(written)
      BY <1>0, <1>3, <2>1 DEF CopyFits, ClientFits
    <3>2. ASSUME NEW e \in written', e <= client.cursor PROVE e \in written
      <4>1. e \in Int /\ client.cursor \in Int /\ TopOf(written) \in Int
        BY <1>0, <1>1, <1>4, <1>5, <3>1 DEF LogOK, BoundedLog, Cursor
      <4>2. e <= TopOf(written)
        BY <3>1, <3>2, <4>1
      <4> QED BY <1>8, <4>2
    <3> QED BY <1>1, <3>1, <3>2 DEF CopyHas
  <2> QED BY <1>2, <2>1 DEF CopyFits, CopyHas
<1>13. AskFits(asked)'
  <2>1. ASSUME asked.stage = "paging"
        PROVE  Walked(asked.found, asked.fixed, asked.after, asked.more, written') /\ ~Reached(asked)
    <3>1. Walked(asked.found, asked.fixed, asked.after, asked.more, written) /\ ~Reached(asked)
      BY <1>0, <2>1 DEF AskFits
    <3>2. PICK got, fixed, after, more, log, grown :
            /\ got = asked.found /\ fixed = asked.fixed /\ after = asked.after /\ more = asked.more
            /\ log = written /\ grown = written'
      OBVIOUS
    <3>3. Walked(got, fixed, after, more, log)
      BY <3>1, <3>2
    <3>4. BoundedLog(log) /\ grown \in SUBSET Nat /\ log \subseteq grown
      BY <1>1, <1>3, <1>6, <3>2 DEF BoundedLog
    <3>5. \A e \in grown : e <= TopOf(log) => e \in log
      BY <1>8, <3>2
    <3>6. Walked(got, fixed, after, more, grown)
      BY ONLY <3>3, <3>4, <3>5, WalkStays
    <3> QED BY <3>1, <3>2, <3>6
  <2>2. Walked(asked.found, asked.fixed, asked.after, asked.more, written)' <=>
          Walked(asked.found, asked.fixed, asked.after, asked.more, written')
    BY <1>2 DEF Walked
  <2>3. Reached(asked)' <=> Reached(asked)
    BY <1>2 DEF Reached
  <2> QED BY <1>0, <1>2, <2>1, <2>2, <2>3 DEF AskFits, IsAsk
<1>14. HonestDelta(answer)'
  BY <1>0, <1>2 DEF HonestDelta
<1> QED BY <1>9, <1>10, <1>11, <1>12, <1>13, <1>14 DEF ReadsIInv

LEMMA EventSeenKeeps ==
  ASSUME ReadsIInv, EventSeen
  PROVE  ReadsIInv'
<1>0. /\ LogOK /\ MarkOfThisLog /\ ClientFits(client) /\ CopyFits(client) /\ AskFits(asked)
      /\ HonestDelta(answer)
  BY DEF ReadsIInv
<1>1. PICK n \in written : mark' = Watermark(n)
  BY DEF EventSeen
<1>2. UNCHANGED <<written, life, epoch, client, asked, answer, asks>>
  BY DEF EventSeen
<1>3. SeenFits(n)
  <2>1. n \in Nat /\ n <= Tip(written)
    BY <1>0, TipOfLog
  <2> QED BY <2>1 DEF SeenFits, Cursor
<1>4. LogOK' /\ MarkOfThisLog'
  BY <1>0, <1>1, <1>2, <1>3, MarkMoves
<1>5. ClientFits(client)' /\ CopyFits(client)'
  BY <1>0, <1>2 DEF ClientFits, IsClient, CopyFits, CopyHas
<1>6. AskFits(asked)'
  BY <1>0, <1>2 DEF AskFits, IsAsk, Walked, Reached
<1>7. HonestDelta(answer)'
  BY <1>0, <1>2 DEF HonestDelta
<1> QED BY <1>4, <1>5, <1>6, <1>7 DEF ReadsIInv

\* Another log has another epoch, which no phone knows of yet.
LEMMA RestartKeeps ==
  ASSUME ReadsIInv, Restart
  PROVE  ReadsIInv'
<1>0. LogOK /\ ClientFits(client) /\ CopyFits(client)
  BY DEF ReadsIInv
<1>1. mark' = NoMark /\ asked' = NoAsk /\ answer' = Declined /\ UNCHANGED client
  BY DEF Restart
<1>2. BoundedLog(written')
  <2>1. ASSUME NEW log \in {{}, {0}, {0, 1}} PROVE BoundedLog(log)
    <3>1. log \in SUBSET Nat /\ \A e \in log : e <= 1
      BY <2>1
    <3> QED BY <3>1 DEF BoundedLog
  <2>2. written' = written \/ written' \in {{}, {0}, {0, 1}}
    BY DEF Restart
  <2> QED BY <1>0, <2>1, <2>2 DEF LogOK
<1>3. epoch' \in Nat /\ epoch <= epoch'
      /\ ((written' = written /\ epoch' = epoch) \/ epoch' = 0 \/ client.epoch < epoch')
  <2>1. epoch \in Nat /\ client.epoch \in Nat /\ client.epoch <= epoch
    BY <1>0 DEF LogOK, ClientFits
  <2> QED BY <2>1 DEF Restart
<1>4. LogOK'
  BY <1>1, <1>2, <1>3 DEF LogOK
<1>5. MarkOfThisLog'
  <2>1. NoMark <= Tip(written')
    <3>1. TopOf(written') \in Cursor
      BY <1>2, TopOfLog
    <3>2. Tip(written') = TopOf(written')
      BY TipIsTop
    <3> QED BY <3>1, <3>2 DEF NoMark, Cursor
  <2> QED BY <1>1, <2>1 DEF MarkOfThisLog, Tip
<1>6. ClientFits(client)' /\ CopyFits(client)'
  <2>1. client.epoch \in Nat /\ client.epoch <= epoch'
    BY <1>0, <1>3 DEF ClientFits, LogOK
  <2>2. CASE written' = written /\ epoch' = epoch
    BY <1>0, <1>1, <2>2 DEF ClientFits, IsClient, CopyFits, CopyHas, Tip
  <2>3. CASE epoch' = 0
    BY <1>0, <1>1, <2>1, <2>3 DEF ClientFits, IsClient, CopyFits
  <2>4. CASE client.epoch < epoch'
    <3>1. client.epoch # epoch'
      BY <1>3, <2>1, <2>4
    <3> QED BY <1>0, <1>1, <2>1, <3>1 DEF ClientFits, IsClient, CopyFits
  <2> QED BY <1>3, <2>2, <2>3, <2>4
<1>7. AskFits(asked)'
  <2>1. PICK a : a = [NoAsk EXCEPT !.stage = "idle"]
    OBVIOUS
  <2>2. asked' = a
    BY <1>1, <2>1 DEF NoAsk
  <2>3. AskFits(a)'
    BY <2>1, NoAskFits
  <2> QED BY <2>2, <2>3
<1>8. HonestDelta(answer)'
  BY <1>1 DEF HonestDelta, Declined
<1> QED BY <1>4, <1>5, <1>6, <1>7, <1>8 DEF ReadsIInv

-----------------------------------------------------------------------------
LEMMA ReadsInitially ==
  ASSUME ReadsInit
  PROVE  ReadsIInv
<1>1. /\ written = {0} /\ epoch \in {0, 1} /\ mark = NoMark /\ client = Blank(0)
      /\ asked = NoAsk /\ answer = Declined
  BY DEF ReadsInit
<1>2. LogOK
  BY <1>1 DEF LogOK, BoundedLog
<1>3. Tip(written) \in Cursor
  BY <1>2, TipOfLog
<1>4. MarkOfThisLog
  BY <1>1, <1>3 DEF MarkOfThisLog, NoMark, Cursor
<1>5. ClientFits(client)
  BY <1>1, <1>3 DEF ClientFits, IsClient, Blank, Cursor
<1>6. CopyFits(client)
  BY <1>1 DEF CopyFits, Blank
<1>7. AskFits(asked)
  BY <1>1 DEF NoAsk, AskFits, IsAsk
<1>8. HonestDelta(answer)
  BY <1>1 DEF Declined, HonestDelta
<1> QED BY <1>2, <1>4, <1>5, <1>6, <1>7, <1>8 DEF ReadsIInv

LEMMA ReadsStep ==
  ASSUME ReadsIInv, [ReadsNext]_readVars
  PROVE  ReadsIInv'
<1>1. CASE LogAppends \/ EventSeen \/ Restart
  BY <1>1, LogAppendsKeeps, EventSeenKeeps, RestartKeeps
<1>2. ASSUME NEW kind \in {"delta", "history", "older", "snapshot"}, Ask(kind) PROVE ReadsIInv'
  BY <1>2, AskKeeps
<1>3. CASE Rejected \/ Expires \/ Fails
  <2>1. Send(Declined, NoMark)
    BY <1>3 DEF Rejected, Expires, Fails
  <2> QED BY <2>1, DeclineKeeps
<1>4. CASE Unanswered \/ HangsUp
  BY <1>4, UnansweredKeeps
<1>5. CASE EpochRefused \/ Decoded \/ SnapshotAnswers
  BY <1>5, EpochRefusedKeeps, DecodedKeeps, SnapshotAnswersKeeps
<1>6. CASE DeltaOpens \/ DeltaPage \/ OpeningUnusable \/ PageUnusable
  BY <1>6, DeltaOpensKeeps, DeltaPageKeeps, UnusableKeeps
<1>7. CASE HistoryOpens \/ OlderOpens \/ OlderPage
  BY <1>7, HistoryOpensKeeps, OlderOpensKeeps, OlderPageKeeps
<1>8. CASE UNCHANGED readVars
  <2>1. UNCHANGED <<written, epoch, mark, client, answer>> /\ asked' = asked
    BY <1>8 DEF readVars
  <2>2. PICK a : a = asked
    OBVIOUS
  <2>3. AskFits(a)
    BY <2>2 DEF ReadsIInv
  <2> QED BY <2>1, <2>2, <2>3, AskAloneKeeps
<1> QED BY <1>1, <1>2, <1>3, <1>4, <1>5, <1>6, <1>7, <1>8 DEF ReadsNext

\* The phone, its request and the watermark agree with the log of the epoch they are of.
THEOREM ReadsInvariantHolds == ReadsSpec => []ReadsIInv
<1>1. ReadsInit => ReadsIInv
  BY ReadsInitially
<1>2. ReadsIInv /\ [ReadsNext]_readVars => ReadsIInv'
  BY ReadsStep
<1> QED BY <1>1, <1>2, PTL DEF ReadsSpec

\* The v3 reads of the mobile stream service give a phone no hole and nothing of another
\* log, a delta says that nothing is missing only when nothing is, and no cursor of another
\* log becomes a watermark.
THEOREM ReadsAreSound == ReadsSpec => []ReadsSound
<1>1. ReadsIInv => ReadsSound
  <2> SUFFICES ASSUME ReadsIInv PROVE ReadsSound
    OBVIOUS
  <2>1. MarkOfThisLog /\ CopyFits(client) /\ HonestDelta(answer)
    BY DEF ReadsIInv
  <2>2. CopyOfThisLog
    BY <2>1 DEF CopyOfThisLog, CopyFits, CopyHas
  <2>3. DeltaHonest
    BY <2>1 DEF DeltaHonest, HonestDelta
  <2> QED BY <2>1, <2>2, <2>3 DEF ReadsSound
<1> QED BY <1>1, ReadsInvariantHolds, PTL
-----------------------------------------------------------------------------
(* The Android copy.                                                        *)

\* The last event of each log, and how far the mux stream has told of it.
LogEndsOK ==
  /\ DOMAIN top = AndroidSessions /\ DOMAIN muxTold = AndroidSessions
  /\ \A s \in AndroidSessions : top[s] \in Cursor /\ muxTold[s] \in Int /\ muxTold[s] <= top[s]

\* A sequence that is known of a log is in it.
KnownOf(w, end) ==
  w = [lastSeq |-> w.lastSeq, source |-> w.source] /\ w.lastSeq \in Int /\ w.lastSeq <= end

WatermarksOK ==
  /\ DOMAIN watermarks = AndroidSessions
  /\ \A s \in AndroidSessions : KnownOf(watermarks[s], top[s])

ColdReadOK(c, ends) ==
  \/ c = NoTail
  \/ \E s \in AndroidSessions :
       c = [session |-> {s}, lastSeq |-> c.lastSeq] /\ c.lastSeq \in Int /\ c.lastSeq <= ends[s]

ColdOK == coldQueue \in Seq(AndroidSessions) /\ ColdReadOK(coldTail, top)

IsRead(r) ==
  r = [kind |-> r.kind, session |-> r.session, after |-> r.after, limit |-> r.limit,
       from |-> r.from, tail |-> r.tail, pages |-> r.pages]

\* A walk that goes on has read back from its live tail to an event behind the phone's cursor.
WalkedBack(r, end) ==
  r.tail # Unknown =>
    r.tail \in Nat /\ r.tail <= end /\ r.from \in Nat \ {0} /\ r.after < r.from /\ r.from <= r.tail

ReadInProgress(r, ends) ==
  /\ IsRead(r)
  /\ r.kind # "none" =>
       /\ \E s \in AndroidSessions : r.session = {s} /\ WalkedBack(r, ends[s])
       /\ r.after \in Cursor /\ r.limit \in Nat /\ r.pages \in Nat

-----------------------------------------------------------------------------
(* Intervals of sequences, and what of them fits an answer.                 *)

LEMMA IntervalIs ==
  ASSUME NEW a \in Int, NEW b \in Int
  PROVE  /\ SeqInterval(a, b) \in Seq(Int)
         /\ Len(SeqInterval(a, b)) = IF b < a THEN 0 ELSE b - a + 1
         /\ \A i \in 1..Len(SeqInterval(a, b)) : SeqInterval(a, b)[i] = a + i - 1
<1> DEFINE n == IF b < a THEN 0 ELSE b - a + 1
<1>1. n \in Nat
  OBVIOUS
<1>2. SeqInterval(a, b) = [i \in 1..n |-> a + i - 1]
  BY DEF SeqInterval
<1>3. SeqInterval(a, b) \in [1..n -> Int]
  BY <1>1, <1>2
<1>4. SeqInterval(a, b) \in Seq(Int)
  BY <1>1, <1>3
<1>5. Len(SeqInterval(a, b)) = n
  BY <1>1, <1>3
<1> QED BY <1>2, <1>4, <1>5

CountsFrom(t, a) == \A i \in 1..Len(t) : t[i] = a + i - 1

LEMMA IntervalAs ==
  ASSUME NEW a \in Int, NEW b \in Int, NEW t, t = SeqInterval(a, b)
  PROVE  /\ t \in Seq(Int) /\ Len(t) \in Nat
         /\ b < a => Len(t) = 0
         /\ b >= a => Len(t) = b - a + 1
         /\ CountsFrom(t, a)
<1>1. /\ t \in Seq(Int) /\ Len(t) = IF b < a THEN 0 ELSE b - a + 1
      /\ \A i \in 1..Len(t) : t[i] = a + i - 1
  BY IntervalIs
<1>2. Len(t) \in Nat /\ (b < a => Len(t) = 0) /\ (b >= a => Len(t) = b - a + 1)
  BY <1>1
<1> QED BY <1>1, <1>2 DEF CountsFrom

LEMMA IsInterval ==
  ASSUME NEW a \in Int, NEW n \in Nat, NEW s \in Seq(Int), Len(s) = n,
         \A i \in 1..n : s[i] = a + i - 1
  PROVE  s = SeqInterval(a, a + n - 1)
<1>1. SeqInterval(a, a + n - 1) = [i \in 1..n |-> a + i - 1]
  <2>1. (IF a + n - 1 < a THEN 0 ELSE a + n - 1 - a + 1) = n
    OBVIOUS
  <2> QED BY <2>1 DEF SeqInterval
<1>2. s = [i \in 1..n |-> s[i]]
  OBVIOUS
<1> QED BY <1>1, <1>2

LEMMA FrontOfInterval ==
  ASSUME NEW a \in Int, NEW b \in Int, NEW n \in 0..Len(SeqInterval(a, b))
  PROVE  SubSeq(SeqInterval(a, b), 1, n) = SeqInterval(a, a + n - 1)
<1> DEFINE t == SeqInterval(a, b)
           s == SubSeq(t, 1, n)
<1>0. n \in 0..Len(t)
  OBVIOUS
<1>1. /\ t \in Seq(Int) /\ Len(t) \in Nat
      /\ \A i \in 1..Len(t) : t[i] = a + i - 1
  <2>1. t \in Seq(Int) /\ \A i \in 1..Len(t) : t[i] = a + i - 1
    BY IntervalIs
  <2> HIDE DEF t
  <2> QED BY <2>1
<1> HIDE DEF t
<1>2. \A i \in 1..n : t[i] \in Int
  <2>1. \A i \in 1..n : i \in 1..Len(t)
    BY <1>0, <1>1
  <2> QED BY <2>1, <1>1
<1>3. n \in Int /\ n \in Nat
  BY <1>0, <1>1
<1>4. /\ s \in Seq(Int) /\ Len(s) = IF 1 <= n THEN n - 1 + 1 ELSE 0
      /\ \A i \in 1..n - 1 + 1 : s[i] = t[1 + i - 1]
  BY <1>2, <1>3, SubSeqProperties
<1> HIDE DEF s
<1>5. Len(s) = n
  BY <1>3, <1>4
<1>6. \A i \in 1..n : s[i] = a + i - 1
  <2> SUFFICES ASSUME NEW i \in 1..n PROVE s[i] = a + i - 1
    OBVIOUS
  <2>1. i \in 1..n - 1 + 1 /\ 1 + i - 1 = i /\ i \in 1..Len(t)
    BY <1>1, <1>3 DEF t
  <2> QED BY <2>1, <1>1, <1>4
<1>7. s = SeqInterval(a, a + n - 1)
  BY <1>3, <1>4, <1>5, <1>6, IsInterval
<1> QED BY <1>7 DEF s, t

\* n events of the l there are were taken.
CutAt(truncated, n, l) == (truncated => n \in 1..l) /\ (~truncated => n = l)

IsFit(f) == f = [events |-> f.events, truncated |-> f.truncated]

TookFront(f, events, n) ==
  IsFit(f) /\ f.events = SubSeq(events, 1, n) /\ CutAt(f.truncated, n, Len(events))

TookBack(f, a, b, n) ==
  f.events = SeqInterval(b - n + 1, b) /\ CutAt(f.truncated, n, b - a + 1)

\* Something of a non-empty answer fits, and an answer that is not cut is whole.
LEMMA FitIs ==
  ASSUME NEW events, Len(events) \in Nat
  PROVE  \E n \in 0..Len(events) : TookFront(fitV3Events(events), events, n)
<1> DEFINE l == Len(events)
           Good(n) == (n = 0 \/ Fits(events, n)) /\ (n < l => ~Fits(events, n + 1))
<1>1. \E n \in 0..l : Good(n)
  <2> DEFINE T == {n \in 0..l : n = l \/ ~Fits(events, n + 1)}
  <2>1. T \in SUBSET Nat /\ l \in T
    OBVIOUS
  <2>2. PICK m \in T : \A k \in T : m <= k
    BY <2>1, LeastNumber
  <2>3. m = 0 \/ Fits(events, m)
    <3> SUFFICES ASSUME m # 0, ~Fits(events, m) PROVE FALSE
      OBVIOUS
    <3>1. m - 1 \in 0..l /\ m - 1 + 1 = m
      BY <2>2
    <3>2. ~Fits(events, m - 1 + 1)
      BY <3>1
    <3>3. m - 1 \in T
      BY <3>1, <3>2
    <3>4. m <= m - 1
      BY <2>2, <3>3
    <3>5. m \in Nat
      BY <2>1, <2>2
    <3> QED BY <3>4, <3>5
  <2>4. m < l => ~Fits(events, m + 1)
    BY <2>2
  <2>5. m \in 0..l
    BY <2>2
  <2> QED BY <2>3, <2>4, <2>5
<1> DEFINE c == CHOOSE n \in 0..l : Good(n)
<1>2. c \in 0..l /\ Good(c)
  BY <1>1
<1>3. fitV3Events(events) =
        [events |-> SubSeq(events, 1, c), truncated |-> c < l \/ (c = 1 /\ SizeOfEvent[events[1]] > FitBytes)]
  BY Zenon DEF fitV3Events
<1> HIDE DEF c
<1>4. PICK cut : cut = (c < l \/ (c = 1 /\ SizeOfEvent[events[1]] > FitBytes))
  OBVIOUS
<1>5. PICK front : front = SubSeq(events, 1, c)
  OBVIOUS
<1>6. PICK fit : fit = fitV3Events(events)
  OBVIOUS
<1>7. fit = [events |-> front, truncated |-> cut]
  BY <1>3, <1>4, <1>5, <1>6, Zenon
<1>8. fit.events = front /\ fit.truncated = cut
  BY <1>7
<1>9. IsFit(fit)
  BY <1>7, <1>8 DEF IsFit
<1>10. fitV3Events(events).events = SubSeq(events, 1, c) /\ fitV3Events(events).truncated = cut
  BY <1>5, <1>6, <1>8, Zenon
<1>11. fitV3Events(events).truncated <=> (c < l \/ (c = 1 /\ SizeOfEvent[events[1]] > FitBytes))
  BY <1>10, <1>4, Zenon
<1>12. l # 0 => c # 0
  <2> SUFFICES ASSUME l # 0, c = 0 PROVE FALSE
    OBVIOUS
  <2>1. ~Fits(events, 1)
    BY <1>2
  <2>2. 1 <= FitEvents
    BY AndroidAssumption
  <2> QED BY <2>1, <2>2 DEF Fits
<1>13. c \in 1..l \/ (c = 0 /\ l = 0)
  BY <1>2, <1>12
<1>14. fitV3Events(events).truncated => c \in 1..l
  BY <1>11, <1>13
<1>15. ~fitV3Events(events).truncated => c = l
  BY <1>2, <1>11
<1>16. IsFit(fitV3Events(events))
  BY <1>6, <1>9
<1>17. CutAt(fitV3Events(events).truncated, c, l)
  BY <1>14, <1>15 DEF CutAt
<1> QED BY <1>2, <1>10, <1>16, <1>17 DEF TookFront
LEMMA ReverseIs ==
  ASSUME NEW s \in Seq(Int)
  PROVE  /\ Reverse(s) \in Seq(Int) /\ Len(Reverse(s)) = Len(s)
         /\ \A i \in 1..Len(s) : Reverse(s)[i] = s[Len(s) - i + 1]
<1>1. Len(s) \in Nat
  OBVIOUS
<1>2. Reverse(s) = [i \in 1..Len(s) |-> s[(Len(s) - i) + 1]]
  BY DEF Reverse
<1>3. \A i \in 1..Len(s) : s[(Len(s) - i) + 1] \in Int
  BY <1>1
<1>4. Reverse(s) \in [1..Len(s) -> Int]
  BY <1>2, <1>3
<1> QED BY <1>1, <1>2, <1>4

\* The page that is told has the newest events, up to where it was asked.
LEMMA NewestIs ==
  ASSUME NEW a \in Int, NEW b \in Int, b >= a - 1
  PROVE  \E n \in 0..(b - a + 1) : TookBack(NewestFit(SeqInterval(a, b)), a, b, n)
<1>1. PICK t : t = SeqInterval(a, b)
  OBVIOUS
<1>2. t \in Seq(Int) /\ Len(t) = b - a + 1 /\ \A i \in 1..Len(t) : t[i] = a + i - 1
  <2>1. /\ t \in Seq(Int) /\ Len(t) = IF b < a THEN 0 ELSE b - a + 1
        /\ \A i \in 1..Len(t) : t[i] = a + i - 1
    BY <1>1, IntervalIs
  <2>2. (IF b < a THEN 0 ELSE b - a + 1) = b - a + 1
    OBVIOUS
  <2> QED BY <2>1, <2>2
<1>3. PICK r : r = Reverse(t)
  OBVIOUS
<1>4. r \in Seq(Int) /\ Len(r) = Len(t) /\ \A i \in 1..Len(t) : r[i] = t[Len(t) - i + 1]
  BY <1>2, <1>3, ReverseIs
<1>5. PICK fit : fit = fitV3Events(r)
  OBVIOUS
<1>6. PICK n \in 0..Len(r) : TookFront(fit, r, n)
  BY <1>4, <1>5, FitIs
<1>7. IsFit(fit) /\ fit.events = SubSeq(r, 1, n) /\ CutAt(fit.truncated, n, Len(r))
  BY <1>6 DEF TookFront
<1>8. PICK front : front = SubSeq(r, 1, n)
  OBVIOUS
<1>9. /\ front \in Seq(Int) /\ Len(front) = n
      /\ \A i \in 1..n : front[i] = r[i]
  <2>1. n \in Int /\ \A i \in 1..n : i \in 1..Len(r)
    BY <1>4, <1>7
  <2>2. \A i \in 1..n : r[i] \in Int
    BY <2>1, <1>4
  <2>3. /\ front \in Seq(Int) /\ Len(front) = IF 1 <= n THEN n - 1 + 1 ELSE 0
        /\ \A i \in 1..n - 1 + 1 : front[i] = r[1 + i - 1]
    BY <2>1, <2>2, <1>8, SubSeqProperties
  <2>4. \A i \in 1..n : i \in 1..n - 1 + 1 /\ 1 + i - 1 = i
    BY <2>1
  <2>5. n \in Nat
    BY <1>4, <1>7
  <2> QED BY <2>3, <2>4, <2>5
<1>10. PICK back : back = Reverse(front)
  OBVIOUS
<1>11. /\ back \in Seq(Int) /\ Len(back) = n
       /\ \A i \in 1..n : back[i] = front[n - i + 1]
  BY <1>9, <1>10, ReverseIs
<1>12. n \in Nat /\ n <= b - a + 1
  BY <1>2, <1>4, <1>7
<1>13. \A i \in 1..n : back[i] = (b - n + 1) + i - 1
  <2> SUFFICES ASSUME NEW i \in 1..n PROVE back[i] = (b - n + 1) + i - 1
    OBVIOUS
  <2>1. PICK j : j = n - i + 1
    OBVIOUS
  <2>2. j \in 1..n /\ j \in 1..Len(t)
    BY <2>1, <1>2, <1>12
  <2>3. back[i] = t[Len(t) - j + 1]
    BY <2>1, <2>2, <1>4, <1>9, <1>11
  <2>4. Len(t) - j + 1 \in 1..Len(t)
    BY <2>2, <1>2
  <2>5. t[Len(t) - j + 1] = a + (Len(t) - j + 1) - 1
    BY <2>4, <1>2
  <2> QED BY <2>1, <2>3, <2>5, <1>2, <1>12
<1>14. b - n + 1 \in Int /\ (b - n + 1) + n - 1 = b
  BY <1>12
<1>15. back = SeqInterval(b - n + 1, (b - n + 1) + n - 1)
  BY <1>11, <1>12, <1>13, <1>14, IsInterval
<1>16. PICK kept : kept = NewestFit(t)
  OBVIOUS
<1>17. kept = [fit EXCEPT !.events = Reverse(@)]
  BY <1>3, <1>5, <1>16, Zenon DEF NewestFit
<1>18. kept.events = back /\ kept.truncated = fit.truncated
  BY <1>7, <1>8, <1>10, <1>17 DEF IsFit
<1>19. kept.events = SeqInterval(b - n + 1, b)
  BY <1>14, <1>15, <1>18
<1>20. n \in 0..(b - a + 1) /\ CutAt(kept.truncated, n, b - a + 1)
  BY <1>2, <1>4, <1>7, <1>12, <1>18
<1>21. TookBack(kept, a, b, n)
  BY <1>19, <1>20 DEF TookBack
<1> QED BY <1>1, <1>16, <1>20, <1>21

\* What a page says of where it begins is so.
LEMMA PageBegins ==
  ASSUME NEW a \in Nat, NEW b \in Int, a <= b \/ (a = 0 /\ b = -1),
         NEW kept, kept = NewestFit(SeqInterval(a, b))
  PROVE  /\ a > 0 \/ kept.truncated => Run(kept.events, kept.events[1], b)
         /\ ~(a > 0 \/ kept.truncated) => Run(kept.events, 0, b)
<1>1. b >= a - 1
  OBVIOUS
<1>2. PICK n \in 0..(b - a + 1) : TookBack(kept, a, b, n)
  BY <1>1, NewestIs
<1>3. kept.events = SeqInterval(b - n + 1, b) /\ CutAt(kept.truncated, n, b - a + 1)
  BY <1>2 DEF TookBack
<1>4. PICK events : events = kept.events
  OBVIOUS
<1>5. ASSUME a > 0 \/ kept.truncated PROVE Run(events, events[1], b)
  <2>1. n \in 1..(b - a + 1)
    <3>1. CASE kept.truncated
      BY <3>1, <1>3 DEF CutAt
    <3>2. CASE ~kept.truncated
      <4>1. n = b - a + 1
        BY <3>2, <1>3 DEF CutAt
      <4>2. a <= b
        BY <3>2, <1>5
      <4> QED BY <4>1, <4>2
    <3> QED BY <3>1, <3>2
  <2>2. b - n + 1 \in Int
    BY <2>1
  <2>3. Len(SeqInterval(b - n + 1, b)) = IF b < b - n + 1 THEN 0 ELSE b - (b - n + 1) + 1
    BY <2>2, IntervalIs
  <2>4. 1 \in 1..Len(SeqInterval(b - n + 1, b))
    BY <2>1, <2>3
  <2>5. events[1] = b - n + 1 + 1 - 1
    BY <2>2, <2>4, <1>3, <1>4, IntervalIs
  <2>6. events[1] = b - n + 1
    BY <2>1, <2>5
  <2> QED BY <2>6, <1>3, <1>4 DEF Run
<1>6. ASSUME ~(a > 0 \/ kept.truncated) PROVE Run(events, 0, b)
  <2>1. a = 0
    BY <1>6
  <2>2. n = b - a + 1
    BY <1>3, <1>6 DEF CutAt
  <2>3. b - n + 1 = 0
    BY <2>1, <2>2
  <2> QED BY <2>3, <1>3, <1>4 DEF Run
<1> QED BY <1>4, <1>5, <1>6
-----------------------------------------------------------------------------
(* The answer to a delta request.                                           *)

\* The events from the phone's cursor on, up to a sequence of the tail.
Exact(events, after, through, tail) ==
  Run(events, after + 1, through) /\ through \in Int /\ (through <= tail \/ events = <<>>)

LastTold(events, after) == IF events = <<>> THEN after ELSE events[Len(events)]

LEMMA NothingIsExact ==
  ASSUME NEW after \in Int, NEW tail \in Int
  PROVE  Exact(<<>>, after, after, tail) /\ LastTold(<<>>, after) = after
<1>1. /\ SeqInterval(after + 1, after) \in Seq(Int)
      /\ Len(SeqInterval(after + 1, after)) = IF after < after + 1 THEN 0 ELSE after - (after + 1) + 1
  BY IntervalIs
<1>2. Len(SeqInterval(after + 1, after)) = 0
  BY <1>1
<1>3. SeqInterval(after + 1, after) = <<>>
  BY <1>1, <1>2, EmptySeq
<1>4. LastTold(<<>>, after) = after
  BY DEF LastTold
<1> QED BY <1>3, <1>4 DEF Exact, Run

\* A front of an exact answer is exact.
LEMMA FrontIsExact ==
  ASSUME NEW after \in Int, NEW b \in Int, NEW tail \in Int, b <= tail \/ SeqInterval(after + 1, b) = <<>>,
         NEW later, later = SeqInterval(after + 1, b), NEW n \in 0..Len(later),
         NEW events, events = SubSeq(later, 1, n)
  PROVE  Exact(events, after, LastTold(events, after), tail)
<1>1. n \in 0..Len(SeqInterval(after + 1, b))
  OBVIOUS
<1>2. /\ later \in Seq(Int) /\ Len(later) \in Nat
      /\ b < after + 1 => Len(later) = 0
      /\ b >= after + 1 => Len(later) = b - (after + 1) + 1
  <2>1. after + 1 \in Int
    OBVIOUS
  <2> QED BY <2>1, IntervalAs
<1>3. Len(later) \in Nat /\ n \in Nat
  BY <1>2
<1>4. events = SeqInterval(after + 1, after + 1 + n - 1)
  BY <1>1, FrontOfInterval
<1>5. after + 1 + n - 1 = after + n
  BY <1>3
<1>6. /\ events \in Seq(Int) /\ Len(events) \in Nat
      /\ after + n < after + 1 => Len(events) = 0
      /\ after + n >= after + 1 => Len(events) = after + n - (after + 1) + 1
      /\ \A i \in 1..Len(events) : events[i] = after + 1 + i - 1
  <2>1. after + 1 \in Int /\ after + n \in Int /\ events = SeqInterval(after + 1, after + n)
    BY <1>3, <1>4, <1>5
  <2>2. PICK u, v : u = after + 1 /\ v = after + n
    OBVIOUS
  <2>3. u \in Int /\ v \in Int /\ events = SeqInterval(u, v)
    BY <2>1, <2>2
  <2>4. /\ events \in Seq(Int) /\ Len(events) \in Nat
        /\ v < u => Len(events) = 0
        /\ v >= u => Len(events) = v - u + 1
        /\ CountsFrom(events, u)
    BY ONLY <2>3, IntervalAs
  <2> QED BY <2>2, <2>4 DEF CountsFrom
<1>7. Len(events) = n
  BY <1>3, <1>6
<1>8. CASE n = 0
  <2>1. events = <<>>
    BY <1>6, <1>7, <1>8, EmptySeq
  <2> QED BY <2>1, NothingIsExact
<1>9. CASE n # 0
  <2>1. events # <<>> /\ n \in 1..Len(events)
    BY <1>3, <1>7, <1>9
  <2>2. events[n] = after + 1 + n - 1
    BY <2>1, <1>6
  <2>3. LastTold(events, after) = after + n
    BY <2>1, <2>2, <1>3, <1>7 DEF LastTold
  <2>4. later # <<>> /\ b >= after + 1
    BY <1>2, <1>3, <1>9
  <2>5. after + n <= b
    BY <2>4, <1>2, <1>3
  <2>6. b <= tail
    BY <2>4
  <2>7. after + n <= tail /\ after + n \in Int
    BY <2>5, <2>6, <1>3
  <2>8. Run(events, after + 1, after + n)
    BY <1>4, <1>5 DEF Run
  <2> QED BY <2>3, <2>7, <2>8 DEF Exact
<1> QED BY <1>8, <1>9

IsDelta(d) ==
  d = [kind |-> d.kind, session |-> d.session, after |-> d.after, tail |-> d.tail, events |-> d.events,
       through |-> d.through, lastSeq |-> d.lastSeq, caughtUp |-> d.caughtUp,
       hasMore |-> d.hasMore, scanLimitReached |-> d.scanLimitReached]

\* With the limit of the scan nothing is told, and an answer that is not caught up has more.
Candid(d) ==
  /\ d.scanLimitReached => d.events = <<>> /\ ~d.caughtUp
  /\ ~d.caughtUp /\ ~d.scanLimitReached => d.hasMore

DeltaFor(d, s, tail) ==
  /\ IsDelta(d) /\ d.kind = "delta" /\ d.session = s /\ d.after \in Int
  /\ Exact(d.events, d.after, d.through, tail) /\ Candid(d)

LEMMA DeltaAnswerIs ==
  ASSUME NEW s, NEW r, NEW over, over = (r.from <= r.after \/ r.from = 0),
         r.from \in Nat, r.after \in Cursor, r.tail \in Int, r.limit \in Nat,
         watermarks[s] # NoWatermark => watermarks[s].lastSeq \in Int
  PROVE  DeltaFor(DeltaAnswer(s, r, over), s, r.tail)
<1>1. PICK after : after = r.after
  OBVIOUS
<1>2. PICK tail : tail = r.tail
  OBVIOUS
<1>3. PICK a : a = IF r.from > r.after THEN r.from ELSE r.after + 1
  OBVIOUS
<1>4. after \in Int /\ tail \in Int /\ a \in Int /\ after + 1 \in Int
  BY <1>1, <1>2, <1>3 DEF Cursor
<1>5. PICK later : later = SeqInterval(a, tail)
  OBVIOUS
<1>6. PICK lastSeq : lastSeq = IF watermarks[s] # NoWatermark THEN watermarks[s].lastSeq ELSE r.tail
  OBVIOUS
<1>7. lastSeq \in Int
  BY <1>6
<1>8. PICK reached : reached = (over \/ (later # <<>> /\ later[1] = r.after + 1))
  OBVIOUS
<1>9. PICK n : n = IF Len(later) < r.limit THEN Len(later) ELSE r.limit
  OBVIOUS
<1>10. later \in Seq(Int) /\ Len(later) \in Nat /\ CountsFrom(later, a)
  BY ONLY <1>4, <1>5, IntervalAs
<1>11. /\ later \in Seq(Int) /\ Len(later) \in Nat
       /\ \A i \in 1..Len(later) : later[i] = a + i - 1
  BY <1>10 DEF CountsFrom
<1>12. n \in 0..Len(later)
  BY <1>9, <1>11
<1>13. PICK events : events = IF reached THEN SubSeq(later, 1, n) ELSE <<>>
  OBVIOUS
<1>14. PICK through : through = IF events = <<>> THEN r.after ELSE events[Len(events)]
  OBVIOUS
<1>15. PICK caught : caught = (reached /\ through >= lastSeq)
  OBVIOUS
<1>16. PICK more : more = (through < lastSeq)
  OBVIOUS
<1>17. PICK limited : limited = ~reached
  OBVIOUS
<1>18. through = LastTold(events, after)
  BY <1>1, <1>14 DEF LastTold
<1>19. reached => a = after + 1
  <2>1. CASE over
    <3>1. r.from <= r.after \/ r.from = 0
      BY <2>1
    <3> QED BY <3>1, <1>1, <1>3 DEF Cursor
  <2>2. CASE later # <<>> /\ later[1] = r.after + 1
    <3>1. 1 \in 1..Len(later)
      BY <2>2, <1>11, EmptySeq
    <3>2. later[1] = a + 1 - 1
      BY <3>1, <1>11
    <3> QED BY <3>2, <2>2, <1>1, <1>4
  <2> QED BY <2>1, <2>2, <1>8
<1>20. Exact(events, after, through, tail)
  <2>1. CASE reached
    <3>1. later = SeqInterval(after + 1, tail) /\ events = SubSeq(later, 1, n)
      BY <2>1, <1>5, <1>13, <1>19
    <3>2. tail <= tail
      BY <1>4
    <3> QED BY <3>1, <3>2, <1>4, <1>12, <1>18, FrontIsExact
  <2>2. CASE ~reached
    <3>1. events = <<>> /\ through = after
      BY <2>2, <1>1, <1>13, <1>14
    <3> QED BY <3>1, <1>4, NothingIsExact
  <2> QED BY <2>1, <2>2
<1>21. PICK d : d = DeltaAnswer(s, r, over)
  OBVIOUS
<1>22. d = [kind |-> "delta", session |-> s, after |-> after, tail |-> tail, events |-> events,
            through |-> through, lastSeq |-> lastSeq, caughtUp |-> caught, hasMore |-> more,
            scanLimitReached |-> limited]
  BY <1>1, <1>2, <1>3, <1>5, <1>6, <1>8, <1>9, <1>13, <1>14, <1>15, <1>16, <1>17, <1>21, Zenon DEF DeltaAnswer
<1>23. /\ d.kind = "delta" /\ d.session = s /\ d.after = after /\ d.tail = tail /\ d.events = events
       /\ d.through = through /\ d.lastSeq = lastSeq /\ d.caughtUp = caught /\ d.hasMore = more
       /\ d.scanLimitReached = limited
  BY <1>22
<1>24. IsDelta(d)
  BY <1>22, <1>23 DEF IsDelta
<1>25. limited => events = <<>> /\ ~caught
  BY <1>13, <1>15, <1>17
<1>26. ~caught /\ ~limited => more
  <2> SUFFICES ASSUME ~caught, ~limited PROVE more
    OBVIOUS
  <2>1. through \in Int
    BY <1>20 DEF Exact
  <2>2. ~(through >= lastSeq)
    BY <1>15, <1>17
  <2>3. through < lastSeq
    BY <2>1, <2>2, <1>7
  <2> QED BY <2>3, <1>16
<1>27. Candid(d)
  BY <1>23, <1>25, <1>26, Zenon DEF Candid
<1>28. DeltaFor(d, s, tail)
  BY <1>4, <1>20, <1>23, <1>24, <1>27 DEF DeltaFor
<1> QED BY <1>2, <1>21, <1>28
\* readMobileV3Delta leaves it exact, and says so when it has cut it.
LEMMA V3AnswerIs ==
  ASSUME NEW d, NEW s, NEW tail \in Int, DeltaFor(d, s, tail)
  PROVE  DeltaFor(V3Answer(d), s, tail)
<1>1. PICK after, events, through : after = d.after /\ events = d.events /\ through = d.through
  OBVIOUS
<1>2. /\ after \in Int /\ through \in Int /\ events = SeqInterval(after + 1, through)
      /\ through <= tail \/ events = <<>>
  BY <1>1 DEF DeltaFor, Exact, Run
<1>3. IsDelta(d) /\ d.kind = "delta" /\ d.session = s /\ Candid(d)
  BY DEF DeltaFor
<1>4. PICK fit : fit = fitV3Events(events)
  OBVIOUS
<1>5. Len(events) \in Nat
  <2>1. PICK u : u = after + 1
    OBVIOUS
  <2>2. u \in Int /\ events = SeqInterval(u, through)
    BY <1>2, <2>1
  <2> QED BY ONLY <1>2, <2>2, IntervalAs
<1>6. PICK n \in 0..Len(events) : TookFront(fit, events, n)
  BY <1>4, <1>5, FitIs
<1>7. PICK kept : kept = fit.events
  OBVIOUS
<1>8. kept = SubSeq(events, 1, n)
  BY <1>6, <1>7 DEF TookFront
<1>9. Exact(kept, after, LastTold(kept, after), tail)
  BY <1>2, <1>6, <1>8, FrontIsExact
<1>10. PICK last : last = IF kept = <<>> THEN after ELSE kept[Len(kept)]
  OBVIOUS
<1>11. last = LastTold(kept, after)
  BY <1>10 DEF LastTold
<1>12. PICK cut : cut = fit.truncated
  OBVIOUS
<1>13. PICK caught : caught = (d.caughtUp /\ ~cut)
  OBVIOUS
<1>14. PICK more : more = (d.hasMore \/ cut)
  OBVIOUS
<1>15. PICK x : x = V3Answer(d)
  OBVIOUS
<1>16. x = [d EXCEPT !.events = kept, !.through = last, !.caughtUp = caught, !.hasMore = more]
  BY <1>1, <1>4, <1>7, <1>10, <1>12, <1>13, <1>14, <1>15, Zenon DEF V3Answer
<1>17. x = [kind |-> d.kind, session |-> d.session, after |-> d.after, tail |-> d.tail, events |-> kept,
            through |-> last, lastSeq |-> d.lastSeq, caughtUp |-> caught,
            hasMore |-> more, scanLimitReached |-> d.scanLimitReached]
  BY <1>3, <1>16 DEF IsDelta
<1>18. /\ x.kind = "delta" /\ x.session = s /\ x.after = after /\ x.events = kept /\ x.through = last
       /\ x.caughtUp = caught /\ x.hasMore = more /\ x.scanLimitReached = d.scanLimitReached
  BY <1>1, <1>3, <1>17
<1>19. IsDelta(x)
  BY <1>17 DEF IsDelta
<1>20. d.scanLimitReached => kept = <<>> /\ ~caught
  <2>1. d.scanLimitReached => d.events = <<>> /\ ~d.caughtUp
    BY <1>3 DEF Candid
  <2>2. events = <<>> => kept = <<>>
    <3>1. events = <<>> => Len(events) = 0
      OBVIOUS
    <3>2. Len(events) = 0 => n = 0
      BY <1>6
    <3>3. n = 0 => kept = <<>>
      BY <1>8, SubSeqEmpty
    <3> QED BY <3>1, <3>2, <3>3
  <2> QED BY <2>1, <2>2, <1>1, <1>13, Zenon
<1>21. ~caught /\ ~d.scanLimitReached => more
  <2>1. ~d.caughtUp /\ ~d.scanLimitReached => d.hasMore
    BY <1>3 DEF Candid
  <2> QED BY <2>1, <1>13, <1>14, Zenon
<1>22. Candid(x)
  BY <1>18, <1>20, <1>21, Zenon DEF Candid
<1>23. DeltaFor(x, s, tail)
  BY <1>2, <1>9, <1>11, <1>18, <1>19, <1>22 DEF DeltaFor
<1> QED BY <1>15, <1>23

-----------------------------------------------------------------------------
(* The invariant of the copy, and its steps.                                *)

\* What was said of a log stays so.
DeltaTold(d, ends) == \E s \in AndroidSessions : DeltaFor(d, s, ends[s])

PageTold(h) == Run(h.events, IF h.hasMore THEN h.nextBeforeSeq ELSE 0, h.to)

RowsTold(rows, marks) ==
  /\ DOMAIN rows \subseteq AndroidSessions
  /\ \A s \in DOMAIN rows : rows[s] \in Int /\ rows[s] <= marks[s].lastSeq

Told(x, ends, marks) ==
  /\ x.kind = "delta" => DeltaTold(x, ends)
  /\ x.kind = "history" => PageTold(x)
  /\ x.kind = "snapshot" => RowsTold(x.rows, marks)

AndroidIInv ==
  /\ LogEndsOK
  /\ WatermarksOK
  /\ ColdOK
  /\ ReadInProgress(read, top)
  /\ Told(result, top, watermarks)
Reaches(ends, later) ==
  \A s \in AndroidSessions : ends[s] \in Int /\ later[s] \in Int /\ ends[s] <= later[s]

Rises(marks, later) ==
  \A s \in AndroidSessions :
    marks[s].lastSeq \in Int /\ later[s].lastSeq \in Int /\ marks[s].lastSeq <= later[s].lastSeq

LEMMA ToldStays ==
  ASSUME NEW x, NEW e, NEW f, NEW m, NEW w, Told(x, e, m), Reaches(e, f), Rises(m, w)
  PROVE  Told(x, f, w)
<1>1. ASSUME x.kind = "delta" PROVE DeltaTold(x, f)
  <2>1. DeltaTold(x, e)
    BY <1>1 DEF Told
  <2>2. PICK s \in AndroidSessions : DeltaFor(x, s, e[s])
    BY <2>1 DEF DeltaTold
  <2>3. e[s] \in Int /\ f[s] \in Int /\ e[s] <= f[s]
    BY DEF Reaches
  <2>4. Exact(x.events, x.after, x.through, e[s])
    BY <2>2 DEF DeltaFor
  <2>5. Exact(x.events, x.after, x.through, f[s])
    BY <2>3, <2>4 DEF Exact
  <2>6. DeltaFor(x, s, f[s])
    BY <2>2, <2>5 DEF DeltaFor
  <2> QED BY <2>6 DEF DeltaTold
<1>2. ASSUME x.kind = "history" PROVE PageTold(x)
  BY <1>2 DEF Told
<1>3. ASSUME x.kind = "snapshot" PROVE RowsTold(x.rows, w)
  <2>1. RowsTold(x.rows, m)
    BY <1>3 DEF Told
  <2>2. PICK rows : rows = x.rows
    OBVIOUS
  <2>3. \A s \in DOMAIN rows : s \in AndroidSessions /\ rows[s] \in Int /\ rows[s] <= m[s].lastSeq
    BY <2>1, <2>2 DEF RowsTold
  <2>4. \A s \in DOMAIN rows : rows[s] \in Int /\ rows[s] <= w[s].lastSeq
    BY <2>3 DEF Rises
  <2>5. DOMAIN rows \subseteq AndroidSessions
    BY <2>3
  <2> QED BY <2>2, <2>4, <2>5 DEF RowsTold
<1> QED BY <1>1, <1>2, <1>3 DEF Told

LEMMA ReadStays ==
  ASSUME NEW r, NEW e, NEW f, ReadInProgress(r, e), Reaches(e, f)
  PROVE  ReadInProgress(r, f)
<1>1. CASE r.kind = "none"
  BY <1>1 DEF ReadInProgress
<1>2. CASE r.kind # "none"
  <2>1. PICK s \in AndroidSessions : r.session = {s} /\ WalkedBack(r, e[s])
    BY <1>2 DEF ReadInProgress
  <2>2. e[s] \in Int /\ f[s] \in Int /\ e[s] <= f[s]
    BY DEF Reaches
  <2>3. WalkedBack(r, f[s])
    <3> SUFFICES ASSUME r.tail # Unknown
                 PROVE  r.tail \in Nat /\ r.tail <= f[s] /\ r.from \in Nat \ {0} /\ r.after < r.from /\ r.from <= r.tail
      BY DEF WalkedBack
    <3>1. r.tail \in Nat /\ r.tail <= e[s] /\ r.from \in Nat \ {0} /\ r.after < r.from /\ r.from <= r.tail
      BY <2>1 DEF WalkedBack
    <3>2. r.tail <= f[s]
      BY <3>1, <2>2
    <3> QED BY <3>1, <3>2
  <2> QED BY <2>1, <2>3, <1>2 DEF ReadInProgress
<1> QED BY <1>1, <1>2

LEMMA ColdStays ==
  ASSUME NEW c, NEW e, NEW f, ColdReadOK(c, e), Reaches(e, f)
  PROVE  ColdReadOK(c, f)
<1>1. CASE c = NoTail
  BY <1>1 DEF ColdReadOK
<1>2. CASE c # NoTail
  <2>1. PICK s \in AndroidSessions :
          c = [session |-> {s}, lastSeq |-> c.lastSeq] /\ c.lastSeq \in Int /\ c.lastSeq <= e[s]
    BY <1>2 DEF ColdReadOK
  <2>2. e[s] \in Int /\ f[s] \in Int /\ e[s] <= f[s]
    BY DEF Reaches
  <2>3. c.lastSeq <= f[s]
    BY <2>1, <2>2
  <2> QED BY <2>1, <2>3 DEF ColdReadOK
<1> QED BY <1>1, <1>2

\* A watermark only rises, and only to what is in the log.
LEMMA WatermarkRises ==
  ASSUME LogEndsOK, WatermarksOK, UNCHANGED top,
         NEW s \in AndroidSessions, NEW n \in Int, n <= top[s], NEW source,
         updateWatermark(s, n, source)
  PROVE  WatermarksOK' /\ Rises(watermarks, watermarks')
<1>1. PICK w : w = watermarks
  OBVIOUS
<1>2. /\ DOMAIN w = AndroidSessions
      /\ \A t \in AndroidSessions : KnownOf(w[t], top[t]) /\ w[t].lastSeq \in Int
  BY <1>1 DEF WatermarksOK, KnownOf
<1>3. CASE watermarks' = w
  <2>1. Rises(w, w)
    BY <1>2 DEF Rises
  <2>2. WatermarksOK'
    BY <1>1, <1>3 DEF WatermarksOK
  <2> QED BY <2>1, <2>2, <1>1, <1>3
<1>4. CASE watermarks' # w
  <2>1. ~(n < w[s].lastSeq) /\ watermarks' = [w EXCEPT ![s] = [lastSeq |-> n, source |-> source]]
    BY <1>1, <1>4 DEF updateWatermark
  <2>2. PICK v : v = [w EXCEPT ![s] = [lastSeq |-> n, source |-> source]]
    OBVIOUS
  <2>3. /\ DOMAIN v = AndroidSessions /\ v[s] = [lastSeq |-> n, source |-> source]
        /\ \A t \in AndroidSessions \ {s} : v[t] = w[t]
    BY <1>2, <2>2
  <2>4. KnownOf(v[s], top[s]) /\ v[s].lastSeq = n
    BY <2>3 DEF KnownOf
  <2>5. w[s].lastSeq <= n
    BY <1>2, <2>1
  <2>6. \A t \in AndroidSessions : KnownOf(v[t], top[t])
    BY <1>2, <2>3, <2>4
  <2>7. Rises(w, v)
    BY <1>2, <2>3, <2>4, <2>5 DEF Rises
  <2>8. WatermarksOK'
    BY <2>1, <2>2, <2>3, <2>6 DEF WatermarksOK
  <2> QED BY <1>1, <2>1, <2>2, <2>7, <2>8
<1> QED BY <1>3, <1>4

LEMMA SameMarks ==
  ASSUME LogEndsOK, WatermarksOK
  PROVE  Rises(watermarks, watermarks) /\ Reaches(top, top)
<1>1. \A s \in AndroidSessions : watermarks[s].lastSeq \in Int
  BY DEF WatermarksOK, KnownOf
<1>2. \A s \in AndroidSessions : top[s] \in Int
  BY DEF LogEndsOK, Cursor
<1> QED BY <1>1, <1>2 DEF Rises, Reaches
LEMMA RestStays ==
  ASSUME AndroidIInv, Reaches(top, top'), Rises(watermarks, watermarks')
  PROVE  /\ UNCHANGED cold => ColdOK'
         /\ UNCHANGED read => ReadInProgress(read, top)'
         /\ UNCHANGED result => Told(result, top, watermarks)'
<1>1. PICK e, f : e = top /\ f = top'
  OBVIOUS
<1>2. PICK m, w : m = watermarks /\ w = watermarks'
  OBVIOUS
<1>3. Reaches(e, f) /\ Rises(m, w)
  BY <1>1, <1>2
<1>4. ASSUME UNCHANGED cold PROVE ColdOK'
  <2>1. coldQueue' = coldQueue /\ coldTail' = coldTail
    BY <1>4 DEF cold
  <2>2. PICK c : c = coldTail
    OBVIOUS
  <2>3. coldQueue \in Seq(AndroidSessions) /\ ColdReadOK(c, e)
    BY <2>2, <1>1 DEF AndroidIInv, ColdOK
  <2>4. ColdReadOK(c, f)
    BY <2>3, <1>3, ColdStays
  <2> QED BY <2>1, <2>2, <2>3, <2>4, <1>1 DEF ColdOK
<1>5. ASSUME UNCHANGED read PROVE ReadInProgress(read, top)'
  <2>1. PICK r : r = read
    OBVIOUS
  <2>2. ReadInProgress(r, e)
    BY <2>1, <1>1 DEF AndroidIInv
  <2>3. ReadInProgress(r, f)
    BY <2>2, <1>3, ReadStays
  <2> QED BY <2>1, <2>3, <1>1, <1>5
<1>6. ASSUME UNCHANGED result PROVE Told(result, top, watermarks)'
  <2>1. PICK x : x = result
    OBVIOUS
  <2>2. Told(x, e, m)
    BY <2>1, <1>1, <1>2 DEF AndroidIInv
  <2>3. Told(x, f, w)
    BY <2>2, <1>3, ToldStays
  <2> QED BY <2>1, <2>3, <1>1, <1>2, <1>6
<1> QED BY <1>4, <1>5, <1>6

\* Steps that leave the logs and the watermarks alone.
LEMMA QuietStep ==
  ASSUME AndroidIInv, UNCHANGED <<top, watermarks>>, LogEndsOK'
  PROVE  /\ WatermarksOK' /\ Reaches(top, top') /\ Rises(watermarks, watermarks')
         /\ UNCHANGED cold => ColdOK'
         /\ UNCHANGED read => ReadInProgress(read, top)'
         /\ UNCHANGED result => Told(result, top, watermarks)'
<1>1. LogEndsOK /\ WatermarksOK
  BY DEF AndroidIInv
<1>2. Reaches(top, top) /\ Rises(watermarks, watermarks)
  BY <1>1, SameMarks
<1>3. Reaches(top, top') /\ Rises(watermarks, watermarks')
  BY <1>2
<1>4. WatermarksOK'
  BY <1>1 DEF WatermarksOK
<1> QED BY <1>3, <1>4, RestStays

LEMMA LogsGrowKeeps ==
  ASSUME AndroidIInv, NEW s \in AndroidSessions, LogsGrow(s)
  PROVE  AndroidIInv'
<1>1. top' = [top EXCEPT ![s] = @ + 1] /\ UNCHANGED <<muxTold, watermarks, cold, read, result>>
  BY DEF LogsGrow
<1>2. LogEndsOK /\ WatermarksOK
  BY DEF AndroidIInv
<1>3. \A t \in AndroidSessions :
        /\ top[t] \in Cursor /\ top'[t] \in Cursor /\ top[t] <= top'[t]
        /\ top[t] \in Int /\ top'[t] \in Int
  <2> TAKE t \in AndroidSessions
  <2>1. top[t] \in Cursor /\ top[s] \in Cursor
    BY <1>2 DEF LogEndsOK
  <2>2. top'[t] = IF t = s THEN top[s] + 1 ELSE top[t]
    BY <1>1, <1>2 DEF LogEndsOK
  <2> QED BY <2>1, <2>2 DEF Cursor
<1>4. Reaches(top, top')
  BY <1>3 DEF Reaches
<1>5. LogEndsOK'
  <2>1. DOMAIN top' = AndroidSessions /\ muxTold' = muxTold
    BY <1>1, <1>2 DEF LogEndsOK
  <2>2. \A t \in AndroidSessions : muxTold[t] \in Int /\ muxTold[t] <= top'[t]
    BY <1>2, <1>3 DEF LogEndsOK
  <2> QED BY <2>1, <2>2, <1>2, <1>3 DEF LogEndsOK
<1>6. Rises(watermarks, watermarks')
  BY <1>1, <1>2, SameMarks
<1>7. WatermarksOK'
  <2>1. watermarks' = watermarks
    BY <1>1
  <2>2. \A t \in AndroidSessions : KnownOf(watermarks[t], top'[t])
    BY <1>2, <1>3 DEF WatermarksOK, KnownOf
  <2> QED BY <2>1, <2>2, <1>2 DEF WatermarksOK
<1>8. ColdOK' /\ ReadInProgress(read, top)' /\ Told(result, top, watermarks)'
  BY <1>1, <1>4, <1>6, RestStays
<1> QED BY <1>5, <1>7, <1>8 DEF AndroidIInv

LEMMA MuxTurnsKeeps ==
  ASSUME AndroidIInv, MuxOpens \/ MuxBreaks
  PROVE  AndroidIInv'
<1>1. UNCHANGED <<top, watermarks, cold, read, result>>
  BY DEF MuxOpens, MuxBreaks
<1>2. LogEndsOK
  BY DEF AndroidIInv
<1>3. LogEndsOK'
  <2>1. CASE MuxOpens
    <3>1. muxTold' = [s \in AndroidSessions |-> Unknown] /\ top' = top
      BY <2>1 DEF MuxOpens
    <3>2. \A s \in AndroidSessions : top[s] \in Cursor /\ Unknown \in Int /\ Unknown <= top[s]
      BY <1>2 DEF LogEndsOK, Unknown, Cursor
    <3> QED BY <3>1, <3>2, <1>2 DEF LogEndsOK
  <2>2. CASE MuxBreaks
    <3>1. UNCHANGED <<top, muxTold>>
      BY <2>2 DEF MuxBreaks
    <3> QED BY <3>1, <1>2 DEF LogEndsOK
  <2> QED BY <2>1, <2>2
<1> QED BY <1>1, <1>3, QuietStep DEF AndroidIInv

LEMMA MuxTellsKeeps ==
  ASSUME AndroidIInv, NEW s \in AndroidSessions, MuxTells(s)
  PROVE  AndroidIInv'
<1>1. /\ muxTold[s] < top[s] /\ muxTold' = [muxTold EXCEPT ![s] = IF @ = Unknown THEN top[s] ELSE @ + 1]
      /\ updateWatermark(s, muxTold'[s], "mux") /\ UNCHANGED <<top, cold, read, result>>
  BY DEF MuxTells
<1>2. LogEndsOK /\ WatermarksOK
  BY DEF AndroidIInv
<1>3. PICK n : n = IF muxTold[s] = Unknown THEN top[s] ELSE muxTold[s] + 1
  OBVIOUS
<1>4. DOMAIN muxTold' = AndroidSessions /\ muxTold'[s] = n
      /\ \A t \in AndroidSessions \ {s} : muxTold'[t] = muxTold[t]
  BY <1>1, <1>2, <1>3 DEF LogEndsOK
<1>5. n \in Int /\ n <= top[s]
  <2>1. top[s] \in Int /\ muxTold[s] \in Int
    BY <1>2 DEF LogEndsOK, Cursor
  <2> QED BY <2>1, <1>1, <1>3
<1>6. LogEndsOK'
  <2>1. \A t \in AndroidSessions : muxTold'[t] \in Int /\ muxTold'[t] <= top[t]
    BY <1>2, <1>4, <1>5 DEF LogEndsOK
  <2>2. top' = top
    BY <1>1
  <2> QED BY <2>1, <2>2, <1>2, <1>4 DEF LogEndsOK
<1>7. updateWatermark(s, n, "mux")
  BY <1>1, <1>4
<1>8. WatermarksOK' /\ Rises(watermarks, watermarks')
  BY <1>1, <1>2, <1>5, <1>7, WatermarkRises
<1>9. Reaches(top, top')
  BY <1>1, <1>2, SameMarks
<1>10. ColdOK' /\ ReadInProgress(read, top)' /\ Told(result, top, watermarks)'
  BY <1>1, <1>8, <1>9, RestStays
<1> QED BY <1>6, <1>8, <1>10 DEF AndroidIInv

LEMMA TailAskedKeeps ==
  ASSUME AndroidIInv, TailAsked
  PROVE  AndroidIInv'
<1>1. /\ coldQueue # <<>> /\ coldTail' = [session |-> {Head(coldQueue)}, lastSeq |-> Unknown]
      /\ coldQueue' = Tail(coldQueue) /\ UNCHANGED <<top, muxTold, watermarks, read, result>>
  BY DEF TailAsked, hostSide
<1>2. LogEndsOK /\ ColdOK
  BY DEF AndroidIInv
<1>3. PICK s : s = Head(coldQueue)
  OBVIOUS
<1>4. s \in AndroidSessions /\ coldQueue' \in Seq(AndroidSessions)
  BY <1>1, <1>2, <1>3, HeadTailProperties DEF ColdOK
<1>5. PICK c : c = [session |-> {s}, lastSeq |-> Unknown]
  OBVIOUS
<1>6. c = [session |-> {s}, lastSeq |-> c.lastSeq] /\ c.lastSeq = Unknown
  BY <1>5
<1>7. Unknown \in Int /\ Unknown <= top[s]
  BY <1>2, <1>4 DEF LogEndsOK, Unknown, Cursor
<1>8. ColdReadOK(c, top)
  BY <1>4, <1>6, <1>7 DEF ColdReadOK
<1>9. ColdOK'
  BY <1>1, <1>3, <1>4, <1>5, <1>8 DEF ColdOK
<1>10. LogEndsOK'
  BY <1>1, <1>2 DEF LogEndsOK
<1>11. WatermarksOK' /\ ReadInProgress(read, top)' /\ Told(result, top, watermarks)'
  BY <1>1, <1>10, QuietStep
<1> QED BY <1>9, <1>10, <1>11 DEF AndroidIInv
LEMMA ColdSession ==
  ASSUME AndroidIInv, coldTail # NoTail
  PROVE  \E s \in AndroidSessions :
           /\ coldTail = [session |-> {s}, lastSeq |-> coldTail.lastSeq] /\ coldTail.session = {s}
           /\ coldTail.lastSeq \in Int /\ coldTail.lastSeq <= top[s]
           /\ (CHOOSE t \in coldTail.session : TRUE) = s
<1>1. PICK c : c = coldTail
  OBVIOUS
<1>2. ColdReadOK(c, top) /\ c # NoTail
  BY <1>1 DEF AndroidIInv, ColdOK
<1>3. PICK s \in AndroidSessions :
        c = [session |-> {s}, lastSeq |-> c.lastSeq] /\ c.lastSeq \in Int /\ c.lastSeq <= top[s]
  BY <1>2 DEF ColdReadOK
<1>4. c.session = {s}
  BY <1>3
<1>5. (CHOOSE t \in {s} : TRUE) = s
  OBVIOUS
<1> QED BY <1>1, <1>3, <1>4, <1>5

LEMMA TailReadKeeps ==
  ASSUME AndroidIInv, TailRead
  PROVE  AndroidIInv'
<1>1. /\ coldTail # NoTail /\ coldTail' = [coldTail EXCEPT !.lastSeq = top[CHOOSE s \in coldTail.session : TRUE]]
      /\ UNCHANGED <<top, muxTold, watermarks, coldQueue, read, result>>
  BY DEF TailRead, hostSide
<1>2. LogEndsOK /\ coldQueue \in Seq(AndroidSessions)
  BY DEF AndroidIInv, ColdOK
<1>3. PICK s \in AndroidSessions :
        /\ coldTail = [session |-> {s}, lastSeq |-> coldTail.lastSeq]
        /\ (CHOOSE t \in coldTail.session : TRUE) = s
  BY <1>1, ColdSession
<1>4. PICK c : c = coldTail
  OBVIOUS
<1>5. coldTail' = [c EXCEPT !.lastSeq = top[s]]
  BY <1>1, <1>3, <1>4
<1>6. PICK d : d = [c EXCEPT !.lastSeq = top[s]]
  OBVIOUS
<1>7. d = [session |-> {s}, lastSeq |-> top[s]]
  BY <1>3, <1>4, <1>6
<1>8. d.lastSeq = top[s] /\ d = [session |-> {s}, lastSeq |-> d.lastSeq]
  BY <1>7
<1>9. top[s] \in Int /\ top[s] <= top[s]
  BY <1>2 DEF LogEndsOK, Cursor
<1>10. ColdReadOK(d, top)
  BY <1>8, <1>9 DEF ColdReadOK
<1>11. ColdOK'
  BY <1>1, <1>2, <1>5, <1>6, <1>10 DEF ColdOK
<1>12. LogEndsOK'
  BY <1>1, <1>2 DEF LogEndsOK
<1>13. WatermarksOK' /\ ReadInProgress(read, top)' /\ Told(result, top, watermarks)'
  BY <1>1, <1>12, QuietStep
<1> QED BY <1>11, <1>12, <1>13 DEF AndroidIInv

\* The read of a tail is over, one way or the other.
LEMMA TailEndsKeeps ==
  ASSUME AndroidIInv, TailArrives \/ TailFails
  PROVE  AndroidIInv'
<1>1. coldTail' = NoTail /\ UNCHANGED <<top, muxTold, coldQueue, read, result>>
  BY DEF TailArrives, TailFails, TailOver, hostSide
<1>2. LogEndsOK /\ WatermarksOK /\ coldQueue \in Seq(AndroidSessions)
  BY DEF AndroidIInv, ColdOK
<1>3. ColdOK'
  BY <1>1, <1>2 DEF ColdOK, ColdReadOK
<1>4. LogEndsOK'
  BY <1>1, <1>2 DEF LogEndsOK
<1>5. Reaches(top, top')
  BY <1>1, <1>2, SameMarks
<1>6. WatermarksOK' /\ Rises(watermarks, watermarks')
  <2>1. CASE TailFails
    <3>1. UNCHANGED <<top, watermarks>>
      BY <2>1, <1>1 DEF TailFails
    <3> QED BY <3>1, <1>4, QuietStep
  <2>2. CASE TailArrives
    <3>1. coldTail.lastSeq # Unknown /\ \A s \in coldTail.session : updateWatermark(s, coldTail.lastSeq, "history")
      BY <2>2 DEF TailArrives
    <3>2. coldTail # NoTail
      BY <3>1 DEF NoTail
    <3>3. PICK s \in AndroidSessions :
            coldTail.session = {s} /\ coldTail.lastSeq \in Int /\ coldTail.lastSeq <= top[s]
      BY <3>2, ColdSession
    <3>4. updateWatermark(s, coldTail.lastSeq, "history")
      BY <3>1, <3>3
    <3>5. PICK n : n = coldTail.lastSeq
      OBVIOUS
    <3>6. updateWatermark(s, n, "history") /\ n \in Int /\ n <= top[s]
      BY <3>3, <3>4, <3>5
    <3> QED BY <3>6, <1>1, <1>2, WatermarkRises
  <2> QED BY <2>1, <2>2
<1>7. ReadInProgress(read, top)' /\ Told(result, top, watermarks)'
  BY <1>1, <1>5, <1>6, RestStays
<1> QED BY <1>3, <1>4, <1>6, <1>7 DEF AndroidIInv

LEMMA QueueOf ==
  ASSUME NEW S \in SUBSET AndroidSessions
  PROVE  SetToSeq(S) \in Seq(AndroidSessions)
<1>1. IsFiniteSet(S)
  BY AndroidAssumption, FS_Subset
<1>2. PICK n : n = Cardinality(S)
  OBVIOUS
<1>3. n \in Nat /\ ExistsBijection(1..n, S)
  BY <1>1, <1>2, FS_CardinalityType
<1>4. PICK f \in [1..n -> S] : IsInjective(f)
  <2>1. PICK g : g \in Bijection(1..n, S)
    BY <1>3 DEF ExistsBijection
  <2>2. g \in [1..n -> S] /\ \A a, b \in 1..n : g[a] = g[b] => a = b
    BY <2>1 DEF Bijection, Injection, IsInjective
  <2>3. DOMAIN g = 1..n
    BY <2>2
  <2>4. IsInjective(g)
    BY <2>2, <2>3 DEF IsInjective
  <2> QED BY <2>2, <2>4
<1>5. PICK q : q = SetToSeq(S)
  OBVIOUS
<1>6. q = CHOOSE g \in [1..n -> S] : IsInjective(g)
  BY <1>2, <1>5 DEF SetToSeq
<1>7. q \in [1..n -> S]
  BY <1>4, <1>6
<1>8. q \in Seq(S)
  BY <1>3, <1>7
<1>9. q \in Seq(AndroidSessions)
  BY <1>8
<1> QED BY <1>5, <1>9

LEMMA SnapshotKeeps ==
  ASSUME AndroidIInv, NEW version \in {2, 3}, Snapshot(version)
  PROVE  AndroidIInv'
<1>1. UNCHANGED <<top, muxTold, watermarks, coldTail, read>>
  BY DEF Snapshot, hostSide
<1>2. PICK listed \in SUBSET AndroidSessions :
        LET unknown == {s \in listed : watermarks[s] = NoWatermark} IN
        /\ Scheduled(unknown)
        /\ result' = IF version = 2 /\ unknown # {} THEN [kind |-> "snapshot-pending"]
                     ELSE [kind |-> "snapshot", rows |-> [s \in listed |-> watermarks[s].lastSeq]]
  BY DEF Snapshot
<1>3. LogEndsOK /\ WatermarksOK /\ ColdOK
  BY DEF AndroidIInv
<1>4. PICK new \in SUBSET AndroidSessions : coldQueue' = coldQueue \o SetToSeq(new)
  <2>1. PICK unknown : unknown = {s \in listed : watermarks[s] = NoWatermark}
    OBVIOUS
  <2>2. Scheduled(unknown) /\ unknown \in SUBSET AndroidSessions
    BY <1>2, <2>1
  <2>3. {s \in unknown \ coldPending : watermarks[s].source # "mux"} \in SUBSET AndroidSessions
    BY <2>2
  <2> QED BY <2>2, <2>3 DEF Scheduled
<1>5. coldQueue' \in Seq(AndroidSessions)
  <2>1. SetToSeq(new) \in Seq(AndroidSessions)
    BY QueueOf
  <2>2. coldQueue \in Seq(AndroidSessions)
    BY <1>3 DEF ColdOK
  <2> QED BY <2>1, <2>2, <1>4, ConcatProperties
<1>6. ColdOK'
  BY <1>1, <1>3, <1>5 DEF ColdOK
<1>7. LogEndsOK'
  BY <1>1, <1>3 DEF LogEndsOK
<1>8. WatermarksOK' /\ ReadInProgress(read, top)'
  BY <1>1, <1>7, QuietStep
<1>9. PICK rows : rows = [s \in listed |-> watermarks[s].lastSeq]
  OBVIOUS
<1>10. RowsTold(rows, watermarks)
  <2>1. \A s \in listed : watermarks[s].lastSeq \in Int
    BY <1>3 DEF WatermarksOK, KnownOf
  <2>2. DOMAIN rows = listed /\ \A s \in listed : rows[s] = watermarks[s].lastSeq
    BY <1>9
  <2>3. \A s \in listed : rows[s] \in Int /\ rows[s] <= watermarks[s].lastSeq
    BY <2>1, <2>2
  <2> QED BY <2>2, <2>3 DEF RowsTold
<1>11. Told(result, top, watermarks)'
  <2>1. PICK x, m : x = result' /\ m = watermarks
    OBVIOUS
  <2>2. x = [kind |-> "snapshot-pending"] \/ x = [kind |-> "snapshot", rows |-> rows]
    BY <2>1, <1>2, <1>9
  <2>3. RowsTold(rows, m)
    BY <2>1, <1>10
  <2>4. Told(x, top, m)
    BY <2>2, <2>3 DEF Told
  <2> QED BY <2>1, <2>4, <1>1
<1> QED BY <1>6, <1>7, <1>8, <1>11 DEF AndroidIInv
LEMMA NoReadIs == ReadInProgress(NoRead, top)
<1>1. PICK r : r = NoRead
  OBVIOUS
<1>2. r = [kind |-> "none", session |-> {}, after |-> -1, limit |-> 0, from |-> 0, tail |-> Unknown, pages |-> 0]
  BY <1>1 DEF NoRead
<1>3. IsRead(r) /\ r.kind = "none"
  BY <1>2 DEF IsRead
<1> QED BY <1>1, <1>3 DEF ReadInProgress

LEMMA AskedWithKeeps ==
  ASSUME AndroidIInv, NEW s \in AndroidSessions, NEW kind, NEW after \in Cursor, NEW limit \in Nat,
         AskedWith(kind, s, after, limit)
  PROVE  AndroidIInv'
<1>1. /\ read' = [NoRead EXCEPT !.kind = kind, !.session = {s}, !.after = after, !.limit = limit]
      /\ UNCHANGED <<top, muxTold, watermarks, cold, result>>
  BY DEF AskedWith, hostSide
<1>2. LogEndsOK'
  BY <1>1 DEF AndroidIInv, LogEndsOK
<1>3. WatermarksOK' /\ ColdOK' /\ Told(result, top, watermarks)'
  BY <1>1, <1>2, QuietStep
<1>4. PICK r : r = [NoRead EXCEPT !.kind = kind, !.session = {s}, !.after = after, !.limit = limit]
  OBVIOUS
<1>5. r = [kind |-> kind, session |-> {s}, after |-> after, limit |-> limit, from |-> 0, tail |-> Unknown, pages |-> 0]
  BY <1>4 DEF NoRead
<1>6. /\ IsRead(r) /\ r.session = {s} /\ r.after \in Cursor /\ r.limit \in Nat /\ r.pages \in Nat
      /\ r.tail = Unknown
  BY <1>5 DEF IsRead
<1>7. ReadInProgress(r, top)
  BY <1>6 DEF ReadInProgress, WalkedBack
<1>8. ReadInProgress(read, top)'
  BY <1>1, <1>4, <1>7
<1> QED BY <1>2, <1>3, <1>8 DEF AndroidIInv

LEMMA AskedKeeps ==
  ASSUME AndroidIInv, NEW s \in AndroidSessions, DeltaAsked(s) \/ HistoryAsked(s)
  PROVE  AndroidIInv'
<1>0. MaxTop \in Nat
  BY AndroidAssumption
<1>1. CASE DeltaAsked(s)
  <2>1. PICK kind \in {"delta", "v3-delta"}, after \in -1..MaxTop, limit \in 1..2 : AskedWith(kind, s, after, limit)
    BY <1>1 DEF DeltaAsked
  <2>2. after \in Cursor /\ limit \in Nat
    BY <1>0 DEF Cursor
  <2> QED BY <2>1, <2>2, AskedWithKeeps
<1>2. CASE HistoryAsked(s)
  <2>1. PICK before \in {-1} \cup 1..MaxTop : AskedWith("history", s, before, 0)
    BY <1>2 DEF HistoryAsked
  <2>2. before \in Cursor /\ 0 \in Nat
    BY <1>0 DEF Cursor
  <2> QED BY <2>1, <2>2, AskedWithKeeps
<1> QED BY <1>1, <1>2

LEMMA ReadFailsKeeps ==
  ASSUME AndroidIInv, ReadFails
  PROVE  AndroidIInv'
<1>1. result' = NoResult /\ read' = NoRead /\ UNCHANGED <<top, muxTold, watermarks, cold>>
  BY DEF ReadFails, Answered, hostSide
<1>2. LogEndsOK'
  BY <1>1 DEF AndroidIInv, LogEndsOK
<1>3. WatermarksOK' /\ ColdOK'
  BY <1>1, <1>2, QuietStep
<1>4. ReadInProgress(read, top)'
  BY <1>1, NoReadIs
<1>5. Told(result, top, watermarks)'
  BY <1>1 DEF Told, NoResult
<1> QED BY <1>2, <1>3, <1>4, <1>5 DEF AndroidIInv

\* Whose read it is.
LEMMA AskedIs ==
  ASSUME AndroidIInv, read.kind # "none"
  PROVE  /\ Asked \in AndroidSessions /\ read.session = {Asked} /\ WalkedBack(read, top[Asked])
         /\ read.after \in Cursor /\ read.limit \in Nat /\ read.pages \in Nat /\ IsRead(read)
<1>1. PICK r : r = read
  OBVIOUS
<1>2. ReadInProgress(r, top) /\ r.kind # "none"
  BY <1>1 DEF AndroidIInv
<1>3. PICK s \in AndroidSessions : r.session = {s} /\ WalkedBack(r, top[s])
  BY <1>2 DEF ReadInProgress
<1>4. r.after \in Cursor /\ r.limit \in Nat /\ r.pages \in Nat /\ IsRead(r)
  BY <1>2 DEF ReadInProgress
<1>5. Asked = s
  BY <1>1, <1>3 DEF Asked
<1> QED BY <1>1, <1>3, <1>4, <1>5

LEMMA HistoryArrivesKeeps ==
  ASSUME AndroidIInv, HistoryArrives
  PROVE  AndroidIInv'
<1>1. read.kind # "none"
  BY DEF HistoryArrives
<1>2. PICK s : s = Asked
  OBVIOUS
<1>3. s \in AndroidSessions /\ read.after \in Cursor
  BY <1>1, <1>2, AskedIs
<1>4. LogEndsOK /\ WatermarksOK
  BY DEF AndroidIInv
<1>5. top[s] \in Cursor
  BY <1>3, <1>4 DEF LogEndsOK
<1>6. PICK to : to = IF read.after < 0 THEN top[s] ELSE IF read.after <= top[s] THEN read.after - 1 ELSE top[s]
  OBVIOUS
<1>7. to \in Cursor /\ to <= top[s] /\ to \in Int
  BY <1>3, <1>5, <1>6 DEF Cursor
<1>8. PICK from \in IF to < 0 THEN {0} ELSE 0..to :
        /\ IF read.after < 0 THEN updateWatermark(s, to, "history") ELSE UNCHANGED watermarks
        /\ HistoryPage(s, from, to)
  BY <1>2, <1>6 DEF HistoryArrives
<1>9. from \in Nat /\ (from <= to \/ (from = 0 /\ to = -1))
  <2>1. CASE to < 0
    <3>1. to = -1 /\ from = 0
      BY <2>1, <1>7, <1>8 DEF Cursor
    <3> QED BY <3>1
  <2>2. CASE ~(to < 0)
    BY <2>2, <1>7, <1>8
  <2> QED BY <2>1, <2>2
<1>10. PICK kept : kept = NewestFit(SeqInterval(from, to))
  OBVIOUS
<1>11. PICK more : more = (from > 0 \/ kept.truncated)
  OBVIOUS
<1>12. PICK next : next = IF more THEN kept.events[1] ELSE -1
  OBVIOUS
<1>13. PICK x : x = [kind |-> "history", session |-> s, to |-> to, events |-> kept.events, hasMore |-> more,
                     nextBeforeSeq |-> next, lastSeq |-> watermarks'[s].lastSeq]
  OBVIOUS
<1>14. Answered(x)
  BY <1>8, <1>10, <1>11, <1>12, <1>13, Zenon DEF HistoryPage
<1>15. result' = x /\ read' = NoRead /\ UNCHANGED <<top, muxTold, cold>>
  BY <1>14 DEF Answered, hostSide
<1>16. LogEndsOK'
  BY <1>4, <1>15 DEF LogEndsOK
<1>17. Reaches(top, top')
  BY <1>4, <1>15, SameMarks
<1>18. WatermarksOK' /\ Rises(watermarks, watermarks')
  <2>1. CASE read.after < 0
    <3>1. updateWatermark(s, to, "history")
      BY <2>1, <1>8
    <3> QED BY <3>1, <1>3, <1>4, <1>7, <1>15, WatermarkRises
  <2>2. CASE ~(read.after < 0)
    <3>1. UNCHANGED <<top, watermarks>>
      BY <2>2, <1>8, <1>15
    <3> QED BY <3>1, <1>16, QuietStep
  <2> QED BY <2>1, <2>2
<1>19. ColdOK'
  BY <1>15, <1>17, <1>18, RestStays
<1>20. ReadInProgress(read, top)'
  BY <1>15, NoReadIs
<1>21. PageTold(x)
  <2>1. /\ from > 0 \/ kept.truncated => Run(kept.events, kept.events[1], to)
        /\ ~(from > 0 \/ kept.truncated) => Run(kept.events, 0, to)
    BY <1>7, <1>9, <1>10, PageBegins
  <2>2. x.events = kept.events /\ x.hasMore = more /\ x.nextBeforeSeq = next /\ x.to = to
    BY <1>13
  <2>3. more => Run(kept.events, next, to)
    BY <2>1, <1>11, <1>12
  <2>4. ~more => Run(kept.events, 0, to)
    BY <2>1, <1>11
  <2> QED BY <2>2, <2>3, <2>4, Zenon DEF PageTold
<1>22. x.kind = "history"
  BY <1>13
<1>23. Told(result, top, watermarks)'
  BY <1>15, <1>21, <1>22 DEF Told
<1> QED BY <1>16, <1>18, <1>19, <1>20, <1>23 DEF AndroidIInv

\* What a page of the copy's read does that begins at a sequence.
PageFrom(a, s, to, from) ==
  LET r == [a EXCEPT !.from = from, !.pages = @ + 1, !.tail = IF a.tail = Unknown THEN to ELSE @]
      over == from <= r.after \/ from = 0
  IN IF over \/ r.pages >= ScanPages
     THEN LET delta == DeltaAnswer(s, r, over) IN
          Answered(IF a.kind = "delta" THEN delta ELSE V3Answer(delta))
     ELSE read' = r /\ UNCHANGED <<hostSide, cold, result, reads>>

LEMMA AndroidPageKeeps ==
  ASSUME AndroidIInv, AndroidPage
  PROVE  AndroidIInv'
<1>1. read.kind # "none" /\ UNCHANGED watermarks
  BY DEF AndroidPage
<1>2. PICK s, a : s = Asked /\ a = read
  OBVIOUS
<1>3. /\ s \in AndroidSessions /\ a.session = {s} /\ WalkedBack(a, top[s])
      /\ a.after \in Cursor /\ a.limit \in Nat /\ a.pages \in Nat /\ IsRead(a)
  BY <1>1, <1>2, AskedIs
<1>4. LogEndsOK /\ WatermarksOK
  BY DEF AndroidIInv
<1>5. top[s] \in Cursor
  BY <1>3, <1>4 DEF LogEndsOK
<1>6. PICK to : to = IF a.tail = Unknown THEN top[s] ELSE a.from - 1
  OBVIOUS
<1>7. PICK tail : tail = IF a.tail = Unknown THEN to ELSE a.tail
  OBVIOUS
<1>8. /\ to \in Cursor /\ to <= tail /\ tail \in Cursor /\ tail <= top[s]
      /\ to \in Int /\ tail \in Int
  <2>1. CASE a.tail = Unknown
    BY <2>1, <1>5, <1>6, <1>7 DEF Cursor
  <2>2. CASE a.tail # Unknown
    <3>1. /\ a.tail \in Nat /\ a.tail <= top[s] /\ a.from \in Nat \ {0} /\ a.from <= a.tail
      BY <2>2, <1>3 DEF WalkedBack
    <3> QED BY <3>1, <2>2, <1>6, <1>7 DEF Cursor
  <2> QED BY <2>1, <2>2
<1>9. PICK from \in IF to < 0 THEN {0} ELSE 0..to :
        LET r == [a EXCEPT !.from = from, !.pages = @ + 1, !.tail = IF a.tail = Unknown THEN to ELSE @]
            over == from <= r.after \/ from = 0
        IN IF over \/ r.pages >= ScanPages
           THEN LET delta == DeltaAnswer(s, r, over) IN
                Answered(IF a.kind = "delta" THEN delta ELSE V3Answer(delta))
           ELSE read' = r /\ UNCHANGED <<hostSide, cold, result, reads>>
  <2>1. PICK from \in IF (IF read.tail = Unknown THEN top[Asked] ELSE read.from - 1) < 0 THEN {0}
                      ELSE 0..(IF read.tail = Unknown THEN top[Asked] ELSE read.from - 1) :
          PageFrom(read, Asked, IF read.tail = Unknown THEN top[Asked] ELSE read.from - 1, from)
    BY Zenon DEF AndroidPage, PageFrom
  <2>2. from \in IF to < 0 THEN {0} ELSE 0..to
    BY <2>1, <1>2, <1>6, Zenon
  <2>3. PageFrom(a, s, to, from)
    BY <2>1, <1>2, <1>6, Zenon
  <2> QED BY <2>2, <2>3, Zenon DEF PageFrom
<1>10. from \in Nat
  BY <1>8, <1>9
<1>11. PICK r : r = [a EXCEPT !.from = from, !.pages = @ + 1, !.tail = IF a.tail = Unknown THEN to ELSE @]
  OBVIOUS
<1>12. r = [kind |-> a.kind, session |-> a.session, after |-> a.after, limit |-> a.limit,
            from |-> from, tail |-> tail, pages |-> a.pages + 1]
  BY <1>3, <1>7, <1>11 DEF IsRead
<1>13. /\ IsRead(r) /\ r.kind = a.kind /\ r.session = {s} /\ r.after = a.after /\ r.limit = a.limit
       /\ r.from = from /\ r.tail = tail /\ r.pages = a.pages + 1
  BY <1>3, <1>12 DEF IsRead
<1>14. PICK over : over = (from <= r.after \/ from = 0)
  OBVIOUS
<1>15. CASE over \/ r.pages >= ScanPages
  <2>1. PICK d : d = DeltaAnswer(s, r, over)
    OBVIOUS
  <2>2. PICK x : x = IF a.kind = "delta" THEN d ELSE V3Answer(d)
    OBVIOUS
  <2>3. Answered(x)
    BY <1>9, <1>11, <1>14, <1>15, <2>1, <2>2, Zenon
  <2>4. result' = x /\ read' = NoRead /\ UNCHANGED <<top, muxTold, cold>>
    BY <2>3 DEF Answered, hostSide
  <2>5. watermarks[s] # NoWatermark => watermarks[s].lastSeq \in Int
    BY <1>3, <1>4 DEF WatermarksOK, KnownOf
  <2>6. over = (r.from <= r.after \/ r.from = 0)
    BY <1>13, <1>14, Zenon
  <2>7. r.from \in Nat /\ r.after \in Cursor /\ r.tail \in Int /\ r.limit \in Nat
    BY <1>3, <1>8, <1>10, <1>13
  <2>8. DeltaFor(d, s, r.tail)
    BY <2>1, <2>5, <2>6, <2>7, DeltaAnswerIs
  <2>9. DeltaFor(x, s, tail)
    <3>1. DeltaFor(d, s, tail) /\ tail \in Int
      BY <2>8, <1>8, <1>13
    <3>2. DeltaFor(V3Answer(d), s, tail)
      BY ONLY <3>1, V3AnswerIs
    <3> QED BY <3>1, <3>2, <2>2
  <2>10. DeltaTold(x, top) /\ x.kind = "delta"
    <3>1. x.kind = "delta" /\ Exact(x.events, x.after, x.through, tail)
      BY <2>9 DEF DeltaFor
    <3>2. tail \in Int /\ top[s] \in Int /\ tail <= top[s]
      BY <1>5, <1>8 DEF Cursor
    <3>3. Exact(x.events, x.after, x.through, top[s])
      BY <3>1, <3>2 DEF Exact
    <3>4. DeltaFor(x, s, top[s])
      BY <2>9, <3>3 DEF DeltaFor
    <3> QED BY <3>1, <3>4, <1>3 DEF DeltaTold
  <2>11. LogEndsOK'
    BY <2>4, <1>4 DEF LogEndsOK
  <2>12. WatermarksOK' /\ ColdOK'
    BY <1>1, <2>4, <2>11, QuietStep
  <2>13. ReadInProgress(read, top)'
    BY <2>4, NoReadIs
  <2>14. Told(result, top, watermarks)'
    BY <2>4, <2>10 DEF Told
  <2> QED BY <2>11, <2>12, <2>13, <2>14 DEF AndroidIInv
<1>16. CASE ~(over \/ r.pages >= ScanPages)
  <2>1. read' = r /\ UNCHANGED <<top, muxTold, cold, result>>
    <3>1. read' = r /\ UNCHANGED <<hostSide, cold, result, reads>>
      BY <1>9, <1>11, <1>14, <1>16, Zenon
    <3> QED BY <3>1 DEF hostSide
  <2>2. LogEndsOK'
    BY <2>1, <1>4 DEF LogEndsOK
  <2>3. WatermarksOK' /\ ColdOK' /\ Told(result, top, watermarks)'
    BY <1>1, <2>1, <2>2, QuietStep
  <2>4. ~(from <= r.after) /\ from # 0
    BY <1>14, <1>16
  <2>5. r.after < from /\ from \in Nat \ {0}
    BY <2>4, <1>3, <1>10, <1>13 DEF Cursor
  <2>6. ~(to < 0)
    BY <2>4, <1>9
  <2>7. from <= to /\ tail \in Nat /\ from <= tail
    BY <2>6, <1>8, <1>9, <1>10
  <2>8. WalkedBack(r, top[s])
    BY <2>5, <2>7, <1>8, <1>13 DEF WalkedBack
  <2>9. r.after \in Cursor /\ r.limit \in Nat /\ r.pages \in Nat
    BY <1>3, <1>13
  <2>10. ReadInProgress(r, top)
    BY <2>8, <2>9, <1>3, <1>13 DEF ReadInProgress
  <2>11. ReadInProgress(read, top)'
    BY <2>1, <2>10
  <2> QED BY <2>2, <2>3, <2>11 DEF AndroidIInv
<1> QED BY <1>15, <1>16

LEMMA AndroidInitially ==
  ASSUME AndroidInit
  PROVE  AndroidIInv
<1>1. /\ top \in [AndroidSessions -> {-1, 1}] /\ muxTold = [s \in AndroidSessions |-> Unknown]
      /\ watermarks = [s \in AndroidSessions |-> NoWatermark] /\ coldQueue = <<>> /\ coldTail = NoTail
      /\ read = NoRead /\ result = NoResult
  BY DEF AndroidInit
<1>2. \A s \in AndroidSessions : top[s] \in Cursor /\ Unknown \in Int /\ Unknown <= top[s]
  BY <1>1 DEF Unknown, Cursor
<1>3. LogEndsOK
  BY <1>1, <1>2 DEF LogEndsOK
<1>4. NoWatermark = [lastSeq |-> NoWatermark.lastSeq, source |-> NoWatermark.source] /\ NoWatermark.lastSeq = Unknown
  BY DEF NoWatermark
<1>5. WatermarksOK
  BY <1>1, <1>2, <1>4 DEF WatermarksOK, KnownOf
<1>6. ColdOK
  BY <1>1 DEF ColdOK, ColdReadOK
<1>7. ReadInProgress(read, top)
  BY <1>1, NoReadIs
<1>8. Told(result, top, watermarks)
  BY <1>1 DEF Told, NoResult
<1> QED BY <1>3, <1>5, <1>6, <1>7, <1>8 DEF AndroidIInv

LEMMA AndroidStep ==
  ASSUME AndroidIInv, [AndroidNext]_androidVars
  PROVE  AndroidIInv'
<1>1. ASSUME NEW s \in AndroidSessions, LogsGrow(s) \/ MuxTells(s) \/ DeltaAsked(s) \/ HistoryAsked(s)
      PROVE  AndroidIInv'
  BY <1>1, LogsGrowKeeps, MuxTellsKeeps, AskedKeeps
<1>2. CASE MuxOpens \/ MuxBreaks
  BY <1>2, MuxTurnsKeeps
<1>3. CASE TailAsked \/ TailRead \/ TailArrives \/ TailFails
  BY <1>3, TailAskedKeeps, TailReadKeeps, TailEndsKeeps
<1>4. ASSUME NEW version \in {2, 3}, Snapshot(version) PROVE AndroidIInv'
  BY <1>4, SnapshotKeeps
<1>5. CASE ReadFails \/ HistoryArrives \/ AndroidPage
  BY <1>5, ReadFailsKeeps, HistoryArrivesKeeps, AndroidPageKeeps
<1>6. CASE UNCHANGED androidVars
  <2>1. UNCHANGED <<top, muxTold, watermarks, cold, read, result>>
    BY <1>6 DEF androidVars, cold
  <2>2. LogEndsOK'
    BY <2>1 DEF AndroidIInv, LogEndsOK
  <2> QED BY <2>1, <2>2, QuietStep DEF AndroidIInv
<1> QED BY <1>1, <1>2, <1>3, <1>4, <1>5, <1>6 DEF AndroidNext

\* Logs, watermarks, tail reads and walks of the Android copy fit each other, and what was
\* answered is so.
THEOREM AndroidInvariantHolds == AndroidSpec => []AndroidIInv
<1>1. AndroidInit => AndroidIInv
  BY AndroidInitially
<1>2. AndroidIInv /\ [AndroidNext]_androidVars => AndroidIInv'
  BY AndroidStep
<1> QED BY <1>1, <1>2, PTL DEF AndroidSpec

\* What the Android copy answers has no hole: a delta goes on from the phone's cursor, a
\* cut one says that there is more, a history page begins where its cursor says, and no
\* tail is told that is not in the log or is taken back later.
THEOREM AndroidIsSound == AndroidSpec => []AndroidSound
<1>1. AndroidIInv => AndroidSound
  <2> SUFFICES ASSUME AndroidIInv PROVE AndroidSound
    OBVIOUS
  <2>1. PICK x, e, m : x = result /\ e = top /\ m = watermarks
    OBVIOUS
  <2>2. Told(x, e, m)
    BY <2>1 DEF AndroidIInv
  <2>3. ASSUME x.kind = "delta"
        PROVE  /\ Run(x.events, x.after + 1, x.through)
               /\ x.through <= e[x.session] \/ x.events = <<>>
               /\ Candid(x)
    <3>1. PICK s \in AndroidSessions : DeltaFor(x, s, e[s])
      BY <2>2, <2>3 DEF Told, DeltaTold
    <3>2. x.session = s /\ Exact(x.events, x.after, x.through, e[s]) /\ Candid(x)
      BY <3>1 DEF DeltaFor
    <3> QED BY <3>2 DEF Exact
  <2>4. DeltaContinuous
    BY <2>1, <2>3, Zenon DEF DeltaContinuous, Candid
  <2>5. HistoryContinuous
    BY <2>1, <2>2, Zenon DEF Told, PageTold, HistoryContinuous
  <2>6. TailsTrue
    <3>1. \A s \in AndroidSessions : watermarks[s].lastSeq <= top[s]
      BY DEF AndroidIInv, WatermarksOK, KnownOf
    <3>2. x.kind = "snapshot" => \A s \in DOMAIN x.rows : x.rows[s] <= m[s].lastSeq
      BY <2>2 DEF Told, RowsTold
    <3> QED BY <3>1, <3>2, <2>1 DEF TailsTrue
  <2> QED BY <2>4, <2>5, <2>6 DEF AndroidSound
<1> QED BY <1>1, AndroidInvariantHolds, PTL

-----------------------------------------------------------------------------
(***************************************************************************)
(* The Android copy: every phone gets the events in order and shows the    *)
(* asks that are open, and texts are bounded and read to their end, for    *)
(* any number of phones, asks and events and any bounds.                   *)
(***************************************************************************)
-----------------------------------------------------------------------------
(* Folds.                                                                  *)

\* Induction over the numbers, by their set.
LEMMA NumbersInductive ==
  ASSUME NEW S, 0 \in S, \A n \in Nat : n \in S => n + 1 \in S
  PROVE  Nat \subseteq S
<1> SUFFICES ASSUME Nat \ S # {} PROVE FALSE
  OBVIOUS
<1>1. PICK m \in Nat \ S : \A k \in Nat \ S : m <= k
  BY LeastNumber
<1>2. m # 0 /\ m - 1 \in Nat /\ m - 1 < m
  BY <1>1
<1>3. m - 1 \in S
  BY <1>1, <1>2
<1>4. (m - 1) + 1 \in S
  BY <1>2, <1>3
<1> QED BY <1>1, <1>4

\* What a fold has made of the elements of T, taken from the last one backwards.
Folded(g, base, step, n) ==
  g = [T \in SUBSET (1..n) |->
         IF T = {} THEN base ELSE step[<<g[T \ {Max(T)}], Max(T)>>]]

HasFold(V, base, step, n) == \E g \in [SUBSET (1..n) -> V] : Folded(g, base, step, n)

LEMMA LastOf ==
  ASSUME NEW k \in Nat, NEW T \in SUBSET (1..(k + 1)), k + 1 \in T
  PROVE  Max(T) = k + 1
<1> DEFINE m == Max(T)
<1>1. \A y \in T : k + 1 >= y
  OBVIOUS
<1>2. m \in T /\ \A y \in T : m >= y
  BY <1>1 DEF Max
<1> HIDE DEF m
<1>3. m \in 1..(k + 1) /\ m >= k + 1
  BY <1>2
<1>4. m = k + 1
  BY <1>3
<1> QED BY <1>4 DEF m

LEMMA LastIn ==
  ASSUME NEW n \in Nat, NEW T \in SUBSET (1..n), T # {}
  PROVE  Max(T) \in T /\ \A k \in T : k <= Max(T)
<1>1. PICK m \in T : \A k \in T : k <= m
  <2> DEFINE U == {n - k : k \in T}
  <2>1. U \in SUBSET Nat /\ U # {}
    <3>1. ASSUME NEW k \in T PROVE n - k \in Nat
      <4>1. k \in 1..n
        OBVIOUS
      <4> QED BY <4>1
    <3> QED BY <3>1
  <2>2. PICK u \in U : \A v \in U : u <= v
    BY <2>1, LeastNumber
  <2>3. PICK m \in T : u = n - m
    BY <2>2
  <2>4. ASSUME NEW k \in T PROVE k <= m
    <3>1. n - k \in U
      OBVIOUS
    <3>2. n - m <= n - k
      BY <2>2, <2>3, <3>1
    <3> QED BY <3>2
  <2> QED BY <2>4
<1>2. \A k \in T : m >= k
  BY <1>1
<1>3. Max(T) \in T /\ \A k \in T : Max(T) >= k
  BY <1>2 DEF Max
<1> QED BY <1>3

LEMMA FoldExists ==
  ASSUME NEW V, NEW base \in V, NEW n \in Nat, NEW step \in [V \X (1..n) -> V]
  PROVE  HasFold(V, base, step, n)
<1> DEFINE Good == {k \in Nat : k <= n => HasFold(V, base, step, k)}
<1>1. 0 \in Good
  <2> DEFINE g == [T \in SUBSET (1..0) |-> base]
             e == [T \in SUBSET (1..0) |->
                     IF T = {} THEN base ELSE step[<<g[T \ {Max(T)}], Max(T)>>]]
  <2>1. \A T \in SUBSET (1..0) : T = {}
    OBVIOUS
  <2>2. g = e /\ g \in [SUBSET (1..0) -> V]
    BY <2>1
  <2> HIDE DEF g
  <2>3. Folded(g, base, step, 0)
    BY <2>2 DEF Folded
  <2> QED BY <2>2, <2>3 DEF HasFold
<1>2. ASSUME NEW k \in Nat, k \in Good PROVE k + 1 \in Good
  <2> SUFFICES ASSUME k + 1 <= n PROVE HasFold(V, base, step, k + 1)
    OBVIOUS
  <2>0. HasFold(V, base, step, k)
    BY <1>2
  <2> HIDE DEF Good
  <2>1. PICK g \in [SUBSET (1..k) -> V] : Folded(g, base, step, k)
    BY <2>0 DEF HasFold
  <2> DEFINE f == [T \in SUBSET (1..(k + 1)) |->
                     IF k + 1 \in T THEN step[<<g[T \ {k + 1}], k + 1>>] ELSE g[T]]
             e == [T \in SUBSET (1..(k + 1)) |->
                     IF T = {} THEN base ELSE step[<<f[T \ {Max(T)}], Max(T)>>]]
  <2>2. \A T \in SUBSET (1..(k + 1)) : T \ {k + 1} \in SUBSET (1..k)
    OBVIOUS
  <2>3. k + 1 \in 1..n
    OBVIOUS
  <2>4. f \in [SUBSET (1..(k + 1)) -> V]
    <3> SUFFICES ASSUME NEW T \in SUBSET (1..(k + 1))
                 PROVE  (IF k + 1 \in T THEN step[<<g[T \ {k + 1}], k + 1>>] ELSE g[T]) \in V
      OBVIOUS
    <3>1. CASE k + 1 \in T
      <4>1. g[T \ {k + 1}] \in V
        BY <2>2
      <4>2. <<g[T \ {k + 1}], k + 1>> \in V \X (1..n)
        BY <2>3, <4>1
      <4> QED BY <3>1, <4>2
    <3>2. CASE k + 1 \notin T
      <4>1. T \in SUBSET (1..k)
        BY <2>2, <3>2
      <4> QED BY <3>2, <4>1
    <3> QED BY <3>1, <3>2
  <2>5. ASSUME NEW T \in SUBSET (1..(k + 1)) PROVE f[T] = e[T]
    <3>1. CASE k + 1 \in T
      <4>1. Max(T) = k + 1 /\ T # {}
        BY <3>1, LastOf
      <4>2. k + 1 \notin T \ {k + 1} /\ T \ {k + 1} \in SUBSET (1..(k + 1))
        OBVIOUS
      <4>3. f[T \ {k + 1}] = g[T \ {k + 1}]
        BY <4>2
      <4>4. f[T] = step[<<g[T \ {k + 1}], k + 1>>]
        BY <3>1
      <4>5. e[T] = step[<<f[T \ {Max(T)}], Max(T)>>]
        BY <4>1
      <4> QED BY <4>1, <4>3, <4>4, <4>5
    <3>2. CASE k + 1 \notin T
      <4>1. T \in SUBSET (1..k)
        BY <2>2, <3>2
      <4>2. f[T] = g[T]
        BY <3>2
      <4>3. g[T] = IF T = {} THEN base ELSE step[<<g[T \ {Max(T)}], Max(T)>>]
        BY <2>1, <4>1 DEF Folded
      <4>4. T \ {Max(T)} \in SUBSET (1..(k + 1)) /\ k + 1 \notin T \ {Max(T)}
        BY <3>2
      <4>5. f[T \ {Max(T)}] = g[T \ {Max(T)}]
        BY <4>4
      <4>6. e[T] = IF T = {} THEN base ELSE step[<<f[T \ {Max(T)}], Max(T)>>]
        OBVIOUS
      <4> QED BY <4>2, <4>3, <4>5, <4>6
    <3> QED BY <3>1, <3>2
  <2>6. f = e
    BY <2>5
  <2> HIDE DEF f
  <2>7. Folded(f, base, step, k + 1)
    BY <2>6 DEF Folded
  <2> QED BY <2>4, <2>7 DEF HasFold
<1> HIDE DEF Good
<1>3. Nat \subseteq Good
  BY <1>1, <1>2, NumbersInductive
<1> QED BY <1>3 DEF Good

Stepped(g, base, step, n) == g[{}] = base /\ \A m \in 1..n : g[1..m] = step[<<g[1..(m - 1)], m>>]

LEMMA FoldSteps ==
  ASSUME NEW n \in Nat, NEW base, NEW step, NEW g, Folded(g, base, step, n)
  PROVE  Stepped(g, base, step, n)
<1>1. \A T \in SUBSET (1..n) :
        g[T] = IF T = {} THEN base ELSE step[<<g[T \ {Max(T)}], Max(T)>>]
  BY DEF Folded
<1>2. ASSUME NEW m \in 1..n PROVE g[1..m] = step[<<g[1..(m - 1)], m>>]
  <2>1. PICK k \in Nat : k + 1 = m
    <3>1. m - 1 \in Nat /\ (m - 1) + 1 = m
      OBVIOUS
    <3> QED BY <3>1
  <2>2. 1..m \in SUBSET (1..(k + 1)) /\ k + 1 \in 1..m
    BY <2>1
  <2>3. Max(1..m) = m
    BY <2>1, <2>2, LastOf
  <2>4. (1..m) \ {m} = 1..(m - 1) /\ 1..m # {} /\ 1..m \in SUBSET (1..n)
    OBVIOUS
  <2> QED BY <1>1, <2>3, <2>4
<1> QED BY <1>1, <1>2 DEF Stepped

\* What an appended sequence contains.
LEMMA AppendContains ==
  ASSUME NEW S, NEW seq \in Seq(S), NEW e \in S, NEW long, long = Append(seq, e)
  PROVE  \A z : Contains(long, z) <=> z = e \/ Contains(seq, z)
<1>1. PICK n : n = Len(seq)
  OBVIOUS
<1>2. /\ n \in Nat /\ Len(long) = n + 1 /\ long[n + 1] = e
      /\ \A i \in 1..n : long[i] = seq[i]
  BY <1>1, AppendProperties, LenProperties
<1>3. /\ n + 1 \in 1..(n + 1) /\ \A i \in 1..(n + 1) : i = n + 1 \/ i \in 1..n
      /\ \A i \in 1..n : i \in 1..(n + 1)
  BY <1>2
<1>4. \A z : (\E i \in 1..(n + 1) : long[i] = z) <=> z = e \/ \E i \in 1..n : seq[i] = z
  BY <1>2, <1>3
<1> QED BY <1>1, <1>2, <1>4 DEF Contains

-----------------------------------------------------------------------------
(* A subscriber and what is offered to it.                                 *)

FeedItems ==
  {Event(n) : n \in 0..LastEvent} \cup {FeedItem("stream-error", 0), Overflowed}
    \cup {FeedItem("requested", a) : a \in FeedAsks} \cup {FeedItem("resolved", a) : a \in FeedAsks}

Subs == [done : BOOLEAN, since : -1..LastEvent, last : -1..LastEvent, seen : Seq(FeedItems),
         queue : Seq(FeedItems), taken : Seq(0..LastEvent), asks : SUBSET FeedAsks]

AboutAsk(item, a) == item.type \in {"requested", "resolved"} /\ item.id = a

\* What came out and what waits is in the order of the log, and while the subscriber
\* lives all of it is known as its last.
FeedOrder(sub) ==
  /\ Increasing(sub.taken) /\ \A i \in 1..Len(sub.taken) : sub.taken[i] > sub.since
  /\ \A j \in 1..Len(sub.queue) : sub.queue[j].type = "event" =>
       /\ sub.queue[j].id > sub.since
       /\ \A i \in 1..Len(sub.taken) : sub.taken[i] < sub.queue[j].id
       /\ \A k \in 1..(j - 1) : sub.queue[k].type = "event" => sub.queue[k].id < sub.queue[j].id
  /\ ~sub.done =>
       /\ \A i \in 1..Len(sub.taken) : sub.taken[i] <= sub.last
       /\ \A j \in 1..Len(sub.queue) : sub.queue[j].type = "event" => sub.queue[j].id <= sub.last

LEMMA FeedItemHas ==
  ASSUME NEW item \in FeedItems
  PROVE  /\ item.type = "event" => item.id \in 0..LastEvent
         /\ \A a : AboutAsk(item, a) => a \in FeedAsks /\ item \in {FeedItem("requested", a), FeedItem("resolved", a)}
         /\ item = FeedItem(item.type, item.id)
BY DEF FeedItems, FeedItem, Event, Overflowed, AboutAsk

LEMMA FeedItemIs ==
  ASSUME NEW kind, NEW n
  PROVE  FeedItem(kind, n).type = kind /\ FeedItem(kind, n).id = n
BY DEF FeedItem

LEMMA FeedItemsAre ==
  /\ \A n \in 0..LastEvent : Event(n) \in FeedItems /\ Event(n).type = "event" /\ Event(n).id = n
  /\ FeedItem("stream-error", 0) \in FeedItems /\ Overflowed \in FeedItems
  /\ \A a \in FeedAsks : FeedItem("requested", a) \in FeedItems /\ FeedItem("resolved", a) \in FeedItems
  /\ Overflowed.type = "stream-overflow"
BY DEF FeedItems, FeedItem, Event, Overflowed

LEMMA SubHas ==
  ASSUME NEW sub \in Subs
  PROVE  /\ sub.done \in BOOLEAN /\ sub.since \in -1..LastEvent /\ sub.last \in -1..LastEvent
         /\ sub.seen \in Seq(FeedItems) /\ sub.queue \in Seq(FeedItems)
         /\ sub.taken \in Seq(0..LastEvent) /\ sub.asks \in SUBSET FeedAsks
         /\ Len(sub.queue) \in Nat /\ Len(sub.taken) \in Nat /\ Len(sub.seen) \in Nat
BY LenProperties DEF Subs

\* WithSeen: nothing is remembered that was not, but the item.
LEMMA WithSeenIs ==
  ASSUME NEW seen \in Seq(FeedItems), NEW item \in FeedItems, NEW after, after = WithSeen(seen, item)
  PROVE  after \in Seq(FeedItems) /\ \A z : Contains(after, z) => Contains(seen, z) \/ (z = item /\ Named(item))
<1>1. CASE ~Named(item)
  BY <1>1 DEF WithSeen
<1>2. CASE Named(item)
  <2>1. PICK long : long = Append(seen, item)
    OBVIOUS
  <2>2. long \in Seq(FeedItems) /\ long # <<>>
    BY <2>1, AppendProperties
  <2>3. \A z : Contains(long, z) => Contains(seen, z) \/ z = item
    BY <2>1, AppendContains
  <2>4. CASE Len(seen) < SeenBound
    BY <1>2, <2>1, <2>2, <2>3, <2>4 DEF WithSeen
  <2>5. CASE ~(Len(seen) < SeenBound)
    <3>1. after = Tail(long)
      BY <1>2, <2>1, <2>5 DEF WithSeen
    <3>2. /\ after \in Seq(FeedItems) /\ Len(after) = Len(long) - 1
          /\ \A i \in 1..Len(after) : after[i] = long[i + 1]
      BY <2>2, <3>1, HeadTailProperties
    <3>3. Len(long) \in Nat /\ Len(after) \in Nat
      BY <2>2, <3>2, LenProperties
    <3>4. \A i \in 1..Len(after) : i + 1 \in 1..Len(long)
      BY <3>2, <3>3
    <3>5. \A z : Contains(after, z) => Contains(long, z)
      BY <3>2, <3>4 DEF Contains
    <3> QED BY <1>2, <2>3, <3>2, <3>5
  <2> QED BY <2>4, <2>5
<1> QED BY <1>1, <1>2

\* A subscriber that nothing more is told.
LEMMA FeedFailedIs ==
  ASSUME NEW sub \in Subs, FeedOrder(sub), NEW t, t = FeedFailed(sub)
  PROVE  t \in Subs /\ FeedOrder(t) /\ t.done /\ t.seen = <<>>
<1>1. t = [sub EXCEPT !.queue = <<Overflowed>>, !.done = TRUE, !.last = -1, !.seen = <<>>]
  BY DEF FeedFailed
<1>2. /\ t.done = TRUE /\ t.seen = <<>> /\ t.queue = <<Overflowed>> /\ t.last = -1
      /\ t.since = sub.since /\ t.taken = sub.taken /\ t.asks = sub.asks
  BY <1>1 DEF Subs
<1>3. <<Overflowed>> \in Seq(FeedItems) /\ <<>> \in Seq(FeedItems) /\ -1 \in -1..LastEvent
  BY FeedItemsAre, AndroidEventsAssumption
<1>4. t \in Subs
  BY <1>1, <1>3 DEF Subs
<1>5. \A j \in 1..Len(t.queue) : t.queue[j].type # "event"
  BY <1>2, FeedItemsAre
<1>6. Increasing(t.taken) /\ \A i \in 1..Len(t.taken) : t.taken[i] > t.since
  BY <1>2 DEF FeedOrder
<1>7. FeedOrder(t)
  BY <1>2, <1>5, <1>6 DEF FeedOrder
<1> QED BY <1>2, <1>4, <1>7

\* What a phone will show of an ask once it has taken what waits: the last word decides.
LastWord(queue, j, a) ==
  AboutAsk(queue[j], a) /\ \A k \in 1..Len(queue) : k > j => ~AboutAsk(queue[k], a)

FeedTells(queue, awaited, open, a) ==
  /\ \A j \in 1..Len(queue) : LastWord(queue, j, a) => (queue[j].type = "requested" <=> a \in open)
  /\ (\A j \in 1..Len(queue) : ~AboutAsk(queue[j], a)) => (a \in awaited <=> a \in open)

LEMMA FeedTellsLonger ==
  ASSUME NEW queue \in Seq(FeedItems), NEW item \in FeedItems, NEW long, long = Append(queue, item),
         NEW awaited, NEW a, NEW open, NEW was,
         AboutAsk(item, a) => (a \in open <=> item.type = "requested"),
         ~AboutAsk(item, a) => FeedTells(queue, awaited, was, a) /\ (a \in open <=> a \in was)
  PROVE  FeedTells(long, awaited, open, a)
<1>1. PICK n : n = Len(queue)
  OBVIOUS
<1>2. /\ n \in Nat /\ Len(long) = n + 1 /\ long[n + 1] = item
      /\ \A i \in 1..n : long[i] = queue[i]
  BY <1>1, AppendProperties, LenProperties
<1>3. /\ n + 1 \in 1..(n + 1) /\ \A i \in 1..(n + 1) : i = n + 1 \/ i \in 1..n
      /\ \A i \in 1..n : i \in 1..(n + 1) /\ n + 1 > i
  BY <1>2
<1>4. CASE AboutAsk(item, a)
  <2>1. \A j \in 1..(n + 1) : LastWord(long, j, a) => j = n + 1
    BY <1>2, <1>3, <1>4 DEF LastWord
  <2>2. ~(\A j \in 1..(n + 1) : ~AboutAsk(long[j], a))
    BY <1>2, <1>3, <1>4
  <2> QED BY <1>2, <1>4, <2>1, <2>2 DEF FeedTells
<1>5. CASE ~AboutAsk(item, a)
  <2>1. \A j \in 1..(n + 1) : LastWord(long, j, a) => j \in 1..n /\ LastWord(queue, j, a)
    BY <1>1, <1>2, <1>3, <1>5 DEF LastWord
  <2>2. (\A j \in 1..(n + 1) : ~AboutAsk(long[j], a)) => \A j \in 1..n : ~AboutAsk(queue[j], a)
    BY <1>2, <1>3
  <2>3. FeedTells(queue, awaited, was, a) /\ (a \in open <=> a \in was)
    BY <1>5
  <2>4. \A j \in 1..(n + 1) : LastWord(long, j, a) => (long[j].type = "requested" <=> a \in open)
    BY <1>1, <1>2, <2>1, <2>3 DEF FeedTells
  <2>5. (\A j \in 1..(n + 1) : ~AboutAsk(long[j], a)) => (a \in awaited <=> a \in open)
    BY <1>1, <2>2, <2>3 DEF FeedTells
  <2> QED BY <1>2, <2>4, <2>5 DEF FeedTells
<1> QED BY <1>4, <1>5

LEMMA FeedTellsRead ==
  ASSUME NEW queue \in Seq(FeedItems), queue # <<>>, NEW rest, rest = Tail(queue),
         NEW item, item = Head(queue), NEW awaited, NEW seemed, NEW a, NEW open,
         FeedTells(queue, awaited, open, a),
         IF AboutAsk(item, a) THEN a \in seemed <=> item.type = "requested" ELSE a \in seemed <=> a \in awaited
  PROVE  FeedTells(rest, seemed, open, a)
<1>1. PICK n : n = Len(rest)
  OBVIOUS
<1>2. /\ n \in Nat /\ Len(queue) = n + 1 /\ queue[1] = item
      /\ \A i \in 1..n : rest[i] = queue[i + 1]
  <2>1. /\ rest \in Seq(FeedItems) /\ Len(rest) = Len(queue) - 1
        /\ \A i \in 1..Len(rest) : rest[i] = queue[i + 1]
    BY HeadTailProperties
  <2>2. Len(queue) \in Nat /\ n \in Nat
    BY <1>1, <2>1, LenProperties
  <2>3. Len(queue) = n + 1
    BY <1>1, <2>1, <2>2
  <2>4. item = queue[1]
    OBVIOUS
  <2> QED BY <1>1, <2>1, <2>2, <2>3, <2>4
<1>3. /\ \A i \in 1..n : i + 1 \in 1..(n + 1)
      /\ \A k \in 1..(n + 1) : k = 1 \/ \E i \in 1..n : k = i + 1
      /\ 1 \in 1..(n + 1)
  <2>1. ASSUME NEW k \in 1..(n + 1), k # 1 PROVE k - 1 \in 1..n /\ k = (k - 1) + 1
    BY <1>2, <2>1
  <2>2. \A i \in 1..n : i + 1 \in 1..(n + 1)
    BY <1>2
  <2>3. 1 \in 1..(n + 1)
    BY <1>2
  <2>4. \A k \in 1..(n + 1) : k = 1 \/ \E i \in 1..n : k = i + 1
    BY <2>1
  <2> QED BY <2>2, <2>3, <2>4
<1>4. ASSUME NEW j \in 1..n, LastWord(rest, j, a) PROVE rest[j].type = "requested" <=> a \in open
  <2>1. \A k \in 1..(n + 1) : k > j + 1 => ~AboutAsk(queue[k], a)
    <3>1. ASSUME NEW k \in 1..(n + 1), k > j + 1 PROVE ~AboutAsk(queue[k], a)
      <4>1. k - 1 \in 1..n /\ k - 1 > j /\ (k - 1) + 1 = k
        BY <1>2, <3>1
      <4>2. ~AboutAsk(rest[k - 1], a)
        BY <1>1, <1>4, <4>1 DEF LastWord
      <4> QED BY <1>2, <4>1, <4>2
    <3> QED BY <3>1
  <2>2. AboutAsk(queue[j + 1], a) /\ j + 1 \in 1..(n + 1)
    BY <1>2, <1>3, <1>4 DEF LastWord
  <2>3. LastWord(queue, j + 1, a)
    BY <1>2, <2>1, <2>2 DEF LastWord
  <2> QED BY <1>2, <2>2, <2>3 DEF FeedTells
<1>5. ASSUME \A j \in 1..n : ~AboutAsk(rest[j], a) PROVE a \in seemed <=> a \in open
  <2>1. \A i \in 1..n : ~AboutAsk(queue[i + 1], a)
    BY <1>2, <1>5
  <2>2. CASE AboutAsk(item, a)
    <3>1. \A k \in 1..(n + 1) : k > 1 => ~AboutAsk(queue[k], a)
      BY <1>3, <2>1
    <3>2. LastWord(queue, 1, a)
      BY <1>2, <2>2, <3>1 DEF LastWord
    <3> QED BY <1>2, <1>3, <2>2, <3>2 DEF FeedTells
  <2>3. CASE ~AboutAsk(item, a)
    <3>1. \A k \in 1..(n + 1) : ~AboutAsk(queue[k], a)
      BY <1>2, <1>3, <2>1, <2>3
    <3> QED BY <1>2, <2>3, <3>1 DEF FeedTells
  <2> QED BY <2>2, <2>3
<1> QED BY <1>1, <1>4, <1>5 DEF FeedTells

\* enqueue, case by case.
EnqueuedTo(sub, t, item) ==
  \/ sub.done /\ t = sub
  \/ t.done /\ t.seen = <<>>
  \/ /\ ~sub.done /\ ~t.done /\ t.asks = sub.asks /\ t.queue = sub.queue /\ t.seen = sub.seen
     /\ item.type = "event" \/ SeenAlready(sub, item)
  \/ /\ ~sub.done /\ ~t.done /\ t.asks = sub.asks /\ t.queue = Append(sub.queue, item)
     /\ \A z : Contains(t.seen, z) => Contains(sub.seen, z) \/ (z = item /\ Named(item))

LEMMA FeedEnqueuedIs ==
  ASSUME NEW sub \in Subs, FeedOrder(sub), NEW item \in FeedItems, NEW t, t = FeedEnqueued(sub, item)
  PROVE  t \in Subs /\ FeedOrder(t) /\ EnqueuedTo(sub, t, item)
<1>1. CASE sub.done \/ (item.type = "event" /\ (item.id <= sub.last \/ item.id <= sub.since))
  <2>1. t = sub
    BY <1>1 DEF FeedEnqueued
  <2> QED BY <1>1, <2>1, SubHas DEF EnqueuedTo
<1>2. CASE ~(sub.done \/ (item.type = "event" /\ (item.id <= sub.last \/ item.id <= sub.since)))
  <2>1. PICK last : last = IF item.type = "event" THEN item.id ELSE sub.last
    OBVIOUS
  <2>2. PICK at : at = [sub EXCEPT !.last = last]
    OBVIOUS
  <2>3. t = Offered(at, item)
    BY <1>2, <2>1, <2>2 DEF FeedEnqueued
  <2>4. last \in -1..LastEvent /\ LastEvent \in Nat /\ sub.last \in Int /\ sub.since \in Int
    BY <2>1, FeedItemHas, SubHas, AndroidEventsAssumption
  <2>5. /\ at \in Subs /\ at.last = last /\ at.queue = sub.queue /\ at.taken = sub.taken
        /\ at.since = sub.since /\ at.done = sub.done /\ at.seen = sub.seen /\ at.asks = sub.asks
    BY <2>2, <2>4 DEF Subs
  <2>6. ~sub.done /\ item.type = "event" => item.id \in Int /\ item.id > sub.last /\ item.id > sub.since
    <3>1. item.type = "event" => item.id \in Int
      BY <2>4, FeedItemHas
    <3> QED BY <1>2, <2>4, <3>1
  <2>7. last \in Int /\ sub.last <= last
    BY <1>2, <2>1, <2>4, <2>6
  <2>8. /\ \A i \in 1..Len(sub.taken) : sub.taken[i] \in Int /\ sub.taken[i] <= sub.last
        /\ \A j \in 1..Len(sub.queue) : sub.queue[j].type = "event" =>
             sub.queue[j].id \in Int /\ sub.queue[j].id <= sub.last
    <3>1. \A i \in 1..Len(sub.taken) : sub.taken[i] \in 0..LastEvent
      BY SubHas, ElementOfSeq
    <3>2. \A j \in 1..Len(sub.queue) : sub.queue[j] \in FeedItems
      BY SubHas, ElementOfSeq
    <3>3. \A j \in 1..Len(sub.queue) : sub.queue[j].type = "event" => sub.queue[j].id \in 0..LastEvent
      BY <3>2, FeedItemHas
    <3> QED BY <1>2, <2>4, <3>1, <3>3 DEF FeedOrder
  <2>9. /\ \A i \in 1..Len(sub.taken) : sub.taken[i] <= last
        /\ \A j \in 1..Len(sub.queue) : sub.queue[j].type = "event" => sub.queue[j].id <= last
    BY <2>4, <2>7, <2>8
  <2>10. FeedOrder(at)
    BY <2>5, <2>9 DEF FeedOrder
  <2>11. CASE SeenAlready(sub, item)
    <3>1. t = at
      BY <2>3, <2>5, <2>11 DEF Offered, SeenAlready
    <3> QED BY <1>2, <2>5, <2>10, <2>11, <3>1 DEF EnqueuedTo
  <2>12. CASE ~SeenAlready(sub, item) /\ Len(sub.queue) >= QueueBound
    <3>1. t = FeedFailed(at)
      BY <2>3, <2>5, <2>12 DEF Offered, SeenAlready
    <3> QED BY <2>5, <2>10, <3>1, FeedFailedIs DEF EnqueuedTo
  <2>13. CASE ~SeenAlready(sub, item) /\ ~(Len(sub.queue) >= QueueBound)
    <3>1. PICK long, seen : long = Append(sub.queue, item) /\ seen = WithSeen(sub.seen, item)
      OBVIOUS
    <3>2. t = [at EXCEPT !.queue = long, !.seen = seen]
      BY <2>3, <2>5, <2>13, <3>1 DEF Offered, SeenAlready
    <3>3. /\ seen \in Seq(FeedItems)
          /\ \A z : Contains(seen, z) => Contains(sub.seen, z) \/ (z = item /\ Named(item))
      BY <3>1, SubHas, WithSeenIs
    <3>4. PICK n : n = Len(sub.queue)
      OBVIOUS
    <3>5. /\ long \in Seq(FeedItems) /\ n \in Nat /\ Len(long) = n + 1 /\ long[n + 1] = item
          /\ \A i \in 1..n : long[i] = sub.queue[i]
      BY <3>1, <3>4, SubHas, AppendProperties
    <3>6. /\ t.done = sub.done /\ t.seen = seen /\ t.queue = long /\ t.last = last
          /\ t.since = sub.since /\ t.taken = sub.taken /\ t.asks = sub.asks
      BY <2>5, <3>2 DEF Subs
    <3>7. t \in Subs
      BY <2>5, <3>2, <3>3, <3>5 DEF Subs
    <3>8. ASSUME NEW j \in 1..(n + 1), long[j].type = "event"
          PROVE  /\ long[j].id > sub.since /\ long[j].id <= last
                 /\ \A i \in 1..Len(sub.taken) : sub.taken[i] < long[j].id
                 /\ \A k \in 1..(j - 1) : long[k].type = "event" => long[k].id < long[j].id
      <4>1. CASE j \in 1..n
        <5>1. \A k \in 1..(j - 1) : long[k] = sub.queue[k]
          BY <3>5, <4>1
        <5>2. long[j] = sub.queue[j]
          BY <3>5, <4>1
        <5> QED BY <2>9, <3>4, <3>8, <4>1, <5>1, <5>2 DEF FeedOrder
      <4>2. CASE j = n + 1
        <5>1. long[j] = item /\ item.type = "event" /\ last = item.id
          BY <2>1, <3>5, <3>8, <4>2
        <5>2. ASSUME NEW k \in 1..(j - 1), long[k].type = "event" PROVE long[k].id < item.id
          <6>1. k \in 1..n /\ long[k] = sub.queue[k]
            BY <3>5, <4>2
          <6>2. sub.queue[k].id \in Int /\ sub.queue[k].id <= sub.last
            BY <2>8, <3>4, <5>2, <6>1
          <6>3. sub.queue[k].id < item.id
            BY <1>2, <2>4, <2>6, <5>1, <6>2
          <6> QED BY <6>1, <6>3
        <5>3. \A i \in 1..Len(sub.taken) : sub.taken[i] < item.id
          BY <1>2, <2>4, <2>6, <2>8, <5>1
        <5> QED BY <1>2, <2>4, <2>6, <2>7, <5>1, <5>2, <5>3
      <4> QED BY <3>5, <4>1, <4>2
    <3>9. FeedOrder(t)
      BY <2>9, <3>5, <3>6, <3>8 DEF FeedOrder
    <3> QED BY <1>2, <3>1, <3>3, <3>6, <3>7, <3>9 DEF EnqueuedTo
  <2> QED BY <2>11, <2>12, <2>13
<1> QED BY <1>1, <1>2

\* What a subscriber remembers was told, and an ask that it was told is open or over.
SeenTrue(seen, open, hosts) ==
  \A a \in FeedAsks :
    /\ Contains(seen, FeedItem("requested", a)) => a \in open \/ hosts[a] = "closed"
    /\ Contains(seen, FeedItem("resolved", a)) => hosts[a] = "closed"

SubSound(sub, open, hosts) ==
  /\ sub \in Subs /\ FeedOrder(sub) /\ SeenTrue(sub.seen, open, hosts)
  /\ ~sub.done => \A a \in FeedAsks : FeedTells(sub.queue, sub.asks, open, a)

NothingReopens(hosts, later) == \A a \in FeedAsks : hosts[a] = "closed" => later[a] = "closed"

LEMMA NoneSeen ==
  ASSUME NEW open, NEW hosts
  PROVE  SeenTrue(<<>>, open, hosts)
<1>1. \A z : ~Contains(<<>>, z)
  BY EmptySeq DEF Contains
<1> QED BY <1>1 DEF SeenTrue

LEMMA SubHears ==
  ASSUME NEW sub, NEW open, NEW hosts, NEW later, SubSound(sub, open, hosts), NothingReopens(hosts, later)
  PROVE  SubSound(sub, open, later)
BY DEF SubSound, SeenTrue, NothingReopens

\* Whatever is enqueued, asks are told as they are.
LEMMA SubTold ==
  ASSUME NEW sub, NEW open, NEW hosts, SubSound(sub, open, hosts), NEW item \in FeedItems,
         NEW now, NEW later, NothingReopens(hosts, later),
         NEW kind, kind = item.type, NEW b, b = item.id,
         \/ kind \notin {"requested", "resolved"} /\ now = open
         \/ b \in FeedAsks /\ kind = "requested" /\ now = open \cup {b} /\ hosts[b] # "closed"
         \/ b \in FeedAsks /\ kind = "resolved" /\ now = open \ {b} /\ hosts[b] # "closed" /\ later[b] = "closed",
         NEW t, t = FeedEnqueued(sub, item)
  PROVE  SubSound(t, now, later)
<1>1. /\ sub \in Subs /\ FeedOrder(sub) /\ SeenTrue(sub.seen, open, hosts)
      /\ ~sub.done => \A a \in FeedAsks : FeedTells(sub.queue, sub.asks, open, a)
  BY DEF SubSound
<1>2. t \in Subs /\ FeedOrder(t) /\ EnqueuedTo(sub, t, item)
  BY <1>1, FeedEnqueuedIs
<1>3. \A a \in FeedAsks : a \in open => a \in now \/ later[a] = "closed"
  OBVIOUS
<1>4. SeenTrue(sub.seen, now, later)
  BY <1>1, <1>3 DEF SeenTrue, NothingReopens
<1>5. item = FeedItem(kind, b)
  BY FeedItemHas
<1>6. ASSUME NEW seen, \A z : Contains(seen, z) => Contains(sub.seen, z) \/ z = item
      PROVE  SeenTrue(seen, now, later)
  <2> SUFFICES ASSUME NEW a \in FeedAsks
               PROVE  /\ Contains(seen, FeedItem("requested", a)) => a \in now \/ later[a] = "closed"
                      /\ Contains(seen, FeedItem("resolved", a)) => later[a] = "closed"
    BY DEF SeenTrue
  <2>1. FeedItem("requested", a) = item => kind = "requested" /\ b = a
    BY FeedItemIs
  <2>2. FeedItem("resolved", a) = item => kind = "resolved" /\ b = a
    BY FeedItemIs
  <2>4. Contains(seen, FeedItem("resolved", a)) => later[a] = "closed"
    BY <2>2, <1>4, <1>6 DEF SeenTrue
  <2>5. Contains(seen, FeedItem("requested", a)) => a \in now \/ later[a] = "closed"
    BY <2>1, <1>4, <1>6 DEF SeenTrue
  <2> QED BY <2>4, <2>5
<1>7. \A a \in FeedAsks : ~AboutAsk(item, a) => (a \in now <=> a \in open)
  BY DEF AboutAsk
<1>8. \A a \in FeedAsks : AboutAsk(item, a) => (a \in now <=> item.type = "requested")
  BY DEF AboutAsk
<1>9. CASE sub.done /\ t = sub
  BY <1>1, <1>2, <1>4, <1>9 DEF SubSound
<1>10. CASE t.done /\ t.seen = <<>>
  BY <1>2, <1>10, NoneSeen DEF SubSound
<1>11. CASE /\ ~sub.done /\ ~t.done /\ t.asks = sub.asks /\ t.queue = sub.queue /\ t.seen = sub.seen
            /\ item.type = "event" \/ SeenAlready(sub, item)
  <2>1. ASSUME NEW a \in FeedAsks PROVE a \in now <=> a \in open
    <3>1. CASE ~AboutAsk(item, a)
      BY <1>7, <3>1
    <3>2. CASE AboutAsk(item, a)
      <4>1. Contains(sub.seen, item) /\ kind \in {"requested", "resolved"} /\ b = a
        BY <1>11, <3>2 DEF SeenAlready, AboutAsk
      <4>2. kind = "requested" => a \in open \/ hosts[a] = "closed"
        BY <1>1, <1>5, <4>1 DEF SeenTrue
      <4>3. kind = "resolved" => hosts[a] = "closed"
        BY <1>1, <1>5, <4>1 DEF SeenTrue
      <4> QED BY <4>1, <4>2, <4>3
    <3> QED BY <3>1, <3>2
  <2>2. \A a \in FeedAsks : FeedTells(t.queue, t.asks, now, a)
    BY <1>1, <1>11, <2>1
  <2> QED BY <1>2, <1>4, <1>11, <2>2 DEF SubSound
<1>12. CASE /\ ~sub.done /\ ~t.done /\ t.asks = sub.asks /\ t.queue = Append(sub.queue, item)
            /\ \A z : Contains(t.seen, z) => Contains(sub.seen, z) \/ (z = item /\ Named(item))
  <2>1. ASSUME NEW a \in FeedAsks PROVE FeedTells(t.queue, t.asks, now, a)
    <3>1. FeedTells(sub.queue, sub.asks, open, a)
      BY <1>1, <1>12
    <3>2. sub.queue \in Seq(FeedItems)
      BY <1>1, SubHas
    <3>3. /\ AboutAsk(item, a) => (a \in now <=> item.type = "requested")
          /\ ~AboutAsk(item, a) => FeedTells(sub.queue, sub.asks, open, a) /\ (a \in now <=> a \in open)
      BY <1>7, <1>8, <3>1
    <3> QED BY <1>12, <3>2, <3>3, FeedTellsLonger
  <2>2. SeenTrue(t.seen, now, later)
    BY <1>6, <1>12
  <2> QED BY <1>2, <2>1, <2>2 DEF SubSound
<1> QED BY <1>2, <1>9, <1>10, <1>11, <1>12 DEF EnqueuedTo

-----------------------------------------------------------------------------
(* What a new subscriber is offered first. *)

EventNext(t, remembered, q) == IF q \in remembered THEN FeedEnqueued(t, Event(q)) ELSE t

\* Remembered events are offered one by one.
LEMMA WithEventsIs ==
  ASSUME NEW sub, NEW open, NEW hosts, SubSound(sub, open, hosts), NEW remembered,
         NEW t, t = WithEvents(sub, remembered)
  PROVE  SubSound(t, open, hosts)
<1> DEFINE w == [i \in 1..(LastEvent + 1) |-> i - 1]
           n == LastEvent + 1
           V == {z \in Subs : SubSound(z, open, hosts)}
           step == [x \in V \X (1..n) |-> EventNext(x[1], remembered, w[x[2]])]
           iter == CHOOSE g : g = [T \in SUBSET (DOMAIN w) |->
                      IF T = {} THEN sub ELSE EventNext(g[T \ {Max(T)}], remembered, w[Max(T)])]
<1>1. WithEvents(sub, remembered) = iter[DOMAIN w]
  BY DEF WithEvents, EventNext, FoldLeft, MapThenFoldSet
<1>2. n \in Nat /\ DOMAIN w = 1..n /\ \A m \in 1..n : w[m] \in 0..LastEvent
  BY AndroidEventsAssumption
<1> HIDE DEF w, n
<1>3. n \in Nat /\ DOMAIN w = 1..n
  BY <1>2
<1>5. sub \in V
  BY DEF SubSound
<1>4. ASSUME NEW z \in V, NEW m \in 1..n PROVE EventNext(z, remembered, w[m]) \in V
  <2>1. PICK q \in 0..LastEvent : q = w[m]
    BY <1>2
  <2>2. PICK item \in FeedItems : item = Event(q) /\ item.type = "event" /\ item.id = q
    BY FeedItemsAre
  <2>3. PICK u : u = FeedEnqueued(z, item)
    OBVIOUS
  <2>4. SubSound(u, open, hosts)
    <3>1. SubSound(z, open, hosts)
      OBVIOUS
    <3>2. NothingReopens(hosts, hosts)
      BY DEF NothingReopens
    <3>3. PICK kind, b : kind = item.type /\ b = item.id
      OBVIOUS
    <3>4. kind \notin {"requested", "resolved"}
      BY <2>2, <3>3
    <3> HIDE DEF V
    <3> QED BY <2>3, <3>1, <3>2, <3>3, <3>4, SubTold
  <2>5. u \in V
    BY <2>4 DEF SubSound
  <2> HIDE DEF V
  <2> QED BY <2>1, <2>2, <2>3, <2>5 DEF EventNext
<1>a. ASSUME NEW z \in V PROVE SubSound(z, open, hosts) /\ z \in Subs
  OBVIOUS
<1>b. ASSUME NEW z, SubSound(z, open, hosts) /\ z \in Subs PROVE z \in V
  BY <1>b
<1> HIDE DEF V
<1>6. step \in [V \X (1..n) -> V]
  BY <1>4
<1>7. \A z \in V, m \in 1..n : step[<<z, m>>] = EventNext(z, remembered, w[m])
  OBVIOUS
<1> HIDE DEF step
<1>8. PICK g \in [SUBSET (1..n) -> V] : Folded(g, sub, step, n)
  BY <1>3, <1>5, <1>6, FoldExists DEF HasFold
<1>9. \A T \in SUBSET (1..n) : T # {} => Max(T) \in 1..n
  BY <1>3, LastIn
<1>10. g = [T \in SUBSET (1..n) |->
              IF T = {} THEN sub ELSE EventNext(g[T \ {Max(T)}], remembered, w[Max(T)])]
  <2> DEFINE e == [T \in SUBSET (1..n) |->
                     IF T = {} THEN sub ELSE EventNext(g[T \ {Max(T)}], remembered, w[Max(T)])]
  <2>1. ASSUME NEW T \in SUBSET (1..n) PROVE g[T] = e[T]
    <3>1. CASE T = {}
      BY <1>8, <3>1 DEF Folded
    <3>2. CASE T # {}
      <4>1. g[T] = step[<<g[T \ {Max(T)}], Max(T)>>]
        BY <1>8, <3>2 DEF Folded
      <4>2. T \ {Max(T)} \in SUBSET (1..n)
        OBVIOUS
      <4>3. g[T \ {Max(T)}] \in V /\ Max(T) \in 1..n
        BY <1>9, <3>2, <4>2
      <4>4. step[<<g[T \ {Max(T)}], Max(T)>>] = EventNext(g[T \ {Max(T)}], remembered, w[Max(T)])
        BY <1>7, <4>3
      <4> QED BY <3>2, <4>1, <4>4
    <3> QED BY <3>1, <3>2
  <2>2. g = e
    BY <2>1
  <2> QED BY <2>2
<1>11. iter = [T \in SUBSET (1..n) |->
                 IF T = {} THEN sub ELSE EventNext(iter[T \ {Max(T)}], remembered, w[Max(T)])]
  BY <1>3, <1>10
<1> HIDE DEF iter
<1>12. iter[1..0] = sub
  <2>1. 1..0 = {}
    OBVIOUS
  <2> QED BY <1>3, <1>11, <2>1
<1>13. ASSUME NEW m \in Nat, m + 1 <= n
       PROVE  m + 1 \in 1..n /\ iter[1..(m + 1)] = EventNext(iter[1..m], remembered, w[m + 1])
  <2>2. 1..(m + 1) \in SUBSET (1..(m + 1)) /\ m + 1 \in 1..(m + 1) /\ m + 1 \in 1..n
    BY <1>3, <1>13
  <2>3. Max(1..(m + 1)) = m + 1
    BY <2>2, LastOf
  <2>4. (1..(m + 1)) \ {m + 1} = 1..m /\ 1..(m + 1) # {}
    OBVIOUS
  <2>5. 1..(m + 1) \in SUBSET (1..n)
    BY <1>3, <1>13
  <2> QED BY <1>11, <2>2, <2>3, <2>4, <2>5
<1> DEFINE Good == {m \in Nat : m <= n => iter[1..m] \in V}
<1>14. 0 \in Good
  BY <1>5, <1>12
<1>15. ASSUME NEW m \in Nat, m \in Good PROVE m + 1 \in Good
  <2> SUFFICES ASSUME m + 1 <= n PROVE iter[1..(m + 1)] \in V
    OBVIOUS
  <2>1. iter[1..m] \in V
    BY <1>3, <1>15
  <2>2. m + 1 \in 1..n /\ iter[1..(m + 1)] = EventNext(iter[1..m], remembered, w[m + 1])
    BY <1>13
  <2> QED BY <1>4, <2>1, <2>2
<1> HIDE DEF Good
<1>16. n \in Good
  BY <1>3, <1>14, <1>15, NumbersInductive
<1>17. iter[1..n] \in V
  BY <1>3, <1>16 DEF Good
<1>18. t \in V
  BY <1>1, <1>3, <1>17
<1> QED BY <1>a, <1>18

\* A new subscriber has heard nothing.
NewSub(since) == [NoFeed EXCEPT !.done = FALSE, !.since = since]

LEMMA AskTold ==
  ASSUME NEW sub, NEW open, NEW hosts, SubSound(sub, open, hosts), NEW a \in FeedAsks, hosts[a] # "closed",
         NEW item \in FeedItems, item.type = "requested", item.id = a, NothingReopens(hosts, hosts),
         NEW now, now = open \cup {a}, NEW t, t = FeedEnqueued(sub, item)
  PROVE  SubSound(t, now, hosts)
<1>1. PICK kind, b : kind = item.type /\ b = item.id
  OBVIOUS
<1>2. b \in FeedAsks /\ kind = "requested" /\ now = open \cup {b} /\ hosts[b] # "closed"
  BY <1>1
<1> QED BY <1>1, <1>2, SubTold

LEMMA NewSubIs ==
  ASSUME NEW since \in -1..LastEvent, NEW hosts, NEW sub, sub = NewSub(since)
  PROVE  SubSound(sub, {}, hosts)
<1>1. /\ sub.done = FALSE /\ sub.since = since /\ sub.last = -1 /\ sub.seen = <<>>
      /\ sub.queue = <<>> /\ sub.taken = <<>> /\ sub.asks = {}
      /\ sub = [done |-> FALSE, since |-> since, last |-> -1, seen |-> <<>>, queue |-> <<>>,
                taken |-> <<>>, asks |-> {}]
  BY DEF NewSub, NoFeed
<1>2. sub \in Subs
  <2>1. -1 \in -1..LastEvent /\ <<>> \in Seq(FeedItems) /\ <<>> \in Seq(0..LastEvent)
    BY AndroidEventsAssumption
  <2> QED BY <1>1, <2>1 DEF Subs
<1>3. Len(sub.queue) = 0 /\ Len(sub.taken) = 0 /\ DOMAIN sub.taken = {}
  BY <1>1
<1>4. FeedOrder(sub)
  BY <1>3 DEF FeedOrder, Increasing
<1>5. \A a \in FeedAsks : FeedTells(sub.queue, sub.asks, {}, a)
  BY <1>1, <1>3 DEF FeedTells
<1>6. SeenTrue(sub.seen, {}, hosts)
  BY <1>1, NoneSeen
<1> QED BY <1>2, <1>4, <1>5, <1>6 DEF SubSound

LEMMA NoFeedIs ==
  ASSUME NEW open, NEW hosts
  PROVE  SubSound(NoFeed, open, hosts)
<1>1. PICK sub : sub = NoFeed
  OBVIOUS
<1>2. /\ sub.done = TRUE /\ sub.seen = <<>> /\ sub.queue = <<>> /\ sub.taken = <<>>
      /\ sub = [done |-> TRUE, since |-> -1, last |-> -1, seen |-> <<>>, queue |-> <<>>,
                taken |-> <<>>, asks |-> {}]
  BY <1>1 DEF NoFeed
<1>3. sub \in Subs
  <2>1. -1 \in -1..LastEvent /\ <<>> \in Seq(FeedItems) /\ <<>> \in Seq(0..LastEvent)
    BY AndroidEventsAssumption
  <2> QED BY <1>2, <2>1 DEF Subs
<1>4. Len(sub.queue) = 0 /\ Len(sub.taken) = 0 /\ DOMAIN sub.taken = {}
  BY <1>2
<1>5. FeedOrder(sub)
  BY <1>4 DEF FeedOrder, Increasing
<1>6. SeenTrue(sub.seen, open, hosts)
  BY <1>2, NoneSeen
<1> QED BY <1>1, <1>2, <1>3, <1>5, <1>6 DEF SubSound

\* The asks are offered in some order, each once.
LEMMA WithAsksIs ==
  ASSUME NEW since \in -1..LastEvent, NEW open \in SUBSET FeedAsks, NEW hosts, NEW awaited \in SetToSeqs(open),
         NEW t, t = WithAsks(NewSub(since), awaited)
  PROVE  SubSound(t, open, hosts)
<1>0. PICK sub : sub = NewSub(since)
  OBVIOUS
<1>p. PICK all : all = [a \in FeedAsks |-> "open"]
  OBVIOUS
<1> DEFINE w == [i \in DOMAIN awaited |-> FeedItem("requested", awaited[i])]
           n == Cardinality(open)
           V == {z \in Subs : FeedOrder(z)}
           step == [x \in V \X (1..n) |-> FeedEnqueued(x[1], w[x[2]])]
           iter == CHOOSE g : g = [T \in SUBSET (DOMAIN w) |->
                      IF T = {} THEN sub ELSE FeedEnqueued(g[T \ {Max(T)}], w[Max(T)])]
<1>1. WithAsks(sub, awaited) = iter[DOMAIN w]
  BY DEF WithAsks, FoldLeft, MapThenFoldSet
<1>f. IsFiniteSet(open) /\ n \in Nat
  BY AndroidEventsAssumption, FS_Subset, FS_CardinalityType
<1>g. awaited \in [1..n -> open] /\ \A i, j \in 1..n : i # j => awaited[i] # awaited[j]
  BY DEF SetToSeqs
<1>h. DOMAIN w = 1..n /\ \A m \in 1..n : w[m] = FeedItem("requested", awaited[m]) /\ awaited[m] \in open
  BY <1>g
<1>i. \A m \in 1..n : w[m] \in FeedItems /\ w[m].type = "requested" /\ w[m].id = awaited[m] /\ awaited[m] \in FeedAsks
  BY <1>h, FeedItemsAre, FeedItemIs
<1> HIDE DEF w, n
<1>3. n \in Nat /\ DOMAIN w = 1..n
  BY <1>f, <1>h
<1>s. SubSound(sub, {}, all)
  BY <1>0, NewSubIs
<1>5. sub \in V
  BY <1>s DEF SubSound
<1>4. ASSUME NEW z \in V, NEW m \in 1..n PROVE FeedEnqueued(z, w[m]) \in V
  <2>1. z \in Subs /\ FeedOrder(z)
    OBVIOUS
  <2>2. PICK u : u = FeedEnqueued(z, w[m])
    OBVIOUS
  <2>3. u \in Subs /\ FeedOrder(u)
    <3> HIDE DEF V
    <3> QED BY <1>i, <2>1, <2>2, FeedEnqueuedIs
  <2> QED BY <2>2, <2>3

<1>a. ASSUME NEW z \in V PROVE z \in Subs /\ FeedOrder(z)
  OBVIOUS
<1>b. ASSUME NEW z, z \in Subs /\ FeedOrder(z) PROVE z \in V
  BY <1>b
<1> HIDE DEF V
<1>6. step \in [V \X (1..n) -> V]
  BY <1>4
<1>7. \A z \in V, m \in 1..n : step[<<z, m>>] = FeedEnqueued(z, w[m])
  OBVIOUS
<1> HIDE DEF step
<1>8. PICK g \in [SUBSET (1..n) -> V] : Folded(g, sub, step, n)
  BY <1>3, <1>5, <1>6, FoldExists DEF HasFold
<1>9. \A T \in SUBSET (1..n) : T # {} => Max(T) \in 1..n
  BY <1>3, LastIn
<1>10. g = [T \in SUBSET (1..n) |->
              IF T = {} THEN sub ELSE FeedEnqueued(g[T \ {Max(T)}], w[Max(T)])]
  <2> DEFINE e == [T \in SUBSET (1..n) |->
                     IF T = {} THEN sub ELSE FeedEnqueued(g[T \ {Max(T)}], w[Max(T)])]
  <2>1. ASSUME NEW T \in SUBSET (1..n) PROVE g[T] = e[T]
    <3>1. CASE T = {}
      BY <1>8, <3>1 DEF Folded
    <3>2. CASE T # {}
      <4>1. g[T] = step[<<g[T \ {Max(T)}], Max(T)>>]
        BY <1>8, <3>2 DEF Folded
      <4>2. T \ {Max(T)} \in SUBSET (1..n)
        OBVIOUS
      <4>3. g[T \ {Max(T)}] \in V /\ Max(T) \in 1..n
        BY <1>9, <3>2, <4>2
      <4>4. step[<<g[T \ {Max(T)}], Max(T)>>] = FeedEnqueued(g[T \ {Max(T)}], w[Max(T)])
        BY <1>7, <4>3
      <4> QED BY <3>2, <4>1, <4>4
    <3> QED BY <3>1, <3>2
  <2>2. g = e
    BY <2>1
  <2> QED BY <2>2
<1>11. iter = [T \in SUBSET (1..n) |->
                 IF T = {} THEN sub ELSE FeedEnqueued(iter[T \ {Max(T)}], w[Max(T)])]
  BY <1>3, <1>10
<1> HIDE DEF iter
<1>12. iter[1..0] = sub
  <2>1. 1..0 = {}
    OBVIOUS
  <2> QED BY <1>3, <1>11, <2>1
<1>13. ASSUME NEW m \in Nat, m + 1 <= n
       PROVE  m + 1 \in 1..n /\ iter[1..(m + 1)] = FeedEnqueued(iter[1..m], w[m + 1])
  <2>2. 1..(m + 1) \in SUBSET (1..(m + 1)) /\ m + 1 \in 1..(m + 1) /\ m + 1 \in 1..n
    BY <1>3, <1>13
  <2>3. Max(1..(m + 1)) = m + 1
    BY <2>2, LastOf
  <2>4. (1..(m + 1)) \ {m + 1} = 1..m /\ 1..(m + 1) # {}
    OBVIOUS
  <2>5. 1..(m + 1) \in SUBSET (1..n)
    BY <1>3, <1>13
  <2> QED BY <1>11, <2>2, <2>3, <2>4, <2>5
<1> DEFINE Good == {m \in Nat : m <= n => SubSound(iter[1..m], {awaited[j] : j \in 1..m}, all)}
<1>14. 0 \in Good
  <2>1. {awaited[j] : j \in 1..0} = {}
    OBVIOUS
  <2> QED BY <1>s, <1>12, <2>1
<1>15. ASSUME NEW m \in Nat, m \in Good PROVE m + 1 \in Good
  <2> SUFFICES ASSUME m + 1 <= n PROVE SubSound(iter[1..(m + 1)], {awaited[j] : j \in 1..(m + 1)}, all)
    OBVIOUS
  <2>1. PICK z : z = iter[1..m]
    OBVIOUS
  <2>2. PICK was, now : was = {awaited[j] : j \in 1..m} /\ now = {awaited[j] : j \in 1..(m + 1)}
    OBVIOUS
  <2>3. SubSound(z, was, all)
    BY <1>3, <1>15, <2>1, <2>2
  <2> HIDE DEF Good
  <2>4. PICK u : u = FeedEnqueued(z, w[m + 1])
    OBVIOUS
  <2>5. m + 1 \in 1..n /\ iter[1..(m + 1)] = u
    BY <1>13, <2>1, <2>4
  <2>6. now = was \cup {awaited[m + 1]}
    <3>1. 1..(m + 1) = (1..m) \cup {m + 1}
      OBVIOUS
    <3> QED BY <2>2, <3>1
  <2>7. /\ w[m + 1] \in FeedItems /\ w[m + 1].type = "requested"
        /\ w[m + 1].id = awaited[m + 1] /\ awaited[m + 1] \in FeedAsks
    BY <1>i, <2>5
  <2>8. all[awaited[m + 1]] # "closed" /\ NothingReopens(all, all)
    BY <1>p, <2>7 DEF NothingReopens
  <2> HIDE DEF V
  <2>9. SubSound(u, now, all)
    BY <2>3, <2>4, <2>6, <2>7, <2>8, AskTold
  <2> QED BY <2>2, <2>5, <2>9
<1> HIDE DEF Good
<1>16. n \in Good
  BY <1>3, <1>14, <1>15, NumbersInductive
<1>17. SubSound(t, {awaited[j] : j \in 1..n}, all)
  <2>1. SubSound(iter[1..n], {awaited[j] : j \in 1..n}, all)
    BY <1>3, <1>16 DEF Good
  <2>2. t = iter[1..n]
    BY <1>0, <1>1, <1>3
  <2> QED BY <2>1, <2>2
<1>18. {awaited[j] : j \in 1..n} = open
  <2>1. n = Cardinality(open)
    BY DEF n
  <2>2. awaited \in Injection(1..n, open)
    BY <1>g DEF Injection, IsInjective
  <2>3. IsFiniteSet(1..n) /\ Cardinality(1..n) = n
    BY <1>3, FS_Interval
  <2>4. awaited \in Surjection(1..n, open)
    BY <1>f, <2>1, <2>2, <2>3, FS_Injection
  <2> QED BY <1>g, <2>4 DEF Surjection
<1>19. SeenTrue(t.seen, open, hosts)
  <2>1. SeenTrue(t.seen, open, all)
    BY <1>17, <1>18 DEF SubSound
  <2>2. \A a \in FeedAsks : all[a] # "closed"
    BY <1>p
  <2> QED BY <2>1, <2>2 DEF SeenTrue
<1> QED BY <1>17, <1>18, <1>19 DEF SubSound

-----------------------------------------------------------------------------
(* Texts: how wide they are, which of them are kept, and what is read.     *)

LEMMA SumsIs ==
  ASSUME NEW width \in Seq(Nat), NEW sums, sums = Sums(width), NEW n, n = Len(width)
  PROVE  /\ n \in Nat /\ sums \in [0..n -> Nat] /\ sums[0] = 0
         /\ \A i \in 1..n : sums[i] = sums[i - 1] + width[i]
<1>1. n \in Nat /\ \A i \in 1..n : width[i] \in Nat
  BY LenProperties, ElementOfSeq
<1> DEFINE step == [x \in Nat \X (1..n) |-> x[1] + width[x[2]]]
           iter == CHOOSE s : s = [i \in 0..n |-> IF i = 0 THEN 0 ELSE s[i - 1] + width[i]]
<1>2. sums = iter
  BY DEF Sums
<1>3. step \in [Nat \X (1..n) -> Nat] /\ \A x \in Nat, m \in 1..n : step[<<x, m>>] = x + width[m]
  BY <1>1
<1> HIDE DEF step
<1>4. PICK g \in [SUBSET (1..n) -> Nat] : Folded(g, 0, step, n)
  <2>1. \A zero \in Nat : HasFold(Nat, zero, step, n)
    BY <1>1, <1>3, FoldExists
  <2>2. HasFold(Nat, 0, step, n)
    BY <2>1
  <2> QED BY <2>2, Zenon DEF HasFold
<1>5. g[{}] = 0 /\ \A m \in 1..n : g[1..m] = step[<<g[1..(m - 1)], m>>]
  <2>1. n \in Nat
    BY <1>1
  <2>2. Stepped(g, 0, step, n)
    BY <1>4, <2>1, FoldSteps
  <2> QED BY <2>2 DEF Stepped
<1>6. PICK s : s = [i \in 0..n |-> g[1..i]]
  OBVIOUS
<1>7. s \in [0..n -> Nat]
  <2>1. \A i \in 0..n : 1..i \in SUBSET (1..n)
    BY <1>1
  <2> QED BY <1>6, <2>1
<1>8. s[0] = 0
  <2>1. 1..0 = {} /\ 0 \in 0..n
    BY <1>1
  <2> QED BY <1>5, <1>6, <2>1
<1>9. ASSUME NEW i \in 1..n PROVE s[i] = s[i - 1] + width[i]
  <2>1. i \in 0..n /\ i - 1 \in 0..n
    BY <1>1
  <2>2. s[i - 1] \in Nat /\ s[i - 1] = g[1..(i - 1)] /\ s[i] = g[1..i]
    BY <1>6, <1>7, <2>1
  <2> QED BY <1>3, <1>5, <2>2
<1>10. s = [i \in 0..n |-> IF i = 0 THEN 0 ELSE s[i - 1] + width[i]]
  <2> DEFINE e == [i \in 0..n |-> IF i = 0 THEN 0 ELSE s[i - 1] + width[i]]
  <2>1. ASSUME NEW i \in 0..n PROVE s[i] = e[i]
    <3>1. CASE i = 0
      BY <1>8, <3>1
    <3>2. CASE i # 0
      <4>1. i \in 1..n
        BY <1>1, <3>2
      <4> QED BY <1>9, <3>2, <4>1
    <3> QED BY <3>1, <3>2
  <2>2. s = e
    BY <1>7, <2>1
  <2> QED BY <2>2
<1>11. iter = [i \in 0..n |-> IF i = 0 THEN 0 ELSE iter[i - 1] + width[i]]
  BY <1>10
<1> HIDE DEF iter
<1> DEFINE Good == {m \in Nat : m <= n => iter[m] = s[m]}
<1>12. 0 \in Good
  <2>1. 0 \in 0..n
    BY <1>1
  <2>2. iter[0] = 0
    BY <1>11, <2>1
  <2> QED BY <1>8, <2>2
<1>13. ASSUME NEW m \in Nat, m \in Good PROVE m + 1 \in Good
  <2> SUFFICES ASSUME m + 1 <= n PROVE iter[m + 1] = s[m + 1]
    OBVIOUS
  <2>1. iter[m] = s[m]
    BY <1>1, <1>13
  <2> HIDE DEF Good
  <2>2. m + 1 \in 1..n /\ m + 1 \in 0..n /\ m + 1 # 0 /\ (m + 1) - 1 = m
    BY <1>1
  <2>3. iter[m + 1] = iter[(m + 1) - 1] + width[m + 1]
    BY <1>11, <2>2
  <2>4. s[m + 1] = s[(m + 1) - 1] + width[m + 1]
    BY <1>9, <2>2
  <2> QED BY <2>1, <2>2, <2>3, <2>4
<1> HIDE DEF Good
<1>14. Nat \subseteq Good
  BY <1>12, <1>13, NumbersInductive
<1>15. \A i \in 0..n : iter[i] = s[i]
  <2>1. \A i \in 0..n : i \in Good /\ i <= n
    BY <1>1, <1>14
  <2> QED BY <2>1 DEF Good
<1>16. iter \in [0..n -> Nat]
  BY <1>7, <1>11, <1>15
<1>17. \A i \in 1..n : i \in 0..n /\ i - 1 \in 0..n
  BY <1>1
<1> QED BY <1>1, <1>2, <1>8, <1>9, <1>15, <1>16, <1>17

LEMMA TextIs ==
  ASSUME NEW k \in 0..LastEvent, NEW text, text = TextOf[k]
  PROVE  text \in Seq(Nat) /\ text \in Seq(1..4) /\ TotalBytes(k) \in Nat
<1>1. text \in Seq(1..4)
  BY AndroidEventsAssumption
<1>2. text \in Seq(Nat)
  <2>1. Len(text) \in Nat /\ \A i \in 1..Len(text) : text[i] \in 1..4
    BY <1>1, LenProperties, ElementOfSeq
  <2>2. text = [i \in 1..Len(text) |-> text[i]]
    BY <1>1, LenProperties
  <2> QED BY <2>1, <2>2
<1>3. Len(text) \in Nat /\ Sums(text) \in [0..Len(text) -> Nat] /\ Len(text) \in 0..Len(text)
  BY <1>2, SumsIs
<1> QED BY <1>1, <1>2, <1>3 DEF TotalBytes, WidthsOf

LEMMA BytesAre ==
  ASSUME NEW kept
  PROVE  BytesOf(kept) \in Nat /\ (kept = {} => BytesOf(kept) = 0)
<1>1. PICK n : n = LastEvent + 1
  OBVIOUS
<1>2. PICK bytes : bytes = KeptBytes(kept)
  OBVIOUS
<1>3. n \in Nat /\ \A i \in 1..n : i - 1 \in 0..LastEvent
  BY <1>1, AndroidEventsAssumption
<1>4. bytes \in [1..n -> Nat] /\ \A i \in 1..n : bytes[i] = IF i - 1 \in kept THEN TotalBytes(i - 1) ELSE 0
  <2>1. \A i \in 1..n : TotalBytes(i - 1) \in Nat
    BY <1>3, TextIs
  <2>2. bytes = [i \in 1..n |-> IF i - 1 \in kept THEN TotalBytes(i - 1) ELSE 0]
    BY <1>1, <1>2 DEF KeptBytes
  <2> QED BY <2>1, <2>2
<1>5. bytes \in Seq(Nat) /\ Len(bytes) = n
  BY <1>3, <1>4
<1>6. PICK sums : sums = Sums(bytes)
  OBVIOUS
<1>7. sums \in [0..n -> Nat] /\ sums[0] = 0 /\ \A i \in 1..n : sums[i] = sums[i - 1] + bytes[i]
  BY <1>5, <1>6, SumsIs
<1>8. BytesOf(kept) = sums[n] /\ n \in 0..n
  BY <1>1, <1>2, <1>3, <1>6 DEF BytesOf
<1>9. ASSUME kept = {} PROVE sums[n] = 0
  <2> DEFINE Good == {m \in Nat : m <= n => sums[m] = 0}
  <2>1. 0 \in Good
    BY <1>7
  <2>2. ASSUME NEW m \in Nat, m \in Good PROVE m + 1 \in Good
    <3>1. m + 1 <= n => m + 1 \in 1..n /\ (m + 1) - 1 = m
      BY <1>3
    <3>2. m + 1 <= n => bytes[m + 1] = 0
      BY <1>4, <1>9, <3>1
    <3>3. m + 1 <= n => m <= n
      BY <1>3
    <3> QED BY <1>7, <2>2, <3>1, <3>2, <3>3
  <2> HIDE DEF Good
  <2>3. n \in Good
    BY <1>3, <2>1, <2>2, NumbersInductive
  <2> QED BY <1>3, <2>3 DEF Good
<1> QED BY <1>7, <1>8, <1>9

DetailsFit(order, kept) ==
  /\ order \in Seq(0..LastEvent) /\ \A i, j \in 1..Len(order) : i # j => order[i] # order[j]
  /\ Len(order) <= CachedEvents * 4 /\ kept \subseteq ToSet(order) /\ BytesOf(kept) <= DetailBound

\* A sequence in two parts.
KeysBefore(order, k) == SubSeq(order, 1, k)
KeysAfter(order, k) == SubSeq(order, k + 1, Len(order))

Part(order, a, b) ==
  LET k == Len(order) - Len(b) IN
  /\ \A z : z \in ToSet(a) <=> \E i \in 1..k : order[i] = z
  /\ \A i \in 1..Len(b) : b[i] = order[i + k] /\ i + k \in 1..Len(order)
  /\ \A z : z \in ToSet(b) <=> \E i \in 1..Len(b) : order[i + k] = z

LEMMA PartsAre ==
  ASSUME NEW S, NEW order \in Seq(S), NEW k \in 0..Len(order)
  PROVE  /\ KeysAfter(order, k) \in Seq(S) /\ Len(KeysAfter(order, k)) = Len(order) - k
         /\ Part(order, KeysBefore(order, k), KeysAfter(order, k))
<1>m. PICK m : m = Len(order)
  OBVIOUS
<1>0. PICK one, lo, a, b : /\ one = 1 /\ lo = k + 1 /\ a = SubSeq(order, one, k) /\ b = SubSeq(order, lo, m)
                           /\ a = KeysBefore(order, k) /\ b = KeysAfter(order, k)
  BY <1>m DEF KeysBefore, KeysAfter
<1>1. m \in Nat /\ k \in Nat /\ k <= m
  BY <1>m, LenProperties
<1>2. a \in Seq(S) /\ Len(a) = k /\ \A i \in 1..k : a[i] = order[i]
  <2>2. one \in Int /\ k \in Int /\ \A i \in one..k : order[i] \in S
    BY <1>m, <1>0, <1>1, ElementOfSeq
  <2>3. /\ SubSeq(order, one, k) \in Seq(S) /\ Len(SubSeq(order, one, k)) = IF one <= k THEN k - one + 1 ELSE 0
        /\ \A i \in 1..(k - one + 1) : SubSeq(order, one, k)[i] = order[one + i - 1]
    BY <2>2, SubSeqProperties
  <2>4. k - one + 1 = k /\ \A i \in 1..k : one + i - 1 = i
    BY <1>0, <1>1
  <2> QED BY <1>0, <1>1, <2>3, <2>4
<1>3. b \in Seq(S) /\ Len(b) = m - k /\ \A i \in 1..(m - k) : b[i] = order[i + k] /\ i + k \in 1..m
  <2>2. lo \in Int /\ m \in Int /\ \A i \in lo..m : order[i] \in S
    BY <1>m, <1>0, <1>1, ElementOfSeq
  <2>3. /\ SubSeq(order, lo, m) \in Seq(S) /\ Len(SubSeq(order, lo, m)) = IF lo <= m THEN m - lo + 1 ELSE 0
        /\ \A i \in 1..(m - lo + 1) : SubSeq(order, lo, m)[i] = order[lo + i - 1]
    BY <2>2, SubSeqProperties
  <2>4. m - lo + 1 = m - k /\ \A i \in 1..(m - k) : lo + i - 1 = i + k /\ i + k \in 1..m
    BY <1>0, <1>1
  <2> QED BY <1>0, <1>1, <2>3, <2>4
<1>4. DOMAIN a = 1..k /\ DOMAIN b = 1..(m - k)
  BY <1>2, <1>3, LenProperties
<1>5. \A z : z \in ToSet(a) <=> \E i \in 1..k : order[i] = z
  BY <1>2, <1>4 DEF ToSet
<1>6. \A z : z \in ToSet(b) <=> \E i \in 1..(m - k) : order[i + k] = z
  BY <1>3, <1>4 DEF ToSet
<1>7. Len(order) - Len(b) = k /\ Len(b) = m - k
  BY <1>m, <1>1, <1>3
<1>8. Part(order, a, b)
  BY <1>m, <1>3, <1>5, <1>6, <1>7 DEF Part
<1> QED BY <1>m, <1>0, <1>3, <1>8

\* Whatever is put, the rest that stays is within the bounds: something does, if nothing else.
LEMMA PutIs ==
  ASSUME DetailsFit(detailOrder, details), NEW n \in 0..LastEvent
  PROVE  DetailsFit(Put(n)[1], Put(n)[2])
<1>1. PICK order : order = PutKey(detailOrder, n)
  OBVIOUS
<1>2. PICK kept : kept = IF TotalBytes(n) <= DetailBound THEN details \cup {n} ELSE details \ {n}
  OBVIOUS
<1>3. PICK m : m = Len(order)
  OBVIOUS
<1>4. /\ order \in Seq(0..LastEvent) /\ m \in Nat /\ \A i, j \in 1..m : i # j => order[i] # order[j]
      /\ \A z : z \in ToSet(order) <=> \E i \in 1..m : order[i] = z
      /\ n \in ToSet(order) /\ ToSet(detailOrder) \subseteq ToSet(order)
  <2>1. /\ detailOrder \in Seq(0..LastEvent)
        /\ \A i, j \in 1..Len(detailOrder) : i # j => detailOrder[i] # detailOrder[j]
    BY DEF DetailsFit
  <2>2. PICK k : k = Len(detailOrder)
    OBVIOUS
  <2>3. k \in Nat /\ DOMAIN detailOrder = 1..k
    BY <2>1, <2>2, LenProperties
  <2>4. \A z : z \in ToSet(detailOrder) <=> \E i \in 1..k : detailOrder[i] = z
    BY <2>3 DEF ToSet
  <2>5. CASE n \in ToSet(detailOrder)
    <3>1. order = detailOrder
      BY <1>1, <2>5 DEF PutKey
    <3> QED BY <1>3, <2>1, <2>2, <2>3, <2>4, <2>5, <3>1
  <2>6. CASE n \notin ToSet(detailOrder)
    <3>1. order = Append(detailOrder, n)
      BY <1>1, <2>6 DEF PutKey
    <3>2. /\ order \in Seq(0..LastEvent) /\ m = k + 1 /\ order[k + 1] = n /\ DOMAIN order = 1..(k + 1)
          /\ \A i \in 1..k : order[i] = detailOrder[i]
      BY <1>3, <2>1, <2>2, <2>3, <3>1, AppendProperties, LenProperties
    <3>3. /\ m \in Nat /\ k + 1 \in 1..(k + 1) /\ \A i \in 1..(k + 1) : i = k + 1 \/ i \in 1..k
          /\ \A i \in 1..k : i \in 1..(k + 1)
      BY <2>3, <3>2
    <3>4. \A z : z \in ToSet(order) <=> \E i \in 1..m : order[i] = z
      BY <3>2 DEF ToSet
    <3>5. n \in ToSet(order) /\ ToSet(detailOrder) \subseteq ToSet(order)
      BY <2>4, <3>2, <3>3, <3>4
    <3>6. \A i \in 1..k : detailOrder[i] # n
      BY <2>4, <2>6
    <3>7. \A i, j \in 1..m : i # j => order[i] # order[j]
      BY <2>1, <2>2, <3>2, <3>3, <3>6
    <3> QED BY <3>2, <3>3, <3>4, <3>5, <3>7
  <2> QED BY <2>5, <2>6
<1>5. kept \subseteq ToSet(order)
  BY <1>2, <1>4 DEF DetailsFit
<1> DEFINE Left(k) == kept \ ToSet(SubSeq(order, 1, k))
           TooMuch(k) == Len(order) - k > CachedEvents * 4 \/ BytesOf(Left(k)) > DetailBound
           Enough == {k \in 0..m : ~TooMuch(k)}
           cut == CHOOSE k \in 0..Len(order) : ~TooMuch(k) /\ \A j \in 0..k - 1 : TooMuch(j)
<1>6. Put(n) = <<SubSeq(order, cut + 1, Len(order)), Left(cut)>>
  BY <1>1, <1>2 DEF Put
<1>8. \A k \in 0..m : \A z : z \in ToSet(SubSeq(order, 1, k)) <=> \E i \in 1..k : order[i] = z
  <2> SUFFICES ASSUME NEW k \in 0..m
               PROVE  \A z : z \in ToSet(SubSeq(order, 1, k)) <=> \E i \in 1..k : order[i] = z
    OBVIOUS
  <2>1. PICK a, b : a = KeysBefore(order, k) /\ b = KeysAfter(order, k)
    OBVIOUS
  <2>2. order \in Seq(0..LastEvent) /\ k \in 0..Len(order)
    BY <1>3, <1>4
  <2>3. Len(b) = m - k /\ Part(order, a, b)
    BY <1>3, <2>1, <2>2, PartsAre
  <2>4. k = Len(order) - Len(b)
    BY <1>3, <1>4, <2>3
  <2>5. \A z : z \in ToSet(a) <=> \E i \in 1..k : order[i] = z
    BY <2>3, <2>4 DEF Part
  <2> QED BY <2>1, <2>5 DEF KeysBefore
<1>9. m \in Enough
  <2>4. m \in 0..m
    BY <1>4
  <2>1. Left(m) = {}
    <3>1. \A z : z \in ToSet(SubSeq(order, 1, m)) <=> \E i \in 1..m : order[i] = z
      BY <1>8, <2>4
    <3>2. \A z \in kept : z \in ToSet(SubSeq(order, 1, m))
      BY <1>4, <1>5, <3>1
    <3> QED BY <3>2
  <2>2. BytesOf(Left(m)) = 0
    BY <2>1, BytesAre
  <2>3. Len(order) - m = 0 /\ CachedEvents * 4 \in Nat /\ DetailBound \in Nat
    BY <1>3, <1>4, AndroidEventsAssumption
  <2> HIDE DEF Left
  <2>5. ~TooMuch(m)
    BY <2>2, <2>3
  <2> QED BY <2>4, <2>5
<1>10. PICK k \in Enough : \A j \in Enough : k <= j
  <2>1. Enough \in SUBSET (0..m)
    OBVIOUS
  <2> HIDE DEF Enough
  <2>2. Enough \in SUBSET Nat /\ Enough # {}
    BY <1>4, <1>9, <2>1
  <2> QED BY <2>2, LeastNumber
<1> HIDE DEF Left
<1>11. k \in 0..Len(order) /\ ~TooMuch(k) /\ \A j \in 0..k - 1 : TooMuch(j)
  <2>1. k \in 0..m /\ ~TooMuch(k)
    OBVIOUS
  <2>2. \A j \in 0..k - 1 : j \in 0..m /\ ~(k <= j)
    BY <1>4, <2>1
  <2>3. \A j \in 0..k - 1 : j \notin Enough
    BY <1>10, <2>2
  <2> QED BY <1>3, <2>1, <2>2, <2>3
<1>12. cut \in 0..m /\ ~TooMuch(cut)
  BY <1>3, <1>11
<1> HIDE DEF cut
<1>13. PICK rest : rest = SubSeq(order, cut + 1, Len(order))
  OBVIOUS
<1>14. /\ rest \in Seq(0..LastEvent) /\ Len(rest) = m - cut
       /\ \A i \in 1..(m - cut) : rest[i] = order[i + cut]
       /\ \A z : z \in ToSet(rest) <=> \E i \in 1..(m - cut) : order[i + cut] = z
  <2>3. rest = KeysAfter(order, cut)
    BY <1>13 DEF KeysAfter
  <2>2. order \in Seq(0..LastEvent)
    BY <1>4
  <2>4. cut \in 0..Len(order)
    BY <1>3, <1>12
  <2>5. rest \in Seq(0..LastEvent) /\ Len(rest) = m - cut /\ Part(order, KeysBefore(order, cut), rest)
    BY <1>3, <2>2, <2>3, <2>4, PartsAre
  <2>6. cut = Len(order) - Len(rest)
    BY <1>3, <1>4, <1>12, <2>5
  <2> QED BY <2>5, <2>6 DEF Part
<1>15. \A i, j \in 1..Len(rest) : i # j => rest[i] # rest[j]
  <2>1. \A i \in 1..(m - cut) : i + cut \in 1..m
    BY <1>4, <1>12
  <2>2. \A i, j \in 1..(m - cut) : i # j => i + cut # j + cut
    BY <1>4, <1>12
  <2>3. \A i, j \in 1..m : i # j => order[i] # order[j]
    BY <1>4
  <2>4. \A i, j \in 1..(m - cut) : i # j => order[i + cut] # order[j + cut]
    BY <2>1, <2>2, <2>3
  <2>5. Len(rest) = m - cut /\ \A i \in 1..(m - cut) : rest[i] = order[i + cut]
    BY <1>14
  <2> QED BY <2>4, <2>5
<1>16. Len(rest) <= CachedEvents * 4 /\ BytesOf(Left(cut)) <= DetailBound
  <2>1. CachedEvents * 4 \in Nat /\ DetailBound \in Nat /\ BytesOf(Left(cut)) \in Nat
    BY BytesAre, AndroidEventsAssumption
  <2>2. m - cut \in Int
    BY <1>4, <1>12
  <2> QED BY <1>3, <1>12, <1>14, <2>1, <2>2
<1>17. Left(cut) \subseteq ToSet(rest)
  <2> SUFFICES ASSUME NEW z \in Left(cut) PROVE z \in ToSet(rest)
    OBVIOUS
  <2>1. z \in ToSet(order) /\ z \notin ToSet(SubSeq(order, 1, cut))
    BY <1>5 DEF Left
  <2>2. PICK i \in 1..m : order[i] = z
    BY <1>4, <2>1
  <2>3. ~(i \in 1..cut)
    BY <1>8, <1>12, <2>1, <2>2
  <2>4. i - cut \in 1..(m - cut) /\ (i - cut) + cut = i
    BY <1>4, <1>12, <2>3
  <2>5. PICK j \in 1..(m - cut) : j + cut = i
    BY <2>4
  <2>6. order[j + cut] = z
    BY <2>2, <2>5
  <2>7. rest[j] = z
    BY <1>14, <2>6
  <2>8. DOMAIN rest = 1..(m - cut)
    BY <1>14, LenProperties
  <2> QED BY <2>7, <2>8 DEF ToSet
<1>18. Put(n)[1] = rest /\ Put(n)[2] = Left(cut)
  <2>1. PICK left : left = Left(cut)
    OBVIOUS
  <2>2. Put(n) = <<rest, left>>
    BY <1>6, <1>13, <2>1
  <2> QED BY <2>1, <2>2
<1> QED BY <1>14, <1>15, <1>16, <1>17, <1>18 DEF DetailsFit

\* Keys that are each there once are as many as the order is long.
LEMMA OrderCounts ==
  ASSUME NEW order \in Seq(0..LastEvent), \A i, j \in 1..Len(order) : i # j => order[i] # order[j]
  PROVE  Cardinality(ToSet(order)) = Len(order)
<1>1. PICK m : m = Len(order)
  OBVIOUS
<1>2. m \in Nat /\ DOMAIN order = 1..m /\ order \in [1..m -> ToSet(order)]
  BY <1>1, LenProperties DEF ToSet
<1>3. order \in Injection(1..m, ToSet(order))
  BY <1>1, <1>2 DEF Injection, IsInjective
<1>4. order \in Surjection(1..m, ToSet(order))
  BY <1>2 DEF Surjection, ToSet
<1>5. ExistsBijection(1..m, ToSet(order))
  BY <1>3, <1>4 DEF ExistsBijection, Bijection
<1> QED BY <1>1, <1>2, <1>5, FS_CountingElements

\* A code point has a width: more of them are wider.
LEMMA WidthsGrow ==
  ASSUME NEW text \in Seq(Nat), text \in Seq(1..4), NEW n, n = Len(text)
  PROVE  /\ n \in Nat /\ WidthsOf(text, 0) = 0 /\ \A i \in 0..n : WidthsOf(text, i) \in Nat
         /\ \A i, j \in 0..n : i < j => WidthsOf(text, i) < WidthsOf(text, j)
<1>1. PICK sums : sums = Sums(text)
  OBVIOUS
<1>2. /\ n \in Nat /\ sums \in [0..n -> Nat] /\ sums[0] = 0
      /\ \A i \in 1..n : sums[i] = sums[i - 1] + text[i]
  BY <1>1, SumsIs
<1>3. \A i \in 1..n : text[i] \in 1..4
  BY ElementOfSeq
<1> DEFINE Good == {j \in Nat : j <= n => \A i \in 0..(j - 1) : sums[i] < sums[j]}
<1>4. 0 \in Good
  OBVIOUS
<1>5. ASSUME NEW j \in Nat, j \in Good PROVE j + 1 \in Good
  <2> SUFFICES ASSUME j + 1 <= n, NEW i \in 0..j PROVE sums[i] < sums[j + 1]
    OBVIOUS
  <2>1. j + 1 \in 1..n /\ (j + 1) - 1 = j /\ j \in 0..n /\ i \in 0..n /\ j <= n
    BY <1>2
  <2>2. sums[j + 1] = sums[j] + text[j + 1] /\ text[j + 1] \in 1..4
    BY <1>2, <1>3, <2>1
  <2>3. sums[j] \in Nat /\ sums[i] \in Nat
    BY <1>2, <2>1
  <2>4. i # j => sums[i] < sums[j]
    <3>1. i # j => i \in 0..(j - 1)
      OBVIOUS
    <3> QED BY <1>5, <2>1, <3>1
  <2> HIDE DEF Good
  <2> QED BY <2>2, <2>3, <2>4
<1> HIDE DEF Good
<1>6. Nat \subseteq Good
  BY <1>4, <1>5, NumbersInductive
<1>7. ASSUME NEW i \in 0..n, NEW j \in 0..n, i < j PROVE sums[i] < sums[j]
  <2>1. j \in Nat /\ j <= n /\ i \in 0..(j - 1)
    BY <1>2, <1>7
  <2> QED BY <1>6, <2>1 DEF Good
<1>8. \A i : WidthsOf(text, i) = sums[i]
  BY <1>1 DEF WidthsOf
<1>9. n \in Nat /\ WidthsOf(text, 0) = 0 /\ \A i \in 0..n : WidthsOf(text, i) \in Nat
  BY <1>2, <1>8
<1>10. \A i, j \in 0..n : i < j => WidthsOf(text, i) < WidthsOf(text, j)
  BY <1>7, <1>8
<1> QED BY <1>9, <1>10

Chunks == [seq : -1..LastEvent, offset : Nat, points : Nat, done : BOOLEAN]

\* What was read is a whole number of code points, and all of them at the end.
ChunkFits(c) ==
  /\ c \in Chunks /\ (c.seq < 0 => ~c.done)
  /\ c.seq >= 0 => LET text == TextOf[c.seq] IN
       /\ c.points \in 0..Len(text) /\ c.offset = WidthsOf(text, c.points)
       /\ c.done => c.points = Len(text)

LEMMA ChunkAsked ==
  ASSUME NEW n \in 0..LastEvent
  PROVE  ChunkFits(NoChunk) /\ ChunkFits([NoChunk EXCEPT !.seq = n])
<1>1. PICK c, none : c = [NoChunk EXCEPT !.seq = n] /\ none = NoChunk
  OBVIOUS
<1>2. /\ c = [seq |-> n, offset |-> 0, points |-> 0, done |-> FALSE]
      /\ none = [seq |-> -1, offset |-> 0, points |-> 0, done |-> FALSE]
  BY <1>1 DEF NoChunk
<1>3. c \in Chunks /\ none \in Chunks
  BY <1>2, AndroidEventsAssumption DEF Chunks
<1>4. PICK text : text = TextOf[n]
  OBVIOUS
<1>5. Len(text) \in Nat /\ WidthsOf(text, 0) = 0
  BY <1>4, TextIs, WidthsGrow
<1>6. ChunkFits(none)
  BY <1>2, <1>3 DEF ChunkFits
<1>7. ChunkFits(c)
  BY <1>2, <1>3, <1>4, <1>5 DEF ChunkFits
<1> QED BY <1>1, <1>6, <1>7

\* There is an end of a chunk, and it is not before its start.
LEMMA ChunkEndIs ==
  ASSUME NEW text \in Seq(Nat), NEW start \in 0..Len(text), NEW limit
  PROVE  ChunkEnd(text, start, limit) \in start..Len(text)
<1> DEFINE Fit(j) == j <= start + 1 \/ WidthsOf(text, j) - WidthsOf(text, start) <= limit
           Ends == {e \in start..Len(text) : e < Len(text) => ~Fit(e + 1)}
           P(e) == (\A j \in start + 1..e : Fit(j)) /\ (e < Len(text) => ~Fit(e + 1))
<1>1. Len(text) \in Nat /\ start \in Nat /\ start <= Len(text)
  BY LenProperties
<1>2. ChunkEnd(text, start, limit) = CHOOSE e \in start..Len(text) : P(e)
  BY DEF ChunkEnd
<1> HIDE DEF Fit
<1>3. Ends \in SUBSET Nat /\ Len(text) \in Ends
  BY <1>1
<1>4. PICK e \in Ends : \A k \in Ends : e <= k
  <2> HIDE DEF Ends
  <2> QED BY <1>3, LeastNumber
<1>5. ASSUME NEW j \in start + 1..e PROVE Fit(j)
  <2>1. j - 1 \in start..Len(text) /\ j - 1 < e /\ (j - 1) + 1 = j /\ j - 1 < Len(text)
    BY <1>1, <1>3, <1>4
  <2>2. j - 1 \notin Ends
    <3> HIDE DEF Ends
    <3>1. e \in Nat /\ j - 1 \in Nat /\ ~(e <= j - 1)
      BY <1>1, <1>3, <1>4, <2>1
    <3> QED BY <1>4, <3>1
  <2>3. Fit((j - 1) + 1)
    BY <2>1, <2>2
  <2> QED BY <2>1, <2>3
<1>6. e \in start..Len(text) /\ P(e)
  BY <1>5
<1> HIDE DEF P
<1> QED BY <1>2, <1>6

LEMMA ReadChunkFits ==
  ASSUME ChunkFits(chunkRead), NEW limit, ReadChunk(limit)
  PROVE  ChunkFits(chunkRead')
<1>1. PICK c, n : c = chunkRead /\ n = c.seq
  OBVIOUS
<1>2. c \in Chunks /\ n \in -1..LastEvent /\ n >= 0
  BY <1>1 DEF ReadChunk, ChunkFits, Chunks
<1>3. PICK text : text = TextOf[n]
  OBVIOUS
<1>4. n \in 0..LastEvent
  BY <1>2, AndroidEventsAssumption
<1>5. text \in Seq(Nat) /\ text \in Seq(1..4)
  BY <1>3, <1>4, TextIs
<1>6. PICK len : len = Len(text)
  OBVIOUS
<1>7. /\ len \in Nat /\ \A i \in 0..len : WidthsOf(text, i) \in Nat
      /\ \A i, j \in 0..len : i < j => WidthsOf(text, i) < WidthsOf(text, j)
  BY <1>5, <1>6, WidthsGrow
<1>8. c.points \in 0..len /\ c.offset = WidthsOf(text, c.points)
  BY <1>1, <1>2, <1>3, <1>6 DEF ChunkFits
<1> DEFINE start == CHOOSE i \in 0..Len(text) : WidthsOf(text, i) = c.offset
           end == ChunkEnd(text, start, limit)
<1>9. chunkRead' = [c EXCEPT !.offset = WidthsOf(text, end), !.points = @ + (end - start),
                             !.done = WidthsOf(text, end) >= TotalBytes(n)]
  BY <1>1, <1>3 DEF ReadChunk
<1>10. start \in 0..len /\ WidthsOf(text, start) = c.offset
  BY <1>6, <1>8
<1> HIDE DEF start
<1>11. start = c.points
  <2>1. start \in Int /\ c.points \in Int
    BY <1>7, <1>8, <1>10
  <2>2. ~(start < c.points) /\ ~(c.points < start)
    BY <1>7, <1>8, <1>10
  <2> QED BY <2>1, <2>2
<1>12. end \in start..len
  BY <1>5, <1>6, <1>10, ChunkEndIs
<1> HIDE DEF end
<1>13. end \in 0..len /\ WidthsOf(text, end) \in Nat /\ c.points + (end - start) = end
  <2>1. end \in 0..len /\ end \in Nat /\ c.points \in Nat
    BY <1>7, <1>8, <1>10, <1>12
  <2> QED BY <1>7, <1>11, <2>1
<1>14. PICK over \in {TRUE, FALSE} : over = (WidthsOf(text, end) >= TotalBytes(n))
  <2>1. CASE WidthsOf(text, end) >= TotalBytes(n)
    <3>1. (WidthsOf(text, end) >= TotalBytes(n)) = TRUE
      BY <2>1
    <3> QED BY <3>1
  <2>2. CASE ~(WidthsOf(text, end) >= TotalBytes(n))
    <3>1. (WidthsOf(text, end) >= TotalBytes(n)) = FALSE
      BY <2>2
    <3> QED BY <3>1
  <2> QED BY <2>1, <2>2
<1>15. WidthsOf(text, end) >= TotalBytes(n) => end = len
  <2>1. TotalBytes(n) = WidthsOf(text, len)
    BY <1>3, <1>6 DEF TotalBytes
  <2>2. len \in 0..len /\ end \in Int /\ end <= len /\ WidthsOf(text, len) \in Nat
    BY <1>7, <1>13
  <2>3. end < len => WidthsOf(text, end) < WidthsOf(text, len)
    BY <1>7, <1>13, <2>2
  <2> QED BY <1>13, <2>1, <2>2, <2>3
<1>a. over => end = len
  BY <1>14, <1>15
<1>16. PICK t : t = [c EXCEPT !.offset = WidthsOf(text, end), !.points = end, !.done = over]
  OBVIOUS
<1>17. /\ chunkRead' = t /\ t \in Chunks /\ t.seq = n /\ t.points = end /\ t.offset = WidthsOf(text, end)
       /\ t.done = over
  <2>1. chunkRead' = t
    BY <1>9, <1>13, <1>14, <1>16
  <2>2. end \in Nat
    BY <1>7, <1>13
  <2> QED BY <1>1, <1>2, <1>13, <1>16, <2>1, <2>2 DEF Chunks
<1>18. ChunkFits(t)
  BY <1>2, <1>3, <1>6, <1>13, <1>a, <1>17 DEF ChunkFits
<1> QED BY <1>17, <1>18

-----------------------------------------------------------------------------
(* A phone takes what waits.                                               *)

Reads(sub, item, rest) ==
  LET left == [sub EXCEPT !.queue = rest] IN
  CASE item.type = "event" -> [left EXCEPT !.taken = Append(@, item.id)]
    [] item.type = "requested" -> [left EXCEPT !.asks = @ \cup {item.id}]
    [] item.type = "resolved" -> [left EXCEPT !.asks = @ \ {item.id}]
    [] OTHER -> left

ReadOff(sub, item, rest, t) ==
  /\ t \in Subs /\ t.done = sub.done /\ t.since = sub.since /\ t.last = sub.last /\ t.seen = sub.seen
  /\ t.queue = rest
  /\ t.taken = IF item.type = "event" THEN Append(sub.taken, item.id) ELSE sub.taken
  /\ t.asks = IF item.type = "requested" THEN sub.asks \cup {item.id}
              ELSE IF item.type = "resolved" THEN sub.asks \ {item.id} ELSE sub.asks

LEMMA ReadsIs ==
  ASSUME NEW sub \in Subs, NEW item \in FeedItems, NEW rest \in Seq(FeedItems), NEW t, t = Reads(sub, item, rest)
  PROVE  ReadOff(sub, item, rest, t)
<1>1. PICK left : left = [sub EXCEPT !.queue = rest]
  OBVIOUS
<1>2. /\ left \in Subs /\ left.done = sub.done /\ left.since = sub.since /\ left.last = sub.last
      /\ left.seen = sub.seen /\ left.queue = rest /\ left.taken = sub.taken /\ left.asks = sub.asks
  BY <1>1 DEF Subs
<1>3. CASE item.type = "event"
  <2>1. item.id \in 0..LastEvent
    BY <1>3, FeedItemHas
  <2>2. PICK long : long = Append(sub.taken, item.id)
    OBVIOUS
  <2>3. long \in Seq(0..LastEvent)
    BY <2>1, <2>2, SubHas, AppendProperties
  <2>4. t = [left EXCEPT !.taken = long]
    BY <1>1, <1>2, <1>3, <2>2 DEF Reads
  <2>5. /\ t \in Subs /\ t.done = left.done /\ t.since = left.since /\ t.last = left.last
        /\ t.seen = left.seen /\ t.queue = left.queue /\ t.taken = long /\ t.asks = left.asks
    BY <1>2, <2>3, <2>4 DEF Subs
  <2> QED BY <1>2, <1>3, <2>2, <2>5 DEF ReadOff
<1>4. ASSUME NEW awaited \in SUBSET FeedAsks, t = [left EXCEPT !.asks = awaited]
      PROVE  /\ t \in Subs /\ t.done = left.done /\ t.since = left.since /\ t.last = left.last
             /\ t.seen = left.seen /\ t.queue = left.queue /\ t.taken = left.taken /\ t.asks = awaited
  BY <1>2, <1>4 DEF Subs
<1>5. CASE item.type = "requested"
  <2>1. item.id \in FeedAsks
    BY <1>5, FeedItemHas DEF AboutAsk
  <2>2. PICK awaited : awaited = sub.asks \cup {item.id}
    OBVIOUS
  <2>3. awaited \in SUBSET FeedAsks /\ t = [left EXCEPT !.asks = awaited]
    BY <1>1, <1>2, <1>5, <2>1, <2>2, SubHas DEF Reads
  <2> QED BY <1>2, <1>4, <1>5, <2>2, <2>3 DEF ReadOff
<1>6. CASE item.type = "resolved"
  <2>2. PICK awaited : awaited = sub.asks \ {item.id}
    OBVIOUS
  <2>3. awaited \in SUBSET FeedAsks /\ t = [left EXCEPT !.asks = awaited]
    BY <1>1, <1>2, <1>6, <2>2, SubHas DEF Reads
  <2> QED BY <1>2, <1>4, <1>6, <2>2, <2>3 DEF ReadOff
<1>7. CASE item.type \notin {"event", "requested", "resolved"}
  <2>1. t = left
    BY <1>1, <1>7 DEF Reads
  <2> QED BY <1>2, <1>7, <2>1 DEF ReadOff
<1> QED BY <1>3, <1>5, <1>6, <1>7

LEMMA SubTakes ==
  ASSUME NEW sub, NEW open, NEW hosts, SubSound(sub, open, hosts), sub.queue # <<>>,
         NEW t, t = Reads(sub, Head(sub.queue), Tail(sub.queue))
  PROVE  SubSound(t, open, hosts)
<1>1. /\ sub \in Subs /\ FeedOrder(sub) /\ SeenTrue(sub.seen, open, hosts)
      /\ ~sub.done => \A a \in FeedAsks : FeedTells(sub.queue, sub.asks, open, a)
  BY DEF SubSound
<1>2. PICK item, rest : item = Head(sub.queue) /\ rest = Tail(sub.queue)
  OBVIOUS
<1>3. PICK n, l : n = Len(rest) /\ l = Len(sub.taken)
  OBVIOUS
<1>4. /\ rest \in Seq(FeedItems) /\ n \in Nat /\ l \in Nat /\ Len(sub.queue) = n + 1 /\ sub.queue[1] = item
      /\ item \in FeedItems /\ \A j \in 1..n : rest[j] = sub.queue[j + 1]
  <2>1. sub.queue \in Seq(FeedItems) /\ Len(sub.taken) \in Nat /\ Len(sub.queue) \in Nat
    BY <1>1, SubHas
  <2>2. /\ rest \in Seq(FeedItems) /\ Len(rest) = Len(sub.queue) - 1 /\ item \in FeedItems
        /\ \A j \in 1..Len(rest) : rest[j] = sub.queue[j + 1]
    BY <1>2, <2>1, HeadTailProperties
  <2>3. Len(rest) \in Nat
    BY <2>2, LenProperties
  <2>4. item = sub.queue[1]
    BY <1>2
  <2> QED BY <1>3, <2>1, <2>2, <2>3, <2>4
<1>5. /\ t \in Subs /\ t.done = sub.done /\ t.since = sub.since /\ t.last = sub.last /\ t.seen = sub.seen
      /\ t.queue = rest
      /\ t.taken = IF item.type = "event" THEN Append(sub.taken, item.id) ELSE sub.taken
      /\ t.asks = IF item.type = "requested" THEN sub.asks \cup {item.id}
                  ELSE IF item.type = "resolved" THEN sub.asks \ {item.id} ELSE sub.asks
  <2>1. t = Reads(sub, item, rest)
    BY <1>2
  <2>2. sub \in Subs /\ item \in FeedItems /\ rest \in Seq(FeedItems)
    BY <1>1, <1>4
  <2>3. ReadOff(sub, item, rest, t)
    BY <2>1, <2>2, ReadsIs
  <2> QED BY <2>3 DEF ReadOff
<1>6. ASSUME ~sub.done, NEW a \in FeedAsks PROVE FeedTells(rest, t.asks, open, a)
  <2>1. FeedTells(sub.queue, sub.asks, open, a) /\ sub.queue \in Seq(FeedItems)
    BY <1>1, <1>6, SubHas
  <2>2. IF AboutAsk(item, a) THEN a \in t.asks <=> item.type = "requested" ELSE a \in t.asks <=> a \in sub.asks
    BY <1>5 DEF AboutAsk
  <2>3. PICK seemed, queue, had : seemed = t.asks /\ queue = sub.queue /\ had = sub.asks
    OBVIOUS
  <2>4. queue \in Seq(FeedItems) /\ queue # <<>> /\ rest = Tail(queue) /\ item = Head(queue)
    BY <1>2, <2>1, <2>3
  <2>5. /\ FeedTells(queue, had, open, a)
        /\ IF AboutAsk(item, a) THEN a \in seemed <=> item.type = "requested" ELSE a \in seemed <=> a \in had
    BY <2>1, <2>2, <2>3
  <2>6. FeedTells(rest, seemed, open, a)
    BY <2>4, <2>5, FeedTellsRead
  <2> QED BY <2>3, <2>6
<1>7. /\ \A i \in 1..l : sub.taken[i] \in Int /\ sub.taken[i] > sub.since /\ (~sub.done => sub.taken[i] <= sub.last)
      /\ \A i, j \in 1..l : i < j => sub.taken[i] < sub.taken[j]
  <2>1. sub.taken \in Seq(0..LastEvent) /\ DOMAIN sub.taken = 1..l
    BY <1>1, <1>3, SubHas, LenProperties
  <2>2. \A i \in 1..l : sub.taken[i] \in 0..LastEvent
    BY <1>3, <2>1, ElementOfSeq
  <2>3. /\ \A i \in 1..l : sub.taken[i] > sub.since
        /\ ~sub.done => \A i \in 1..l : sub.taken[i] <= sub.last
    BY <1>1, <1>3 DEF FeedOrder
  <2>4. \A i, j \in 1..l : i < j => sub.taken[i] < sub.taken[j]
    BY <1>1, <2>1 DEF FeedOrder, Increasing
  <2> QED BY <2>2, <2>3, <2>4
<1>8. \A j \in 1..(n + 1) : sub.queue[j].type = "event" =>
         /\ sub.queue[j].id \in Int /\ sub.queue[j].id > sub.since /\ (~sub.done => sub.queue[j].id <= sub.last)
         /\ \A i \in 1..l : sub.taken[i] < sub.queue[j].id
         /\ \A k \in 1..(j - 1) : sub.queue[k].type = "event" => sub.queue[k].id < sub.queue[j].id
  <2>1. \A j \in 1..(n + 1) : sub.queue[j] \in FeedItems
    BY <1>1, <1>4, SubHas, ElementOfSeq
  <2>2. \A j \in 1..(n + 1) : sub.queue[j].type = "event" => sub.queue[j].id \in 0..LastEvent
    BY <2>1, FeedItemHas
  <2>3. \A j \in 1..Len(sub.queue) : sub.queue[j].type = "event" =>
          /\ sub.queue[j].id > sub.since
          /\ \A i \in 1..Len(sub.taken) : sub.taken[i] < sub.queue[j].id
          /\ \A k \in 1..(j - 1) : sub.queue[k].type = "event" => sub.queue[k].id < sub.queue[j].id
    BY <1>1 DEF FeedOrder
  <2>4. ~sub.done => \A j \in 1..Len(sub.queue) : sub.queue[j].type = "event" => sub.queue[j].id <= sub.last
    BY <1>1 DEF FeedOrder
  <2>5. Len(sub.queue) = n + 1 /\ Len(sub.taken) = l
    BY <1>3, <1>4
  <2> QED BY <2>2, <2>3, <2>4, <2>5
<1>9. \A j \in 1..n : /\ j + 1 \in 1..(n + 1) /\ 1 \in 1..((j + 1) - 1)
                     /\ \A k \in 1..(j - 1) : k + 1 \in 1..((j + 1) - 1) /\ k \in 1..n
  BY <1>4
<1>10. \A j \in 1..n : rest[j].type = "event" =>
         /\ rest[j].id > sub.since /\ (~sub.done => rest[j].id <= sub.last)
         /\ \A i \in 1..l : sub.taken[i] < rest[j].id
         /\ \A k \in 1..(j - 1) : rest[k].type = "event" => rest[k].id < rest[j].id
         /\ item.type = "event" => item.id < rest[j].id
  <2> SUFFICES ASSUME NEW j \in 1..n, rest[j].type = "event"
               PROVE /\ rest[j].id > sub.since /\ (~sub.done => rest[j].id <= sub.last)
                     /\ \A i \in 1..l : sub.taken[i] < rest[j].id
                     /\ \A k \in 1..(j - 1) : rest[k].type = "event" => rest[k].id < rest[j].id
                     /\ item.type = "event" => item.id < rest[j].id
    OBVIOUS
  <2>1. PICK q : q = j + 1
    OBVIOUS
  <2>2. q \in 1..(n + 1) /\ rest[j] = sub.queue[q] /\ 1 \in 1..(q - 1)
    BY <1>4, <1>9, <2>1
  <2>3. \A k \in 1..(j - 1) : k + 1 \in 1..(q - 1) /\ rest[k] = sub.queue[k + 1]
    BY <1>4, <1>9, <2>1
  <2>4. /\ sub.queue[q].id > sub.since /\ (~sub.done => sub.queue[q].id <= sub.last)
        /\ \A i \in 1..l : sub.taken[i] < sub.queue[q].id
        /\ \A k \in 1..(q - 1) : sub.queue[k].type = "event" => sub.queue[k].id < sub.queue[q].id
    BY <1>8, <2>2
  <2>5. \A k \in 1..(j - 1) : rest[k].type = "event" => rest[k].id < rest[j].id
    BY <2>2, <2>3, <2>4
  <2>6. item.type = "event" => item.id < rest[j].id
    BY <1>4, <2>2, <2>4
  <2> QED BY <2>2, <2>4, <2>5, <2>6
<1>11. CASE item.type # "event"
  <2>1. t.taken = sub.taken
    BY <1>5, <1>11
  <2>2. FeedOrder(t)
    <3>1. Increasing(t.taken)
      BY <1>1, <2>1 DEF FeedOrder
    <3> QED BY <1>3, <1>5, <1>7, <1>10, <2>1, <3>1 DEF FeedOrder
  <2> QED BY <1>1, <1>5, <1>6, <2>2 DEF SubSound
<1>12. CASE item.type = "event"
  <2>1. PICK long, x : long = t.taken /\ x = item.id
    OBVIOUS
  <2>2. /\ Len(long) = l + 1 /\ DOMAIN long = 1..(l + 1) /\ long[l + 1] = x
        /\ \A i \in 1..l : long[i] = sub.taken[i]
    <3>1. sub.taken \in Seq(0..LastEvent) /\ long = Append(sub.taken, x) /\ x \in 0..LastEvent
      BY <1>1, <1>4, <1>5, <1>12, <2>1, SubHas, FeedItemHas
    <3> QED BY <1>3, <3>1, AppendProperties, LenProperties
  <2>3. /\ x \in Int /\ x > sub.since /\ (~sub.done => x <= sub.last) /\ \A i \in 1..l : sub.taken[i] < x
    <3>1. 1 \in 1..(n + 1)
      BY <1>4
    <3> QED BY <1>4, <1>8, <1>12, <2>1, <3>1
  <2>4. \A i \in 1..(l + 1) : i \in 1..l \/ i = l + 1
    BY <1>4
  <2>5. \A i \in 1..(l + 1) : long[i] > sub.since /\ (~sub.done => long[i] <= sub.last)
    BY <1>7, <2>2, <2>3, <2>4
  <2>6. Increasing(long)
    <3>1. ASSUME NEW i \in 1..(l + 1), NEW j \in 1..(l + 1), i < j PROVE long[i] < long[j]
      <4>1. i \in 1..l
        BY <1>4, <3>1
      <4>2. CASE j \in 1..l
        BY <1>7, <2>2, <3>1, <4>1, <4>2
      <4>3. CASE j = l + 1
        BY <2>2, <2>3, <4>1, <4>3
      <4> QED BY <2>4, <4>2, <4>3
    <3> QED BY <2>2, <3>1 DEF Increasing
  <2>7. \A j \in 1..n : rest[j].type = "event" =>
          /\ rest[j].id > sub.since /\ (~sub.done => rest[j].id <= sub.last)
          /\ \A i \in 1..(l + 1) : long[i] < rest[j].id
          /\ \A k \in 1..(j - 1) : rest[k].type = "event" => rest[k].id < rest[j].id
    BY <1>10, <1>12, <2>1, <2>2, <2>4
  <2>8. FeedOrder(t)
    BY <1>3, <1>5, <2>1, <2>2, <2>5, <2>6, <2>7 DEF FeedOrder
  <2> QED BY <1>1, <1>5, <1>6, <2>8 DEF SubSound
<1> QED BY <1>11, <1>12

-----------------------------------------------------------------------------
(* The invariant and the steps.                                            *)

AskStates == [FeedAsks -> {"new", "open", "closed"}]

FeedsSound(feeds, open, hosts) ==
  feeds = [p \in Readers |-> feeds[p]] /\ \A p \in Readers : SubSound(feeds[p], open, hosts)

FeedIInv ==
  /\ logTop \in -1..LastEvent /\ muxSeq \in -1..logTop
  /\ hostAsks \in AskStates /\ feedAsks \in SUBSET FeedAsks
  /\ FeedsSound(feed, feedAsks, hostAsks)
  /\ DetailsFit(detailOrder, details)
  /\ ChunkFits(chunkRead)

LEMMA FeedStarts ==
  ASSUME FeedInit
  PROVE  FeedIInv
<1>1. logTop \in -1..LastEvent /\ muxSeq \in -1..logTop
  BY AndroidEventsAssumption DEF FeedInit
<1>2. hostAsks \in AskStates /\ feedAsks \in SUBSET FeedAsks
  BY DEF FeedInit, AskStates
<1>3. FeedsSound(feed, feedAsks, hostAsks)
  <2>1. feed = [p \in Readers |-> NoFeed]
    BY DEF FeedInit
  <2>2. SubSound(NoFeed, feedAsks, hostAsks)
    BY NoFeedIs
  <2> QED BY <2>1, <2>2 DEF FeedsSound
<1>4. DetailsFit(detailOrder, details)
  <2>1. detailOrder = <<>> /\ details = {}
    BY DEF FeedInit
  <2>2. BytesOf({}) = 0 /\ DetailBound \in Nat /\ CachedEvents \in Nat
    BY BytesAre, AndroidEventsAssumption
  <2>3. <<>> \in Seq(0..LastEvent) /\ Len(<<>>) = 0
    OBVIOUS
  <2> QED BY <2>1, <2>2, <2>3 DEF DetailsFit
<1>5. ChunkFits(chunkRead)
  <2>1. PICK c : c = NoChunk
    OBVIOUS
  <2>2. c = [seq |-> -1, offset |-> 0, points |-> 0, done |-> FALSE]
    BY <2>1 DEF NoChunk
  <2>3. c \in Chunks /\ c.seq = -1 /\ ~c.done
    BY <2>2, AndroidEventsAssumption DEF Chunks
  <2>4. ChunkFits(c)
    BY <2>3 DEF ChunkFits
  <2> QED BY <2>1, <2>4 DEF FeedInit
<1> QED BY <1>1, <1>2, <1>3, <1>4, <1>5 DEF FeedIInv

\* What is emitted reaches every reader.
LEMMA FeedEmitIs ==
  ASSUME NEW open, NEW hosts, FeedsSound(feed, open, hosts), NEW item \in FeedItems,
         NEW now, NEW later, NothingReopens(hosts, later), NEW kind, kind = item.type, NEW b, b = item.id,
         \/ kind \notin {"requested", "resolved"} /\ now = open
         \/ b \in FeedAsks /\ kind = "requested" /\ now = open \cup {b} /\ hosts[b] # "closed"
         \/ b \in FeedAsks /\ kind = "resolved" /\ now = open \ {b} /\ hosts[b] # "closed" /\ later[b] = "closed",
         NEW feeds, feeds = FeedEmit(item, feed)
  PROVE  FeedsSound(feeds, now, later)
<1>1. feeds = [p \in Readers |-> FeedEnqueued(feed[p], item)]
  BY DEF FeedEmit
<1>2. ASSUME NEW p \in Readers PROVE SubSound(feeds[p], now, later)
  <2>1. SubSound(feed[p], open, hosts)
    BY DEF FeedsSound
  <2>2. PICK sub, t : sub = feed[p] /\ t = FeedEnqueued(sub, item)
    OBVIOUS
  <2>3. SubSound(t, now, later)
    BY <2>1, <2>2, SubTold
  <2> QED BY <1>1, <2>2, <2>3
<1> QED BY <1>1, <1>2 DEF FeedsSound

LEMMA OneFeedMoves ==
  ASSUME NEW open, NEW hosts, FeedsSound(feed, open, hosts), NEW p \in Readers, NEW t, SubSound(t, open, hosts),
         NEW feeds, feeds = [feed EXCEPT ![p] = t]
  PROVE  FeedsSound(feeds, open, hosts)
<1>1. feed = [r \in Readers |-> feed[r]] /\ \A r \in Readers : SubSound(feed[r], open, hosts)
  BY DEF FeedsSound
<1>2. \A r \in Readers : feeds[r] = IF r = p THEN t ELSE feed[r]
  BY <1>1
<1>3. feeds = [r \in Readers |-> feeds[r]]
  BY <1>1
<1>4. \A r \in Readers : SubSound(feeds[r], open, hosts)
  BY <1>1, <1>2
<1> QED BY <1>3, <1>4 DEF FeedsSound

LEMMA OpenFeedKeeps ==
  ASSUME FeedIInv, NEW p \in Readers, NEW scoped \in BOOLEAN, NEW since \in -1..LastEvent, OpenFeed(p, scoped, since)
  PROVE  FeedIInv'
<1>1. /\ feedAsks \in SUBSET FeedAsks /\ FeedsSound(feed, feedAsks, hostAsks)
      /\ UNCHANGED <<logTop, live, muxSeq, cached, hostAsks, feedAsks, texts, chunkRead>>
  BY DEF OpenFeed, FeedIInv
<1>2. PICK awaited \in SetToSeqs(feedAsks) :
        feed' = [feed EXCEPT ![p] = IF scoped THEN WithEvents(WithAsks(NewSub(since), awaited), ToSet(cached))
                                    ELSE WithAsks(NewSub(since), awaited)]
  BY DEF OpenFeed, NewSub
<1>3. PICK new, all : new = WithAsks(NewSub(since), awaited) /\ all = WithEvents(new, ToSet(cached))
  OBVIOUS
<1>4. SubSound(new, feedAsks, hostAsks)
  BY <1>1, <1>3, WithAsksIs
<1>5. SubSound(all, feedAsks, hostAsks)
  BY <1>3, <1>4, WithEventsIs
<1>6. PICK t : t = IF scoped THEN all ELSE new
  OBVIOUS
<1>7. SubSound(t, feedAsks, hostAsks) /\ feed' = [feed EXCEPT ![p] = t]
  BY <1>2, <1>3, <1>4, <1>5, <1>6
<1>8. FeedsSound(feed', feedAsks, hostAsks)
  BY <1>1, <1>7, OneFeedMoves
<1> QED BY <1>1, <1>8 DEF FeedIInv, texts

LEMMA SseTakesKeeps ==
  ASSUME FeedIInv, NEW p \in Readers, SseTakes(p)
  PROVE  FeedIInv'
<1>1. /\ FeedsSound(feed, feedAsks, hostAsks) /\ feed[p].queue # <<>>
      /\ UNCHANGED <<logTop, live, muxSeq, cached, hostAsks, feedAsks, texts, chunkRead, opens>>
  BY DEF SseTakes, FeedIInv
<1>2. feed = [r \in Readers |-> feed[r]] /\ SubSound(feed[p], feedAsks, hostAsks)
  BY <1>1 DEF FeedsSound
<1>3. PICK sub, item, rest, t : /\ sub = feed[p] /\ item = Head(sub.queue) /\ rest = Tail(sub.queue)
                                /\ t = Reads(sub, item, rest)
  OBVIOUS
<1>4. feed' = [feed EXCEPT ![p] = t]
  BY <1>2, <1>3 DEF SseTakes, Written, Reads
<1>5. SubSound(t, feedAsks, hostAsks)
  BY <1>1, <1>2, <1>3, SubTakes
<1>6. FeedsSound(feed', feedAsks, hostAsks)
  BY <1>1, <1>4, <1>5, OneFeedMoves
<1> QED BY <1>1, <1>6 DEF FeedIInv, texts

LEMMA PhoneGoneKeeps ==
  ASSUME FeedIInv, NEW p \in Readers, PhoneGone(p)
  PROVE  FeedIInv'
<1>1. /\ FeedsSound(feed, feedAsks, hostAsks) /\ feed' = [feed EXCEPT ![p] = NoFeed]
      /\ UNCHANGED <<logTop, live, muxSeq, cached, hostAsks, feedAsks, texts, chunkRead, opens>>
  BY DEF PhoneGone, FeedIInv
<1>2. PICK t : t = NoFeed
  OBVIOUS
<1>3. SubSound(t, feedAsks, hostAsks)
  BY <1>2, NoFeedIs
<1>4. FeedsSound(feed', feedAsks, hostAsks)
  BY <1>1, <1>2, <1>3, OneFeedMoves
<1> QED BY <1>1, <1>4 DEF FeedIInv, texts

LEMMA FeedMuxKeeps ==
  ASSUME FeedIInv, EventLogged \/ MuxStarts \/ MuxEnds \/ MuxEvent \/ PageRemembered
  PROVE  FeedIInv'
<1>0. /\ logTop \in -1..LastEvent /\ muxSeq \in -1..logTop /\ LastEvent \in Nat
      /\ FeedsSound(feed, feedAsks, hostAsks) /\ DetailsFit(detailOrder, details)
  BY AndroidEventsAssumption DEF FeedIInv
<1>a. NothingReopens(hostAsks, hostAsks)
  BY DEF NothingReopens
<1>1. CASE EventLogged
  <2>1. logTop' \in -1..LastEvent /\ muxSeq \in -1..logTop'
    BY <1>0, <1>1 DEF EventLogged
  <2> QED BY <1>1, <2>1 DEF EventLogged, FeedIInv, texts
<1>2. CASE MuxStarts
  <2>1. muxSeq' \in -1..logTop
    BY <1>0, <1>2 DEF MuxStarts
  <2> QED BY <1>2, <2>1 DEF MuxStarts, FeedIInv, texts
<1>3. CASE MuxEnds
  <2>1. PICK item, kind, b : item = FeedItem("stream-error", 0) /\ kind = item.type /\ b = item.id
    OBVIOUS
  <2>2. item \in FeedItems /\ kind = "stream-error"
    BY <2>1, FeedItemsAre, FeedItemIs
  <2>3. feed' = FeedEmit(item, feed)
    BY <1>3, <2>1 DEF MuxEnds
  <2>4. kind \notin {"requested", "resolved"}
    BY <2>2
  <2>5. FeedsSound(feed', feedAsks, hostAsks)
    BY <1>0, <1>a, <2>1, <2>2, <2>3, <2>4, FeedEmitIs
  <2> QED BY <1>3, <2>5 DEF MuxEnds, FeedIInv, texts
<1>4. CASE MuxEvent
  <2>0. PICK n : n = muxSeq'
    OBVIOUS
  <2>1. n \in 0..LastEvent /\ muxSeq' \in -1..logTop
    BY <1>0, <1>4, <2>0 DEF MuxEvent
  <2>2. PICK item, kind, b : item = Event(n) /\ kind = item.type /\ b = item.id
    OBVIOUS
  <2>3. item \in FeedItems /\ kind \notin {"requested", "resolved"}
    BY <2>1, <2>2, FeedItemsAre
  <2>4. feed' = FeedEmit(item, feed)
    BY <1>4, <2>0, <2>2 DEF MuxEvent
  <2>5. FeedsSound(feed', feedAsks, hostAsks)
    BY <1>0, <1>a, <2>2, <2>3, <2>4, FeedEmitIs
  <2>6. DetailsFit(detailOrder', details')
    BY <1>0, <1>4, <2>0, <2>1, PutIs DEF MuxEvent, putDetail
  <2> QED BY <1>4, <2>1, <2>5, <2>6 DEF MuxEvent, FeedIInv
<1>5. CASE PageRemembered
  <2>1. PICK n \in 0..logTop : putDetail(n)
    BY <1>5 DEF PageRemembered
  <2>2. n \in 0..LastEvent
    BY <1>0
  <2>3. DetailsFit(detailOrder', details')
    BY <1>0, <2>1, <2>2, PutIs DEF putDetail
  <2> QED BY <1>5, <2>3 DEF PageRemembered, FeedIInv
<1> QED BY <1>1, <1>2, <1>3, <1>4, <1>5

LEMMA FeedHostKeeps ==
  ASSUME FeedIInv, NEW id \in FeedAsks, HostAsks(id) \/ HostAsksAgain(id) \/ HostCloses(id)
  PROVE  FeedIInv'
<1>1. /\ FeedsSound(feed, feedAsks, hostAsks) /\ hostAsks \in AskStates /\ feedAsks \in SUBSET FeedAsks
      /\ DetailsFit(detailOrder, details) /\ ChunkFits(chunkRead)
      /\ UNCHANGED <<logTop, muxSeq, texts, chunkRead>>
  BY DEF FeedIInv, HostAsks, HostAsksAgain, HostCloses
<1>2. PICK kind \in {"requested", "resolved"} :
        /\ Hears(kind, id) /\ hostAsks[id] # "closed" /\ hostAsks' \in AskStates
        /\ NothingReopens(hostAsks, hostAsks') /\ (kind = "resolved" => hostAsks'[id] = "closed")
  BY <1>1 DEF HostAsks, HostAsksAgain, HostCloses, NothingReopens, AskStates
<1>3. feedAsks' \in SUBSET FeedAsks /\ FeedsSound(feed', feedAsks', hostAsks')
  <2>1. CASE ~live
    <3>1. feedAsks' = feedAsks /\ feed' = feed
      BY <1>2, <2>1 DEF Hears
    <3>2. FeedsSound(feed, feedAsks, hostAsks')
      BY <1>1, <1>2, SubHears DEF FeedsSound
    <3> QED BY <1>1, <3>1, <3>2
  <2>2. CASE live
    <3>1. PICK item : item = FeedItem(kind, id)
      OBVIOUS
    <3>2. item \in FeedItems /\ kind = item.type /\ id = item.id
      BY <3>1, FeedItemsAre, FeedItemIs
    <3>3. /\ feedAsks' = IF kind = "requested" THEN feedAsks \cup {id} ELSE feedAsks \ {id}
          /\ feed' = FeedEmit(item, feed)
      BY <1>2, <2>2, <3>1 DEF Hears
    <3>4. FeedsSound(feed', feedAsks', hostAsks')
      BY <1>1, <1>2, <3>2, <3>3, FeedEmitIs
    <3> QED BY <1>1, <3>3, <3>4
  <2> QED BY <2>1, <2>2
<1>4. logTop' \in -1..LastEvent /\ muxSeq' \in -1..logTop'
  BY <1>1 DEF FeedIInv
<1> QED BY <1>1, <1>2, <1>3, <1>4 DEF FeedIInv, texts

LEMMA FeedTextKeeps ==
  ASSUME FeedIInv, NEW n \in 0..LastEvent, NEW limit, DetailFails \/ AskDetail(n) \/ ReadChunk(limit)
  PROVE  FeedIInv'
<1>1. UNCHANGED <<logTop, live, muxSeq, cached, hostAsks, feedAsks, feed, texts, opens>>
  BY DEF DetailFails, AskDetail, ReadChunk
<1>2. ChunkFits(chunkRead')
  <2>1. ChunkFits(chunkRead)
    BY DEF FeedIInv
  <2>2. CASE DetailFails
    BY <2>2, ChunkAsked DEF DetailFails
  <2>3. CASE AskDetail(n)
    BY <2>3, ChunkAsked DEF AskDetail
  <2>4. CASE ReadChunk(limit)
    BY <2>1, <2>4, ReadChunkFits
  <2> QED BY <2>2, <2>3, <2>4
<1> QED BY <1>1, <1>2 DEF FeedIInv, texts

LEMMA FeedNextKeeps ==
  ASSUME FeedIInv, [FeedNext]_feedVars
  PROVE  FeedIInv'
<1>0. 0 \in 0..LastEvent
  BY AndroidEventsAssumption
<1>1. CASE EventLogged \/ MuxStarts \/ MuxEnds \/ MuxEvent \/ PageRemembered
  BY <1>1, FeedMuxKeeps
<1>2. CASE DetailFails
  BY <1>0, <1>2, FeedTextKeeps
<1>3. CASE \E id \in FeedAsks : HostAsks(id) \/ HostAsksAgain(id) \/ HostCloses(id)
  BY <1>3, FeedHostKeeps
<1>4. CASE \E n \in 0..LastEvent : AskDetail(n)
  BY <1>4, FeedTextKeeps
<1>5. CASE \E limit \in 1..3 : ReadChunk(limit)
  BY <1>0, <1>5, FeedTextKeeps
<1>6. CASE \E p \in Readers :
             \/ SseTakes(p)
             \/ PhoneGone(p)
             \/ \E scoped \in BOOLEAN, since \in -1..LastEvent : OpenFeed(p, scoped, since)
  BY <1>6, SseTakesKeeps, PhoneGoneKeeps, OpenFeedKeeps
<1>7. CASE UNCHANGED feedVars
  BY <1>7 DEF feedVars, FeedIInv, texts
<1> QED BY <1>1, <1>2, <1>3, <1>4, <1>5, <1>6, <1>7 DEF FeedNext

\* Of every run of the feeds the invariant holds.
THEOREM FeedInvariantHolds == FeedSpec => []FeedIInv
<1>1. FeedInit => FeedIInv
  BY FeedStarts
<1>2. FeedIInv /\ [FeedNext]_feedVars => FeedIInv'
  BY FeedNextKeeps
<1> QED BY <1>1, <1>2, PTL DEF FeedSpec

LEMMA FeedInvariantIsSound ==
  ASSUME FeedIInv
  PROVE  FeedSound
<1>1. ASSUME NEW p \in Readers
      PROVE  /\ Increasing(feed[p].taken)
             /\ \A i \in DOMAIN feed[p].taken : feed[p].taken[i] > feed[p].since
             /\ ~feed[p].done /\ feed[p].queue = <<>> => feed[p].asks = feedAsks
  <2>1. PICK sub : sub = feed[p]
    OBVIOUS
  <2>2. SubSound(sub, feedAsks, hostAsks)
    BY <2>1 DEF FeedIInv, FeedsSound
  <2>3. /\ sub \in Subs /\ FeedOrder(sub)
        /\ ~sub.done => \A a \in FeedAsks : FeedTells(sub.queue, sub.asks, feedAsks, a)
    BY <2>2 DEF SubSound
  <2>4. DOMAIN sub.taken = 1..Len(sub.taken)
    BY <2>3, SubHas, LenProperties
  <2>5. ASSUME ~sub.done, sub.queue = <<>> PROVE sub.asks = feedAsks
    <3>1. sub.asks \in SUBSET FeedAsks /\ feedAsks \in SUBSET FeedAsks
      BY <2>3, SubHas DEF FeedIInv
    <3>2. 1..Len(sub.queue) = {}
      BY <2>5
    <3>3. \A a \in FeedAsks : a \in sub.asks <=> a \in feedAsks
      BY <2>3, <2>5, <3>2 DEF FeedTells
    <3> QED BY <3>1, <3>3
  <2> QED BY <2>1, <2>3, <2>4, <2>5 DEF FeedOrder
<1>2. FeedInOrder /\ FeedShowsAsks
  BY <1>1 DEF FeedInOrder, FeedShowsAsks
<1>3. DetailsBounded
  <2>1. DetailsFit(detailOrder, details)
    BY DEF FeedIInv
  <2> QED BY <2>1, OrderCounts DEF DetailsFit, DetailsBounded
<1>4. DetailComplete
  BY DEF FeedIInv, ChunkFits, DetailComplete, Chunks
<1> QED BY <1>2, <1>3, <1>4 DEF FeedSound

\* Phones are told of events in order and of the asks that are open, and texts are bounded
\* and complete.
THEOREM FeedIsSound == FeedSpec => []FeedSound
<1>1. FeedIInv => FeedSound
  BY FeedInvariantIsSound
<1> QED BY <1>1, FeedInvariantHolds, PTL
=============================================================================
