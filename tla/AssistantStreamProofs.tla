------------------------ MODULE AssistantStreamProofs ------------------------
(***************************************************************************)
(* What is proved of the assistant's streams: of the mirror that the phone *)
(* reads (AssistantStream) for any sessions, limits and bounds, and, at the *)
(* end, of the follow of a session on an older host (HubFollow) for a log  *)
(* of any length.                                                          *)
(*                                                                         *)
(* One session of the mirror is a tuple of values (its agents' logs, the   *)
(* mirror's state, the baseline being read, the phone's copy): the first   *)
(* lemmas say how each operation changes that tuple, the later ones put    *)
(* sessions and the shared counter together.                               *)
(***************************************************************************)
EXTENDS AssistantStream, HubFollow, FiniteSetTheorems, SequenceTheorems, WellFoundedInduction,
        NaturalsInduction, TLAPS

Logs == Seq(Seq(Frames))
Readings == Baselines \cup {Unknown}

\* Frame f continues the log of agent g.
Continues(lg, g, f) ==
  /\ f.revision = Len(lg) + 1
  /\ f.type = "start" => f.id = <<g, Len(lg) + 1>> /\ f.total = f.size /\ f.size = FixedBytes
  /\ f.type # "start" =>
       /\ UnderWay(lg) # None
       /\ f.id = UnderWay(lg).id /\ f.index = UnderWay(lg).nextIndex
       /\ f.type = "chunk" => f.total = UnderWay(lg).bytes + f.size

LEMMA NoneIsNoAttempt == None \notin Attempts
BY MirrorAssumption DEF Attempts, Ids

\* SnapshotAt describes an attempt.
LEMMA SnapshotType ==
  ASSUME NEW lg \in Seq(Frames), NEW r \in 0..Len(lg)
  PROVE  SnapshotAt(lg, r) \in AttemptOrNone
<1>1. CASE r = 0 \/ lg[r].type = "end"
  BY <1>1 DEF SnapshotAt, AttemptOrNone
<1>2. CASE r # 0 /\ lg[r].type # "end"
  <2>1. lg[r] \in Frames
    BY <1>2
  <2>2. lg[r].id \in Ids /\ lg[r].total \in Nat /\ lg[r].index \in Nat
    BY <2>1 DEF Frames
  <2>3. (IF lg[r].type = "start" THEN 0 ELSE lg[r].index + 1) \in Nat
    BY <2>2
  <2> QED BY <1>2, <2>2, <2>3 DEF SnapshotAt, AttemptOrNone, Attempts
<1> QED BY <1>1, <1>2

\* Appending to a lg leaves its earlier snapshots as they are.
LEMMA SnapshotStable ==
  ASSUME NEW lg \in Seq(Frames), NEW f \in Frames, NEW r \in Nat, r <= Len(lg)
  PROVE  SnapshotAt(Append(lg, f), r) = SnapshotAt(lg, r)
<1>1. CASE r = 0
  BY <1>1 DEF SnapshotAt
<1>2. CASE r # 0
  <2>1. Append(lg, f)[r] = lg[r]
    BY <1>2
  <2> QED BY <2>1 DEF SnapshotAt
<1> QED BY <1>1, <1>2

\* The logs of a session after agent g emitted f.
Grown(logs, g, f) == [logs EXCEPT ![g] = Append(@, f)]

LEMMA GrownLogs ==
  ASSUME NEW logs \in Logs, NEW g \in 1..Len(logs), NEW f \in Frames
  PROVE  /\ Grown(logs, g, f) \in Logs
         /\ Len(Grown(logs, g, f)) = Len(logs)
         /\ Grown(logs, g, f)[g] = Append(logs[g], f)
         /\ \A h \in 1..Len(logs) : h # g => Grown(logs, g, f)[h] = logs[h]
         /\ \A h \in 1..Len(logs) : logs[h] \in Seq(Frames)
<1>1. \A h \in 1..Len(logs) : logs[h] \in Seq(Frames)
  BY DEF Logs
<1>2. Append(logs[g], f) \in Seq(Frames)
  BY <1>1
<1> QED BY <1>1, <1>2 DEF Logs, Grown

\* What was true of some agent stays so.
LEMMA TruthStable ==
  ASSUME NEW logs \in Logs, NEW g \in 1..Len(logs), NEW f \in Frames,
         NEW r \in Nat, NEW a, WasTrueOf(logs, r, a)
  PROVE  WasTrueOf(Grown(logs, g, f), r, a)
<1>1. PICK h \in 1..Len(logs) : r <= Len(logs[h]) /\ a = SnapshotAt(logs[h], r)
  BY DEF WasTrueOf
<1>2. logs[h] \in Seq(Frames)
  BY GrownLogs
<1>3. CASE h = g
  <2>1. SnapshotAt(Append(logs[g], f), r) = a
    BY <1>1, <1>2, <1>3, SnapshotStable
  <2>2. Len(Append(logs[g], f)) = Len(logs[g]) + 1 /\ Len(logs[g]) \in Nat
    BY <1>2, <1>3
  <2>3. r <= Len(logs[g])
    BY <1>1, <1>3
  <2>4. r <= Len(Append(logs[g], f))
    BY <2>2, <2>3
  <2>5. r <= Len(Grown(logs, g, f)[g]) /\ a = SnapshotAt(Grown(logs, g, f)[g], r)
    BY <2>1, <2>4, GrownLogs
  <2>6. g \in 1..Len(Grown(logs, g, f))
    BY GrownLogs
  <2> QED BY <2>5, <2>6 DEF WasTrueOf
<1>4. CASE h # g
  BY <1>1, <1>4, GrownLogs DEF WasTrueOf
<1> QED BY <1>3, <1>4

LEMMA KnownStable ==
  ASSUME NEW logs \in Logs, NEW g \in 1..Len(logs), NEW f \in Frames,
         NEW id \in Ids, Known(logs, id)
  PROVE  Known(Grown(logs, g, f), id)
<1>1. logs[g] \in Seq(Frames)
  BY GrownLogs
<1>2. Len(Append(logs[g], f)) = Len(logs[g]) + 1 /\ Len(logs[g]) \in Nat
  BY <1>1
<1>3. CASE id[1] = g
  <2>1. id[2] \in 1..Len(logs[g])
    BY <1>3 DEF Known
  <2>2. id[2] \in 1..Len(Append(logs[g], f))
    BY <1>2, <2>1
  <2>3. id[2] \in 1..Len(Grown(logs, g, f)[g]) /\ g \in 1..Len(Grown(logs, g, f))
    BY <2>2, GrownLogs
  <2> QED BY <1>3, <2>3 DEF Known
<1>4. CASE id[1] # g
  <2>1. id[1] \in 1..Len(logs) /\ id[2] \in 1..Len(logs[id[1]])
    BY DEF Known
  <2>2. Grown(logs, g, f)[id[1]] = logs[id[1]]
    BY <1>4, <2>1, GrownLogs
  <2>3. id[1] \in 1..Len(Grown(logs, g, f))
    BY <2>1, GrownLogs
  <2> QED BY <2>1, <2>2, <2>3 DEF Known
<1> QED BY <1>3, <1>4

\* The attempt under way at a revision of some agent carries that agent's name.
LEMMA AttemptsNamed ==
  ASSUME NEW logs \in Logs, LogsNumbered(logs), NEW g \in 1..Len(logs),
         NEW r \in 0..Len(logs[g]), SnapshotAt(logs[g], r) # None
  PROVE  /\ SnapshotAt(logs[g], r).id[1] = g
         /\ SnapshotAt(logs[g], r).id[2] \in 1..r
         /\ SnapshotAt(logs[g], r).id \in Ids
         /\ Known(logs, SnapshotAt(logs[g], r).id)
<1>1. logs[g] \in Seq(Frames)
  BY DEF Logs
<1>2. r # 0 /\ SnapshotAt(logs[g], r).id = logs[g][r].id
  BY DEF SnapshotAt
<1>3. logs[g][r] \in Frames
  BY <1>1, <1>2
<1>4. logs[g][r].id[1] = g /\ logs[g][r].id[2] \in 1..r
  BY <1>2 DEF LogsNumbered
<1>5. logs[g][r].id[2] \in 1..Len(logs[g])
  BY <1>1, <1>4
<1> QED BY <1>2, <1>3, <1>4, <1>5 DEF Frames, Known

LEMMA NumberedStable ==
  ASSUME NEW logs \in Logs, NEW g \in 1..Len(logs), NEW f \in Frames,
         LogsNumbered(logs), Continues(logs[g], g, f)
  PROVE  LogsNumbered(Grown(logs, g, f))
<1> DEFINE lg == logs[g]
           new == Grown(logs, g, f)
<1>1. lg \in Seq(Frames) /\ Len(lg) \in Nat
  BY GrownLogs
<1>2. f.revision = Len(lg) + 1 /\ f.id[1] = g /\ f.id[2] \in 1..(Len(lg) + 1)
  <2>1. f.revision = Len(lg) + 1
    BY DEF Continues
  <2>2. CASE f.type = "start"
    BY <1>1, <2>1, <2>2 DEF Continues
  <2>3. CASE f.type # "start"
    <3>1. UnderWay(lg) # None /\ f.id = UnderWay(lg).id
      BY <2>3 DEF Continues
    <3>2. Len(lg) \in 0..Len(lg)
      BY <1>1
    <3>3. f.id[1] = g /\ f.id[2] \in 1..Len(lg)
      BY <3>1, <3>2, AttemptsNamed DEF UnderWay
    <3> QED BY <1>1, <2>1, <3>3
  <2> QED BY <2>2, <2>3
<1>3. SUFFICES ASSUME NEW h \in 1..Len(logs), NEW i \in 1..Len(new[h])
               PROVE  new[h][i].revision = i /\ new[h][i].id[1] = h
                      /\ new[h][i].id[2] \in 1..i
  <2>1. Len(new) = Len(logs)
    BY GrownLogs
  <2> HIDE DEF new
  <2> QED BY <2>1 DEF LogsNumbered, new
<1>4. CASE h # g
  <2>1. new[h] = logs[h]
    BY <1>4, GrownLogs
  <2>2. i \in 1..Len(logs[h])
    BY <2>1
  <2>3. logs[h][i].revision = i /\ logs[h][i].id[1] = h /\ logs[h][i].id[2] \in 1..i
    BY <2>2 DEF LogsNumbered
  <2> QED BY <2>1, <2>3
<1>5. CASE h = g /\ i <= Len(lg)
  <2>0. new[g] = Append(lg, f)
    BY GrownLogs
  <2> HIDE DEF new
  <2>1. new[h][i] = lg[i] /\ i \in 1..Len(lg)
    BY <1>1, <1>5, <1>3, <2>0
  <2> QED BY <1>5, <2>1 DEF LogsNumbered
<1>6. CASE h = g /\ ~(i <= Len(lg))
  <2>0. new[g] = Append(lg, f)
    BY GrownLogs
  <2> HIDE DEF new
  <2>1. i = Len(lg) + 1 /\ new[h][i] = f
    BY <1>1, <1>6, <1>3, <2>0
  <2> QED BY <1>2, <1>6, <2>1
<1> QED BY <1>4, <1>5, <1>6

-----------------------------------------------------------------------------
\* Extending the attempt under way by the frame that continues its lg gives
\* the snapshot at the new revision.
LEMMA ExtendedIsSnapshot ==
  ASSUME NEW lg \in Seq(Frames), NEW g, NEW f \in Frames, Continues(lg, g, f)
  PROVE  SnapshotAt(Append(lg, f), Len(lg) + 1) = Extended(UnderWay(lg), f)
<1>1. Append(lg, f)[Len(lg) + 1] = f /\ Len(lg) + 1 # 0
  OBVIOUS
<1>2. UnderWay(lg) \in AttemptOrNone
  BY SnapshotType DEF UnderWay
<1>3. CASE f.type = "start"
  BY <1>1, <1>3 DEF SnapshotAt, Extended, Continues
<1>4. CASE f.type = "chunk"
  <2> DEFINE a == UnderWay(lg)
  <2>1. a \in Attempts
    BY <1>2, <1>4 DEF Continues, AttemptOrNone
  <2>2. Extended(a, f) = [a EXCEPT !.nextIndex = @ + 1, !.bytes = @ + f.size]
    BY <1>4 DEF Extended
  <2>3. Extended(a, f) = [id |-> a.id, nextIndex |-> a.nextIndex + 1, bytes |-> a.bytes + f.size]
    BY <2>1, <2>2 DEF Attempts
  <2>4. f.id = a.id /\ f.index = a.nextIndex /\ f.total = a.bytes + f.size
    BY <1>4 DEF Continues
  <2>5. SnapshotAt(Append(lg, f), Len(lg) + 1)
          = [id |-> f.id, bytes |-> f.total, nextIndex |-> f.index + 1]
    BY <1>1, <1>4 DEF SnapshotAt
  <2> QED BY <2>3, <2>4, <2>5
<1>5. CASE f.type = "end"
  BY <1>1, <1>5 DEF SnapshotAt, Extended
<1>6. f.type \in {"start", "chunk", "end"}
  BY DEF Frames
<1> QED BY <1>3, <1>4, <1>5, <1>6

LEMMA StartExtended ==
  ASSUME NEW f, f.type = "start", NEW a, NEW b
  PROVE  Extended(a, f) = Extended(b, f)
BY DEF Extended

\* A chunk or an end that is applied continues the attempt the mirror holds.
LEMMA SameAttempt ==
  ASSUME NEW logs \in Logs, LogsNumbered(logs), NEW g \in 1..Len(logs),
         NEW f \in Frames, Continues(logs[g], g, f), NEW m \in Mirrors, NEW count \in Nat,
         WasTrueOf(logs, m.lastRaw, m.active), f.type # "start",
         ~Ignored(m, f), Admitted(m, f, count)
  PROVE  m.active = UnderWay(logs[g])
<1>1. logs[g] \in Seq(Frames) /\ Len(logs[g]) \in 0..Len(logs[g])
  BY GrownLogs
<1>2. m.active # None /\ m.active.id = f.id
  BY DEF Ignored, Admitted, Under
<1>3. m.lastRaw \in Nat /\ f.revision = m.lastRaw + 1
  BY DEF Mirrors, Admitted, Expected, Restarting
<1>4. m.lastRaw = Len(logs[g])
  BY <1>1, <1>3 DEF Continues
<1>5. UnderWay(logs[g]) # None /\ f.id = UnderWay(logs[g]).id
  BY DEF Continues
<1>6. f.id[1] = g
  BY <1>1, <1>5, AttemptsNamed DEF UnderWay
<1>7. PICK h \in 1..Len(logs) :
        m.lastRaw <= Len(logs[h]) /\ m.active = SnapshotAt(logs[h], m.lastRaw)
  BY DEF WasTrueOf
<1>8. m.lastRaw \in 0..Len(logs[h])
  BY <1>3, <1>7
<1>9. m.active.id[1] = h
  BY <1>2, <1>7, <1>8, AttemptsNamed
<1> QED BY <1>2, <1>4, <1>6, <1>7, <1>9 DEF UnderWay

LEMMA RetiredIds ==
  ASSUME NEW m \in Mirrors
  PROVE  Retired(m) \subseteq Ids
BY DEF Retired, Mirrors

\* What is remembered after #retire: nothing new but the attempt under way.
LEMMA RetireFacts ==
  ASSUME NEW m \in Mirrors, NEW f \in Frames
  PROVE  /\ RetiredAfter(m, f) \in Seq(Ids)
         /\ \A i \in DOMAIN RetiredAfter(m, f) :
              \/ RetiredAfter(m, f)[i] \in Retired(m)
              \/ m.active # None /\ RetiredAfter(m, f)[i] = m.active.id
         /\ f.type = "chunk" => RetiredAfter(m, f) = m.retired
<1>1. m.retired \in Seq(Ids)
  BY DEF Mirrors
<1>2. \A i \in DOMAIN m.retired : m.retired[i] \in Retired(m)
  BY DEF Retired
<1>3. CASE f.type = "chunk" \/ m.active = None \/ m.active.id \in Retired(m)
  BY <1>1, <1>2, <1>3 DEF RetiredAfter, Retire
<1>4. CASE f.type # "chunk" /\ m.active # None /\ m.active.id \notin Retired(m)
  <2> DEFINE all == Append(m.retired, m.active.id)
             from == IF Len(all) > MaxRetired THEN 2 ELSE 1
  <2>1. m.active.id \in Ids
    BY <1>4 DEF Mirrors, AttemptOrNone, Attempts
  <2>2. /\ all \in Seq(Ids) /\ Len(all) = Len(m.retired) + 1 /\ Len(m.retired) \in Nat
        /\ \A i \in 1..Len(all) : all[i] \in Retired(m) \/ all[i] = m.active.id
    BY <1>1, <1>2, <2>1
  <2>3. from \in 1..2
    OBVIOUS
  <2>4. RetiredAfter(m, f) = SubSeq(all, from, Len(all))
    BY <1>4 DEF RetiredAfter, Retire
  <2> HIDE DEF all, from
  <2>5. /\ SubSeq(all, from, Len(all)) \in Seq(Ids)
        /\ \A i \in DOMAIN SubSeq(all, from, Len(all)) :
             /\ SubSeq(all, from, Len(all))[i] = all[from + i - 1]
             /\ from + i - 1 \in 1..Len(all)
    BY <2>2, <2>3
  <2> QED BY <1>4, <2>2, <2>4, <2>5
<1> QED BY <1>3, <1>4

-----------------------------------------------------------------------------
\* An agent goes on: what was true of the session stays true.
LEMMA GrowthKeeps ==
  ASSUME NEW logs \in Logs, NEW g \in 1..Len(logs), NEW f \in Frames,
         Continues(logs[g], g, f), NEW m \in Mirrors, NEW r \in Readings, NEW p \in Readings,
         SessionInv(logs, m, r, p)
  PROVE  SessionInv(Grown(logs, g, f), m, r, p)
<1>1. LogsNumbered(Grown(logs, g, f))
  BY NumberedStable DEF SessionInv
<1>2. WasTrueOf(Grown(logs, g, f), m.lastRaw, m.active)
  BY TruthStable DEF SessionInv, Mirrors
<1>3. r # Unknown => WasTrueOf(Grown(logs, g, f), r.revision, r.active)
  BY TruthStable DEF SessionInv, Readings, Baselines
<1>4. \A id \in Retired(m) : Known(Grown(logs, g, f), id)
  BY RetiredIds, KnownStable DEF SessionInv
<1> QED BY <1>1, <1>2, <1>3, <1>4 DEF SessionInv

\* A frame that is applied moves the public revision by one and leaves the
\* session consistent.
LEMMA IngestKeeps ==
  ASSUME NEW logs \in Logs, NEW g \in 1..Len(logs), NEW f \in Frames,
         Continues(logs[g], g, f), NEW m \in Mirrors, NEW r \in Readings, NEW p \in Readings,
         NEW count \in Nat, SessionInv(logs, m, r, p),
         ~Ignored(m, f), Admitted(m, f, count),
         NEW m2, m2 = Ingested(m, f), NEW p2, p2 = PhoneAfter(p, f, m2.public)
  PROVE  /\ m2 \in Mirrors /\ p2 \in Readings
         /\ SessionInv(Grown(logs, g, f), m2, r, p2)
         /\ m2.public = m.public + 1
         /\ m2.active # None => m2.active.id \notin Retired(m)
<1> DEFINE lg == logs[g]
           new == Grown(logs, g, f)
<1>1. lg \in Seq(Frames) /\ Len(lg) \in Nat
  BY GrownLogs
<1>2. /\ m.offset \in Nat /\ m.lastRaw \in Nat /\ m.public \in Nat
      /\ m.active \in AttemptOrNone /\ f.revision \in Nat
  BY DEF Mirrors, Frames
<1>3. /\ m2.lastRaw = f.revision
      /\ m2.active = Extended(m.active, f)
      /\ m2.retired = RetiredAfter(m, f)
      /\ m2.offset = IF Restarting(m, f) THEN m.public ELSE m.offset
      /\ m2.public = m2.offset + f.revision
      /\ m2 = [offset |-> m2.offset, lastRaw |-> m2.lastRaw, public |-> m2.public,
               active |-> m2.active, retired |-> m2.retired]
  BY DEF Ingested
<1>4. m2.public = m.public + 1 /\ m2.offset \in Nat
  BY <1>2, <1>3 DEF Admitted, Expected, SessionInv
<1>5. m2.active = SnapshotAt(Append(lg, f), f.revision) /\ f.revision = Len(lg) + 1
  <2>1. f.revision = Len(lg) + 1
    BY DEF Continues
  <2>2. SnapshotAt(Append(lg, f), f.revision) = Extended(UnderWay(lg), f)
    BY <1>1, <2>1, ExtendedIsSnapshot
  <2>3. CASE f.type = "start"
    BY <1>3, <2>1, <2>2, <2>3, StartExtended
  <2>4. CASE f.type # "start"
    <3>1. m.active = UnderWay(lg)
      BY <2>4, SameAttempt DEF SessionInv
    <3> QED BY <1>3, <2>1, <2>2, <3>1
  <2> QED BY <2>3, <2>4
<1>6. m2.active \in AttemptOrNone
  <2>1. Append(lg, f) \in Seq(Frames) /\ Len(lg) + 1 \in 0..Len(Append(lg, f))
    BY <1>1
  <2> QED BY <1>5, <2>1, SnapshotType
<1>7. m2 \in Mirrors
  BY <1>2, <1>3, <1>4, <1>6, RetireFacts DEF Mirrors
<1>8. WasTrueOf(new, m2.lastRaw, m2.active)
  <2>1. Len(Append(lg, f)) = Len(lg) + 1
    BY <1>1
  <2>2. new[g] = Append(lg, f) /\ g \in 1..Len(new)
    BY GrownLogs
  <2>3. m2.lastRaw <= Len(new[g]) /\ m2.active = SnapshotAt(new[g], m2.lastRaw)
    BY <1>1, <1>3, <1>5, <2>1, <2>2
  <2> HIDE DEF new
  <2> QED BY <2>2, <2>3 DEF WasTrueOf
<1>9. Fits(m2.active)
  BY <1>3 DEF Admitted
<1>10. SessionInv(new, m, r, p)
  BY GrowthKeeps
<1>11. \A id \in Retired(m2) : id \in Ids /\ Known(logs, id)
  <2>1. SUFFICES ASSUME NEW i \in DOMAIN m2.retired
                 PROVE  m2.retired[i] \in Ids /\ Known(logs, m2.retired[i])
    BY DEF Retired
  <2>2. m2.retired[i] \in Retired(m) \/ (m.active # None /\ m2.retired[i] = m.active.id)
    BY <1>3, RetireFacts
  <2>3. CASE m2.retired[i] \in Retired(m)
    BY <2>3, RetiredIds DEF SessionInv
  <2>4. CASE m.active # None /\ m2.retired[i] = m.active.id
    <3>1. PICK h \in 1..Len(logs) :
            m.lastRaw <= Len(logs[h]) /\ m.active = SnapshotAt(logs[h], m.lastRaw)
      BY DEF SessionInv, WasTrueOf
    <3>2. m.lastRaw \in 0..Len(logs[h])
      BY <1>2, <3>1
    <3>3. LogsNumbered(logs) /\ SnapshotAt(logs[h], m.lastRaw) # None
      BY <2>4, <3>1 DEF SessionInv
    <3> QED BY <2>4, <3>1, <3>2, <3>3, AttemptsNamed
  <2> QED BY <2>2, <2>3, <2>4
<1>12. \A id \in Retired(m2) : Known(new, id)
  BY <1>11, KnownStable
<1>13. f.type = "start" => m2.active.id = f.id /\ f.id = <<g, Len(lg) + 1>>
  BY <1>3 DEF Extended, Continues
<1>14. ~Known(logs, <<g, Len(lg) + 1>>)
  BY <1>1 DEF Known
<1>15. f.type = "chunk" => /\ m2.active.id = m.active.id /\ m.active # None
                          /\ m2.retired = m.retired
  <2>1. f.type = "chunk" => m.active # None
    BY DEF Admitted
  <2> QED BY <1>2, <1>3, <2>1, RetireFacts DEF Extended, AttemptOrNone, Attempts
<1>16. f.type = "end" => m2.active = None
  BY <1>3 DEF Extended
<1>17. f.type \in {"start", "chunk", "end"}
  BY DEF Frames
<1>18. m2.active # None => m2.active.id \notin Retired(m2) /\ m2.active.id \notin Retired(m)
  <2>1. CASE f.type = "start"
    BY <1>11, <1>13, <1>14, <2>1 DEF SessionInv
  <2>2. CASE f.type = "chunk"
    BY <1>15, <2>2 DEF SessionInv, Retired
  <2> QED BY <1>16, <1>17, <2>1, <2>2
<1>19. /\ p2 \in Readings
       /\ p2.revision <= m2.public
       /\ p2.revision = m2.public => p2.active = m2.active
  <2>1. CASE p2 = Unknown
    BY <1>2, <1>4, <2>1 DEF Unknown, Readings
  <2>2. CASE p2 # Unknown
    <3>1. p2 = [revision |-> m2.public, active |-> Extended(p.active, f)]
      BY <2>2 DEF PhoneAfter
    <3>2. Extended(p.active, f) = m2.active
      <4>1. CASE f.type = "start"
        BY <1>3, <4>1, StartExtended
      <4>2. CASE f.type # "start"
        <5>1. p.revision + 1 = m2.public
          BY <2>2, <4>2 DEF PhoneAfter
        <5>2. p.revision \in Int
          BY DEF Readings, Baselines, Unknown
        <5>3. p.revision = m.public
          BY <1>2, <1>4, <5>1, <5>2
        <5>4. p.active = m.active
          BY <5>3 DEF SessionInv
        <5> QED BY <1>3, <5>4
      <4> QED BY <4>1, <4>2
    <3>3. m2.public \in Nat
      BY <1>2, <1>4
    <3> QED BY <1>6, <3>1, <3>2, <3>3 DEF Readings, Baselines
  <2> QED BY <2>1, <2>2
<1> HIDE DEF new
<1>20. SessionInv(new, m2, r, p2)
  BY <1>2, <1>3, <1>4, <1>8, <1>9, <1>10, <1>12, <1>18, <1>19 DEF SessionInv
<1> QED BY <1>4, <1>7, <1>18, <1>19, <1>20 DEF new

-----------------------------------------------------------------------------
\* What a phone is shown changes only together with the public revision.
Grows(m, m2) == StateBaseline(m2) = StateBaseline(m) \/ m2.public > m.public

LEMMA InstallKeeps ==
  ASSUME NEW logs \in Logs, NEW m \in Mirrors, NEW b \in Baselines, NEW p \in Readings,
         NEW count \in Nat, SessionInv(logs, m, b, p), b # Unknown, Installs(m, b, count),
         NEW m2, m2 = Installed(m, b)
  PROVE  /\ m2 \in Mirrors /\ Grows(m, m2)
         /\ SessionInv(logs, m2, Unknown, p)
         /\ m2.active # None => m2.active.id \notin Retired(m)
<1>1. /\ m.offset \in Nat /\ m.lastRaw \in Nat /\ m.public \in Nat
      /\ m.public = m.offset + m.lastRaw /\ m.retired \in Seq(Ids)
      /\ b.revision \in Nat /\ b.active \in AttemptOrNone
  BY DEF Mirrors, SessionInv, Baselines
<1>2. /\ m2.lastRaw = b.revision /\ m2.active = b.active /\ m2.retired = m.retired
      /\ m2.offset = IF RestartBaseline(m, b) THEN m.public ELSE m.offset
      /\ m2.public = m2.offset + b.revision
      /\ m2 = [offset |-> m2.offset, lastRaw |-> m2.lastRaw, public |-> m2.public,
               active |-> m2.active, retired |-> m2.retired]
  BY DEF Installed, Mirrors
<1>3. m2 \in Mirrors
  BY <1>1, <1>2 DEF Mirrors
<1>4. m.active = None /\ (m.public = 0 \/ b.revision > m.lastRaw \/ RestartBaseline(m, b))
  BY DEF Installs, News
<1>5. WasTrueOf(logs, b.revision, b.active)
  BY DEF SessionInv
<1>6. b.revision = 0 => b.active = None
  BY <1>5 DEF WasTrueOf, SnapshotAt
<1>7. /\ m2.public >= m.public
      /\ m2.public = m.public => m2.active = m.active
  BY <1>1, <1>2, <1>4, <1>6 DEF RestartBaseline
<1>8. Grows(m, m2)
  BY <1>1, <1>3, <1>7 DEF Grows, StateBaseline, Mirrors
<1>9. Retired(m2) = Retired(m)
  BY <1>2 DEF Retired
<1>10. m2.active # None => m2.active.id \notin Retired(m)
  <2>1. CASE m.public = 0
    BY <1>1, <2>1 DEF SessionInv, Retired
  <2>2. CASE m.public # 0
    BY <1>2, <2>2 DEF Installs, News
  <2> QED BY <2>1, <2>2
<1>11. Fits(m2.active)
  BY <1>2 DEF Installs, Fits
<1>12. /\ p.revision <= m2.public
       /\ p.revision = m2.public => p.active = m2.active
  <2>1. p.revision \in Int /\ m2.public \in Nat /\ p.revision <= m.public
    BY <1>3 DEF Readings, Baselines, Unknown, Mirrors, SessionInv
  <2> QED BY <1>1, <1>7, <2>1 DEF SessionInv
<1>13. m2.retired # <<>> => m2.public > 0
  BY <1>1, <1>2, <1>3, <1>7 DEF SessionInv, Mirrors
<1>14. WasTrueOf(logs, m2.lastRaw, m2.active) /\ m2.public = m2.offset + m2.lastRaw
  BY <1>2, <1>5
<1>15. \A id \in Retired(m2) : Known(logs, id)
  BY <1>9 DEF SessionInv
<1>16. LogsNumbered(logs)
  BY DEF SessionInv
<1> QED BY <1>3, <1>8, <1>9, <1>10, <1>11, <1>12, <1>13, <1>14, <1>15, <1>16 DEF SessionInv

\* A reader, or a phone that subscribes, may be sent what the mirror shows.
LEMMA ShownKeeps ==
  ASSUME NEW logs \in Logs, NEW m \in Mirrors, NEW r \in Readings, NEW p \in Readings,
         SessionInv(logs, m, r, p)
  PROVE  /\ StateBaseline(m) \in Readings
         /\ SessionInv(logs, m, r, StateBaseline(m))
         /\ SessionInv(logs, m, r, Unknown)
         /\ SessionInv(logs, m, Unknown, p)
<1>1. StateBaseline(m) \in Readings /\ m.public \in Nat
  BY DEF StateBaseline, Readings, Baselines, Mirrors
<1>2. StateBaseline(m).revision = m.public /\ StateBaseline(m).active = m.active
  BY DEF StateBaseline
<1>3. Unknown.revision = -1
  BY DEF Unknown
<1>4. SessionInv(logs, m, r, StateBaseline(m))
  BY <1>1, <1>2 DEF SessionInv
<1>5. SessionInv(logs, m, r, Unknown)
  BY <1>1, <1>3 DEF SessionInv
<1>6. SessionInv(logs, m, Unknown, p)
  BY DEF SessionInv
<1> QED BY <1>1, <1>4, <1>5, <1>6

\* A session that gets another agent.
LEMMA RecreateKeeps ==
  ASSUME NEW logs \in Logs, NEW m \in Mirrors, NEW r \in Readings, NEW p \in Readings,
         SessionInv(logs, m, r, p), NEW more, more = Append(logs, << >>)
  PROVE  more \in Logs /\ SessionInv(more, m, r, p)
<1>1. << >> \in Seq(Frames) /\ logs \in Seq(Seq(Frames)) /\ Len(<< >>) = 0
  BY DEF Logs
<1>2. /\ more \in Seq(Seq(Frames)) /\ Len(more) = Len(logs) + 1 /\ Len(logs) \in Nat
      /\ \A g \in 1..Len(logs) : more[g] = logs[g]
      /\ more[Len(logs) + 1] = << >>
  BY <1>1
<1>3. \A g \in 1..Len(logs) : g \in 1..Len(more)
  BY <1>2
<1>4. LogsNumbered(more)
  <2>1. SUFFICES ASSUME NEW g \in 1..Len(more), NEW i \in 1..Len(more[g])
                 PROVE  /\ more[g][i].revision = i /\ more[g][i].id[1] = g
                        /\ more[g][i].id[2] \in 1..i
    BY DEF LogsNumbered
  <2>2. CASE g = Len(logs) + 1
    BY <1>1, <1>2, <2>1, <2>2
  <2>3. CASE g # Len(logs) + 1
    <3>1. g \in 1..Len(logs) /\ more[g] = logs[g]
      BY <1>2, <2>3
    <3> QED BY <3>1 DEF SessionInv, LogsNumbered
  <2> QED BY <2>2, <2>3
<1>5. \A n, a : WasTrueOf(logs, n, a) => WasTrueOf(more, n, a)
  BY <1>2, <1>3 DEF WasTrueOf
<1>6. \A id : Known(logs, id) => Known(more, id)
  BY <1>2, <1>3 DEF Known
<1> QED BY <1>2, <1>4, <1>5, <1>6 DEF SessionInv, Logs

\* A read captures what is true of the newest agent.
LEMMA CaptureKeeps ==
  ASSUME NEW logs \in Logs, NEW m \in Mirrors, NEW r \in Readings, NEW p \in Readings,
         SessionInv(logs, m, r, p), NEW b, b = Current(logs[Len(logs)])
  PROVE  b \in Readings /\ SessionInv(logs, m, b, p)
<1>1. Len(logs) \in 1..Len(logs)
  BY DEF SessionInv, WasTrueOf, Logs
<1>2. logs[Len(logs)] \in Seq(Frames)
  BY <1>1 DEF Logs
<1>3. b.revision = Len(logs[Len(logs)]) /\ b.revision \in 0..Len(logs[Len(logs)])
  BY <1>2 DEF Current
<1>4. b.active = SnapshotAt(logs[Len(logs)], b.revision)
  BY <1>3 DEF Current, UnderWay
<1>5. b.active \in AttemptOrNone
  BY <1>2, <1>3, <1>4, SnapshotType
<1>6. b \in Readings
  BY <1>2, <1>3, <1>5 DEF Readings, Baselines, Current
<1>7. WasTrueOf(logs, b.revision, b.active)
  BY <1>1, <1>3, <1>4 DEF WasTrueOf
<1> QED BY <1>6, <1>7 DEF SessionInv

\* An archived session starts from nothing.
LEMMA DiscardKeeps ==
  ASSUME NEW logs \in Logs, NEW m \in Mirrors, NEW r \in Readings, NEW p \in Readings,
         SessionInv(logs, m, r, p)
  PROVE  NewState \in Mirrors /\ SessionInv(logs, NewState, r, Unknown)
<1>1. NewState \in Mirrors /\ Retired(NewState) = {}
  BY DEF NewState, Mirrors, AttemptOrNone, Retired
<1>2. PICK g \in 1..Len(logs) : TRUE
  BY DEF SessionInv, WasTrueOf
<1>3. logs[g] \in Seq(Frames)
  BY DEF Logs
<1>4. WasTrueOf(logs, 0, None)
  BY <1>3 DEF WasTrueOf, SnapshotAt
<1>5. /\ NewState.public = 0 /\ NewState.lastRaw = 0 /\ NewState.offset = 0
      /\ NewState.active = None /\ NewState.retired = << >>
  BY DEF NewState
<1>6. Unknown.revision = -1
  BY DEF Unknown
<1> QED BY <1>1, <1>4, <1>5, <1>6 DEF SessionInv, Fits

-----------------------------------------------------------------------------
(* The sessions together.                                                   *)

LEMMA CounterKept ==
  ASSUME TypeOK, AttemptsCounted, NEW s \in Sessions, NEW m2 \in Mirrors,
         mirror' = [mirror EXCEPT ![s] = m2],
         activeAttempts' = Counted(mirror[s].active, m2.active, activeAttempts),
         mirror[s].active = None /\ m2.active # None => activeAttempts < MaxActiveAttempts
  PROVE  AttemptsCounted' /\ activeAttempts' \in Nat
<1> DEFINE S == {t \in Sessions : mirror[t].active # None}
           S2 == {t \in Sessions : mirror'[t].active # None}
<1>1. IsFiniteSet(S) /\ Cardinality(S) \in Nat
  <2>1. IsFiniteSet(S)
    BY MirrorAssumption, FS_Subset
  <2> QED BY <2>1, FS_CardinalityType
<1>2. \A t \in Sessions : mirror'[t] = IF t = s THEN m2 ELSE mirror[t]
  BY DEF TypeOK
<1>3. activeAttempts = Cardinality(S) /\ activeAttempts <= MaxActiveAttempts
      /\ MaxActiveAttempts \in Nat
  BY MirrorAssumption DEF AttemptsCounted, ActiveSessions
<1>4. activeAttempts' = Cardinality(S2) /\ activeAttempts' \in Nat
      /\ activeAttempts' <= MaxActiveAttempts
  <2>1. CASE mirror[s].active = None /\ m2.active # None
    <3>1. S2 = S \cup {s} /\ s \notin S
      BY <1>2, <2>1
    <3>2. Cardinality(S2) = Cardinality(S) + 1
      BY <1>1, <3>1, FS_AddElement
    <3>3. activeAttempts' = activeAttempts + 1
      BY <2>1 DEF Counted
    <3> QED BY <1>1, <1>3, <2>1, <3>2, <3>3
  <2>2. CASE mirror[s].active # None /\ m2.active = None
    <3>1. S2 = S \ {s} /\ s \in S
      BY <1>2, <2>2
    <3>2. Cardinality(S2) = Cardinality(S) - 1
      BY <1>1, <3>1, FS_RemoveElement
    <3>3. IsFiniteSet(S2)
      BY <1>1, <3>1, FS_Subset
    <3>4. Cardinality(S2) \in Nat
      BY <3>3, FS_CardinalityType
    <3>5. activeAttempts' = activeAttempts - 1
      BY <2>2 DEF Counted
    <3> HIDE DEF S, S2
    <3> QED BY <1>1, <1>3, <3>2, <3>4, <3>5
  <2>3. CASE (mirror[s].active = None) <=> (m2.active = None)
    <3>1. S2 = S
      BY <1>2, <2>3
    <3>2. activeAttempts' = activeAttempts
      BY <2>3 DEF Counted
    <3> QED BY <1>1, <1>3, <3>1, <3>2
  <2> QED BY <2>1, <2>2, <2>3
<1> QED BY <1>4 DEF AttemptsCounted, ActiveSessions

\* What every step owes the invariant, one session at a time.
LEMMA SessionStep ==
  ASSUME IInv, NEW s \in Sessions,
         NEW logs \in Logs, NEW m2 \in Mirrors, NEW r2 \in Readings, NEW p2 \in Readings,
         agents' = [agents EXCEPT ![s] = logs], mirror' = [mirror EXCEPT ![s] = m2],
         reading' = [reading EXCEPT ![s] = r2], phone' = [phone EXCEPT ![s] = p2],
         activeAttempts' = Counted(mirror[s].active, m2.active, activeAttempts),
         attached' \in BOOLEAN, SessionInv(logs, m2, r2, p2),
         mirror[s].active = None /\ m2.active # None => activeAttempts < MaxActiveAttempts
  PROVE  IInv'
<1>1. TypeOK /\ AttemptsCounted
  BY DEF IInv
<1>2. AttemptsCounted' /\ activeAttempts' \in Nat
  BY <1>1, CounterKept
<1>3. TypeOK'
  BY <1>1, <1>2 DEF TypeOK, Logs, Readings
<1>4. ASSUME NEW t \in Sessions
      PROVE  SessionInv(agents[t], mirror[t], reading[t], phone[t])'
  <2>1. CASE t = s
    <3>1. agents'[t] = logs /\ mirror'[t] = m2 /\ reading'[t] = r2 /\ phone'[t] = p2
      BY <1>1, <2>1 DEF TypeOK
    <3> QED BY <3>1
  <2>2. CASE t # s
    <3>1. /\ agents'[t] = agents[t] /\ mirror'[t] = mirror[t]
          /\ reading'[t] = reading[t] /\ phone'[t] = phone[t]
      BY <1>1, <2>2 DEF TypeOK
    <3> QED BY <3>1 DEF IInv
  <2> QED BY <2>1, <2>2
<1> QED BY <1>2, <1>3, <1>4 DEF IInv

\* The state of one session, as the lemmas above take it.
LEMMA SessionTypes ==
  ASSUME IInv, NEW s \in Sessions
  PROVE  /\ agents[s] \in Logs /\ mirror[s] \in Mirrors /\ reading[s] \in Readings
         /\ phone[s] \in Readings /\ activeAttempts \in Nat /\ attached \in BOOLEAN
         /\ SessionInv(agents[s], mirror[s], reading[s], phone[s])
         /\ agents = [agents EXCEPT ![s] = agents[s]]
         /\ mirror = [mirror EXCEPT ![s] = mirror[s]]
         /\ reading = [reading EXCEPT ![s] = reading[s]]
         /\ phone = [phone EXCEPT ![s] = phone[s]]
         /\ Counted(mirror[s].active, mirror[s].active, activeAttempts) = activeAttempts
BY DEF IInv, TypeOK, Logs, Readings, Counted

\* What a step may do to what a session shows.
ShownOK(s) ==
  /\ Grows(mirror[s], mirror'[s]) \/ mirror'[s] = NewState
  /\ mirror'[s].active # None => mirror'[s].active.id \notin Retired(mirror[s])

LEMMA UnshownOK ==
  ASSUME IInv, NEW s \in Sessions, mirror'[s] = mirror[s]
  PROVE  ShownOK(s)
BY DEF ShownOK, Grows, IInv, SessionInv

\* A frame that continues the lg of its agent, ingested or not.
LEMMA EmitStep ==
  ASSUME IInv, NEW s \in Sessions, NEW g \in 1..Len(agents[s]), NEW f \in Frames,
         Continues(agents[s][g], g, f), Emit(s, g, f)
  PROVE  IInv' /\ \A t \in Sessions : ShownOK(t)
<1> DEFINE new == Grown(agents[s], g, f)
<1>1. new \in Logs
  BY SessionTypes, GrownLogs
<1>2. agents' = [agents EXCEPT ![s] = new]
  BY DEF Emit, Grown
<1>3. reading' = reading /\ attached' = attached
  BY DEF Emit
<1>4. CASE ~(attached /\ ~Ignored(mirror[s], f) /\ Admitted(mirror[s], f, activeAttempts))
  <2>1. mirror' = mirror /\ activeAttempts' = activeAttempts /\ phone' = phone
    BY <1>4 DEF Emit, Ingest
  <2>2. SessionInv(new, mirror[s], reading[s], phone[s])
    BY SessionTypes, GrowthKeeps
  <2> HIDE DEF new
  <2>3. /\ mirror' = [mirror EXCEPT ![s] = mirror[s]]
        /\ phone' = [phone EXCEPT ![s] = phone[s]]
        /\ activeAttempts' = Counted(mirror[s].active, mirror[s].active, activeAttempts)
    BY <2>1, SessionTypes
  <2>4. reading' = [reading EXCEPT ![s] = reading[s]] /\ attached' \in BOOLEAN
    BY <1>3, SessionTypes
  <2>5. mirror[s] \in Mirrors /\ phone[s] \in Readings /\ reading[s] \in Readings
    BY SessionTypes
  <2>6. IInv'
    BY <1>1, <1>2, <2>2, <2>3, <2>4, <2>5, SessionStep
  <2> QED BY <2>1, <2>6, UnshownOK
<1>5. CASE attached /\ ~Ignored(mirror[s], f) /\ Admitted(mirror[s], f, activeAttempts)
  <2> DEFINE m2 == Ingested(mirror[s], f)
             p2 == PhoneAfter(phone[s], f, m2.public)
  <2>1. /\ mirror' = [mirror EXCEPT ![s] = m2]
        /\ activeAttempts' = Counted(mirror[s].active, m2.active, activeAttempts)
        /\ phone' = [phone EXCEPT ![s] = p2]
    BY <1>5 DEF Emit, Ingest
  <2>2. /\ m2 \in Mirrors /\ p2 \in Readings
        /\ SessionInv(new, m2, reading[s], p2)
        /\ m2.public = mirror[s].public + 1
        /\ m2.active # None => m2.active.id \notin Retired(mirror[s])
    BY <1>5, SessionTypes, IngestKeeps
  <2>3. mirror[s].active = None /\ m2.active # None => activeAttempts < MaxActiveAttempts
    BY <1>5 DEF Admitted
  <2>4. mirror[s].public \in Nat
    BY SessionTypes DEF Mirrors
  <2> HIDE DEF new, m2, p2
  <2>5. IInv'
    BY <1>1, <1>2, <1>3, <2>1, <2>2, <2>3, SessionTypes, SessionStep
  <2>6. mirror'[s] = m2 /\ \A t \in Sessions : t # s => mirror'[t] = mirror[t]
    BY <2>1 DEF IInv, TypeOK
  <2>7. ShownOK(s)
    BY <2>2, <2>4, <2>6 DEF ShownOK, Grows
  <2> QED BY <2>5, <2>6, <2>7, UnshownOK
<1> QED BY <1>4, <1>5

LEMMA FrameFits ==
  ASSUME NEW lg \in Seq(Frames), NEW type \in {"start", "chunk", "end"}, NEW id \in Ids,
         NEW index \in Nat, NEW size \in Nat, NEW total \in Nat
  PROVE  NewFrame(lg, type, id, index, size, total) \in Frames
BY DEF NewFrame, Frames

LEMMA EmitKeeps ==
  ASSUME IInv, NEW s \in Sessions, NEW g \in 1..Len(agents[s]),
         EmitStart(s, g) \/ EmitChunk(s, g) \/ EmitEnd(s, g)
  PROVE  IInv' /\ \A t \in Sessions : ShownOK(t)
<1> DEFINE lg == agents[s][g]
           a == UnderWay(lg)
<1>1. lg \in Seq(Frames) /\ Len(lg) \in Nat /\ g \in Nat
  BY SessionTypes, GrownLogs DEF Logs
<1>2. a \in AttemptOrNone
  <2>1. Len(lg) \in 0..Len(lg)
    BY <1>1
  <2> QED BY <1>1, <2>1, SnapshotType DEF UnderWay
<1> HIDE DEF a, lg
<1>3. CASE EmitStart(s, g)
  <2> DEFINE f == NewFrame(lg, "start", <<g, Len(lg) + 1>>, 0, FixedBytes, FixedBytes)
  <2>1. Emit(s, g, f)
    BY <1>3 DEF EmitStart, lg
  <2>2. <<g, Len(lg) + 1>> \in Ids /\ FixedBytes \in Nat
    BY <1>1, MirrorAssumption DEF Ids
  <2>3. f \in Frames
    BY <1>1, <2>2, FrameFits
  <2>4. Continues(lg, g, f)
    BY DEF Continues, NewFrame
  <2> HIDE DEF f
  <2> QED BY <2>1, <2>3, <2>4, EmitStep DEF lg
<1>4. CASE EmitChunk(s, g)
  <2>1. a # None
    BY <1>4 DEF EmitChunk, a, lg
  <2>2. PICK size \in ChunkSizes :
          Emit(s, g, NewFrame(lg, "chunk", a.id, a.nextIndex, size, a.bytes + size))
    BY <1>4 DEF EmitChunk, a, lg
  <2> DEFINE f == NewFrame(lg, "chunk", a.id, a.nextIndex, size, a.bytes + size)
  <2>3. a.id \in Ids /\ a.nextIndex \in Nat /\ a.bytes \in Nat /\ size \in Nat
    BY <1>2, <2>1, MirrorAssumption DEF AttemptOrNone, Attempts
  <2>4. f \in Frames
    BY <1>1, <2>3, FrameFits
  <2>5. Continues(lg, g, f)
    BY <2>1 DEF Continues, NewFrame, a
  <2> HIDE DEF f
  <2>6. Emit(s, g, f)
    BY <2>2 DEF f
  <2> QED BY <2>4, <2>5, <2>6, EmitStep DEF lg
<1>5. CASE EmitEnd(s, g)
  <2>1. a # None
    BY <1>5 DEF EmitEnd, a, lg
  <2> DEFINE f == NewFrame(lg, "end", a.id, a.nextIndex, 0, a.bytes)
  <2>2. Emit(s, g, f)
    BY <1>5 DEF EmitEnd, a, lg
  <2>3. a.id \in Ids /\ a.nextIndex \in Nat /\ a.bytes \in Nat /\ 0 \in Nat
    BY <1>2, <2>1 DEF AttemptOrNone, Attempts
  <2>4. f \in Frames
    BY <1>1, <2>3, FrameFits
  <2>5. Continues(lg, g, f)
    BY <2>1 DEF Continues, NewFrame, a
  <2> HIDE DEF f
  <2> QED BY <2>2, <2>4, <2>5, EmitStep DEF lg
<1> QED BY <1>3, <1>4, <1>5

LEMMA DeliverStep ==
  ASSUME IInv, NEW s \in Sessions, Deliver(s)
  PROVE  IInv' /\ \A t \in Sessions : ShownOK(t)
<1> DEFINE b == reading[s]
           m == mirror[s]
           m2 == IF Installs(m, b, activeAttempts) THEN Installed(m, b) ELSE m
<1>1. /\ b # Unknown
      /\ mirror' = [mirror EXCEPT ![s] = m2]
      /\ activeAttempts' = Counted(m.active, m2.active, activeAttempts)
      /\ phone' = phone \/ phone' = [phone EXCEPT ![s] = StateBaseline(m2)]
      /\ reading' = [reading EXCEPT ![s] = Unknown]
      /\ agents' = agents /\ attached' = attached
  BY DEF Deliver
<1>2. b \in Baselines
  BY <1>1, SessionTypes DEF Readings
<1>3. /\ m2 \in Mirrors
      /\ Grows(m, m2)
      /\ SessionInv(agents[s], m2, Unknown, phone[s])
      /\ m2.active # None => m2.active.id \notin Retired(m)
      /\ m.active = None /\ m2.active # None => activeAttempts < MaxActiveAttempts
  <2>1. CASE Installs(m, b, activeAttempts)
    <3>1. b.active # None => activeAttempts < MaxActiveAttempts
      BY <2>1 DEF Installs
    <3>2. m2 = Installed(m, b) /\ m2.active = b.active
      BY <2>1, SessionTypes DEF Installed, Mirrors
    <3> HIDE DEF m2, m, b
    <3>3. /\ m \in Mirrors /\ phone[s] \in Readings /\ agents[s] \in Logs
          /\ activeAttempts \in Nat /\ SessionInv(agents[s], m, b, phone[s])
      BY SessionTypes DEF m, b
    <3> QED BY <1>1, <1>2, <2>1, <3>1, <3>2, <3>3, InstallKeeps
  <2>2. CASE ~Installs(m, b, activeAttempts)
    <3>1. m2 = m
      BY <2>2
    <3>2. SessionInv(agents[s], m, Unknown, phone[s])
      BY SessionTypes, ShownKeeps
    <3>3. m.active # None => m.active.id \notin Retired(m)
      BY SessionTypes DEF SessionInv
    <3> QED BY <3>1, <3>2, <3>3, SessionTypes DEF Grows
  <2> QED BY <2>1, <2>2
<1>4. Unknown \in Readings /\ attached \in BOOLEAN /\ agents[s] \in Logs /\ phone[s] \in Readings
  BY SessionTypes DEF Readings
<1>5. agents' = [agents EXCEPT ![s] = agents[s]]
  BY <1>1, SessionTypes
<1> HIDE DEF m2
<1>6. IInv'
  <2>1. CASE phone' = phone
    <3>1. phone' = [phone EXCEPT ![s] = phone[s]]
      BY <2>1, SessionTypes
    <3> QED BY <1>1, <1>3, <1>4, <1>5, <3>1, SessionStep
  <2>2. CASE phone' = [phone EXCEPT ![s] = StateBaseline(m2)]
    <3>1. /\ StateBaseline(m2) \in Readings
          /\ SessionInv(agents[s], m2, Unknown, StateBaseline(m2))
      BY <1>3, <1>4, ShownKeeps
    <3> QED BY <1>1, <1>3, <1>4, <1>5, <2>2, <3>1, SessionStep
  <2> QED BY <1>1, <2>1, <2>2
<1>7. mirror'[s] = m2 /\ \A t \in Sessions : t # s => mirror'[t] = mirror[t]
  BY <1>1 DEF IInv, TypeOK
<1>8. ShownOK(s)
  BY <1>3, <1>7 DEF ShownOK
<1> QED BY <1>6, <1>7, <1>8, UnshownOK

\* Steps that leave the mirror alone.
LEMMA QuietStep ==
  ASSUME IInv, NEW s \in Sessions, Recreate(s) \/ Capture(s) \/ Subscribe(s)
  PROVE  IInv' /\ \A t \in Sessions : ShownOK(t)
<1>1. mirror' = mirror /\ activeAttempts' = activeAttempts /\ attached' = attached
  BY DEF Recreate, Capture, Subscribe
<1>2. /\ mirror' = [mirror EXCEPT ![s] = mirror[s]] /\ attached' \in BOOLEAN
      /\ activeAttempts' = Counted(mirror[s].active, mirror[s].active, activeAttempts)
  BY <1>1, SessionTypes
<1>3. /\ agents[s] \in Logs /\ mirror[s] \in Mirrors /\ reading[s] \in Readings
      /\ phone[s] \in Readings /\ SessionInv(agents[s], mirror[s], reading[s], phone[s])
  BY SessionTypes
<1>4. CASE Recreate(s)
  <2>1. /\ agents' = [agents EXCEPT ![s] = Append(agents[s], << >>)]
        /\ reading' = [reading EXCEPT ![s] = reading[s]]
        /\ phone' = [phone EXCEPT ![s] = phone[s]]
    BY <1>4, SessionTypes DEF Recreate
  <2>2. /\ Append(agents[s], << >>) \in Logs
        /\ SessionInv(Append(agents[s], << >>), mirror[s], reading[s], phone[s])
    BY <1>3, RecreateKeeps
  <2>3. IInv'
    BY <1>2, <1>3, <2>1, <2>2, SessionStep
  <2> QED BY <1>1, <2>3, UnshownOK
<1>5. CASE Capture(s)
  <2> DEFINE b == Current(agents[s][Len(agents[s])])
  <2>1. /\ agents' = [agents EXCEPT ![s] = agents[s]]
        /\ reading' = [reading EXCEPT ![s] = b]
        /\ phone' = [phone EXCEPT ![s] = phone[s]]
    BY <1>5, SessionTypes DEF Capture
  <2>2. b \in Readings /\ SessionInv(agents[s], mirror[s], b, phone[s])
    BY <1>3, CaptureKeeps
  <2> HIDE DEF b
  <2>3. IInv'
    BY <1>2, <1>3, <2>1, <2>2, SessionStep
  <2> QED BY <1>1, <2>3, UnshownOK
<1>6. CASE Subscribe(s)
  <2> DEFINE p == IF mirror[s].active = None THEN Unknown ELSE StateBaseline(mirror[s])
  <2>1. /\ agents' = [agents EXCEPT ![s] = agents[s]]
        /\ reading' = [reading EXCEPT ![s] = reading[s]]
        /\ phone' = [phone EXCEPT ![s] = p]
    BY <1>6, SessionTypes DEF Subscribe
  <2>2. p \in Readings /\ SessionInv(agents[s], mirror[s], reading[s], p)
    BY <1>3, ShownKeeps DEF Readings
  <2> HIDE DEF p
  <2>3. IInv'
    BY <1>2, <1>3, <2>1, <2>2, SessionStep
  <2> QED BY <1>1, <2>3, UnshownOK
<1> QED BY <1>4, <1>5, <1>6

LEMMA DiscardStep ==
  ASSUME IInv, NEW s \in Sessions, Discard(s)
  PROVE  IInv' /\ \A t \in Sessions : ShownOK(t)
<1>1. /\ agents' = [agents EXCEPT ![s] = agents[s]]
      /\ mirror' = [mirror EXCEPT ![s] = NewState]
      /\ activeAttempts' = Counted(mirror[s].active, None, activeAttempts)
      /\ reading' = [reading EXCEPT ![s] = reading[s]]
      /\ phone' = [phone EXCEPT ![s] = Unknown] /\ attached' \in BOOLEAN
  BY SessionTypes DEF Discard, Discarded
<1>2. /\ agents[s] \in Logs /\ mirror[s] \in Mirrors /\ reading[s] \in Readings
      /\ phone[s] \in Readings /\ SessionInv(agents[s], mirror[s], reading[s], phone[s])
  BY SessionTypes
<1>3. NewState \in Mirrors /\ SessionInv(agents[s], NewState, reading[s], Unknown)
  BY <1>2, DiscardKeeps
<1>4. NewState.active = None /\ Unknown \in Readings
  BY DEF NewState, Readings
<1>5. IInv'
  BY <1>1, <1>2, <1>3, <1>4, SessionStep
<1>6. mirror'[s] = NewState /\ \A t \in Sessions : t # s => mirror'[t] = mirror[t]
  BY <1>1 DEF IInv, TypeOK
<1>7. ShownOK(s)
  BY <1>4, <1>6 DEF ShownOK
<1> QED BY <1>5, <1>6, <1>7, UnshownOK

LEMMA InitHolds == Init => IInv
<1> SUFFICES ASSUME Init PROVE IInv
  OBVIOUS
<1>1. << << >> >> \in Logs
  <2>1. << >> \in Seq(Frames)
    OBVIOUS
  <2> QED BY <2>1 DEF Logs
<1>2. NewState \in Mirrors
  BY DEF NewState, Mirrors, AttemptOrNone
<1>3. TypeOK
  BY <1>1, <1>2 DEF Init, TypeOK, Logs
<1>4. AttemptsCounted
  <2>1. {s \in Sessions : mirror[s].active # None} = {}
    BY DEF Init, NewState
  <2>2. Cardinality({}) = 0
    BY FS_EmptySet
  <2>3. ActiveSessions = {}
    BY <2>1 DEF ActiveSessions
  <2>4. activeAttempts = 0 /\ 0 <= MaxActiveAttempts
    BY MirrorAssumption DEF Init
  <2> QED BY <2>2, <2>3, <2>4 DEF AttemptsCounted
<1>5. SessionInv(<< << >> >>, NewState, Unknown, Unknown)
  <2>1. Len(<< << >> >>) = 1 /\ << << >> >>[1] = << >> /\ Len(<< >>) = 0
    OBVIOUS
  <2>2. LogsNumbered(<< << >> >>)
    BY <2>1 DEF LogsNumbered
  <2>3. WasTrueOf(<< << >> >>, 0, None)
    BY <2>1 DEF WasTrueOf, SnapshotAt
  <2>4. Retired(NewState) = {}
    BY DEF NewState, Retired
  <2> QED BY <2>2, <2>3, <2>4 DEF SessionInv, NewState, Unknown, Fits
<1> QED BY <1>3, <1>4, <1>5 DEF Init, IInv

LEMMA StepKeeps ==
  ASSUME IInv, [Next]_vars
  PROVE  IInv' /\ \A t \in Sessions : ShownOK(t)
<1>1. ASSUME NEW s \in Sessions, NEW g \in 1..Len(agents[s]),
             EmitStart(s, g) \/ EmitChunk(s, g) \/ EmitEnd(s, g)
      PROVE  IInv' /\ \A t \in Sessions : ShownOK(t)
  BY <1>1, EmitKeeps
<1>2. ASSUME NEW s \in Sessions, Recreate(s) \/ Capture(s) \/ Subscribe(s)
      PROVE  IInv' /\ \A t \in Sessions : ShownOK(t)
  BY <1>2, QuietStep
<1>3. ASSUME NEW s \in Sessions, Deliver(s)
      PROVE  IInv' /\ \A t \in Sessions : ShownOK(t)
  BY <1>3, DeliverStep
<1>4. ASSUME NEW s \in Sessions, Discard(s)
      PROVE  IInv' /\ \A t \in Sessions : ShownOK(t)
  BY <1>4, DiscardStep
<1>5. CASE Attach \/ UNCHANGED vars
  <2>1. /\ agents' = agents /\ mirror' = mirror /\ activeAttempts' = activeAttempts
        /\ reading' = reading /\ phone' = phone /\ attached' \in BOOLEAN
    BY <1>5 DEF Attach, vars, IInv, TypeOK
  <2>2. IInv'
    BY <2>1 DEF IInv, TypeOK, AttemptsCounted, ActiveSessions
  <2> QED BY <2>1, <2>2, UnshownOK
<1> QED BY <1>1, <1>2, <1>3, <1>4, <1>5 DEF Next

-----------------------------------------------------------------------------
(* The theorems.                                                            *)

\* The inductive invariant of the mirror.
THEOREM InvariantHolds == Spec => []IInv
<1>1. IInv /\ [Next]_vars => IInv'
  BY StepKeeps
<1> QED BY InitHolds, <1>1, PTL DEF Spec

\* Type correctness of the mirror, its agents, readers and phones.
THEOREM TypeCorrect == Spec => []TypeOK
<1>1. IInv => TypeOK
  BY DEF IInv
<1> QED BY InvariantHolds, <1>1, PTL

\* The counter that guards the limit of active attempts is exact (ingest,
\* baseline and disposeSession agree).
THEOREM CounterExact == Spec => []AttemptsCounted
<1>1. IInv => AttemptsCounted
  BY DEF IInv
<1> QED BY InvariantHolds, <1>1, PTL

\* The public revision is the raw revision moved by the offset.
THEOREM MappingKept == Spec => []RevisionsMapped
<1>1. IInv => RevisionsMapped
  BY DEF IInv, SessionInv, RevisionsMapped
<1> QED BY InvariantHolds, <1>1, PTL

\* The mirror is always a snapshot of one of the session's agents.
THEOREM MirrorFaithful == Spec => []Faithful
<1>1. IInv => Faithful
  BY DEF IInv, SessionInv, Faithful
<1> QED BY InvariantHolds, <1>1, PTL

\* The cache of a session stays within its limit.
THEOREM CacheStaysBounded == Spec => []CacheBounded
<1>1. IInv => CacheBounded
  BY DEF IInv, SessionInv, CacheBounded
<1> QED BY InvariantHolds, <1>1, PTL

\* A phone at the public revision holds what the mirror holds.
THEOREM PhonesAgree == Spec => []PhoneAgrees
<1>1. IInv => PhoneAgrees
  BY DEF IInv, SessionInv, PhoneAgrees
<1> QED BY InvariantHolds, <1>1, PTL

\* The two together: what a phone at the public revision holds is a snapshot of one of
\* the session's agents.
THEOREM MirrorIsSound == Spec => []MirrorSound
<1> QED BY MirrorFaithful, PhonesAgree, PTL DEF MirrorSound

\* What the mirror shows changes only with a higher public revision, until the
\* session is archived.
THEOREM RevisionsGrow == Spec => PublicRevisionGrows
<1>1. IInv /\ [Next]_vars =>
        [\A s \in Sessions :
           StateBaseline(mirror'[s]) # StateBaseline(mirror[s]) /\ mirror'[s] # NewState
             => mirror'[s].public > mirror[s].public]_vars
  BY StepKeeps DEF ShownOK, Grows
<1> QED BY InvariantHolds, <1>1, PTL DEF Spec, PublicRevisionGrows

\* An attempt remembered as over never comes back.
THEOREM NothingResurrected == Spec => NoResurrection
<1>1. IInv /\ [Next]_vars =>
        [\A s \in Sessions :
           mirror'[s].active # None => mirror'[s].active.id \notin Retired(mirror[s])]_vars
  BY StepKeeps DEF ShownOK
<1> QED BY InvariantHolds, <1>1, PTL DEF Spec, NoResurrection

-----------------------------------------------------------------------------
(***************************************************************************)
(* The follow of a session on an older host: a page is shown what the      *)
(* carrier holds, and the hub takes every frame that the carrier makes.    *)
(***************************************************************************)
LEMMA LeastNumber ==
  ASSUME NEW T \in SUBSET Nat, T # {}
  PROVE  \E m \in T : \A k \in T : m <= k
<1> DEFINE R == OpToRel(<, Nat)
<1>1. IsWellFoundedOn(R, Nat)
  BY NatLessThanWellFounded
<1> HIDE DEF R
<1>2. PICK m \in T : \A k \in T : ~(<<k, m>> \in R)
  BY <1>1, WFMin, Zenon
<1>3. \A k \in Nat : k < m => <<k, m>> \in R
  BY DEF R, OpToRel
<1>4. ASSUME NEW k \in T PROVE m <= k
  <2>1. m \in Nat /\ k \in Nat
    OBVIOUS
  <2>2. ~(k < m)
    BY <1>2, <1>3, <2>1
  <2> QED BY <2>1, <2>2
<1> QED BY <1>4

\* Induction over the numbers, by their set.
LEMMA NumbersInductive ==
  ASSUME NEW S, 0 \in S, \A n \in Nat : n \in S => n + 1 \in S
  PROVE  Nat \subseteq S
<1> SUFFICES ASSUME Nat \ S # {} PROVE FALSE
  OBVIOUS
<1>1. PICK m \in Nat \ S : \A k \in Nat \ S : m <= k
  BY LeastNumber
<1>2. m # 0 /\ m - 1 \in Nat /\ m - 1 < m
  BY <1>1
<1>3. m - 1 \in S
  BY <1>1, <1>2
<1>4. (m - 1) + 1 \in S
  BY <1>2, <1>3
<1> QED BY <1>1, <1>4

LEMMA LastOf ==
  ASSUME NEW k \in Nat, NEW T \in SUBSET (1..(k + 1)), k + 1 \in T
  PROVE  Max(T) = k + 1
<1> DEFINE m == Max(T)
<1>1. \A y \in T : k + 1 >= y
  OBVIOUS
<1>2. m \in T /\ \A y \in T : m >= y
  BY <1>1 DEF Max
<1> HIDE DEF m
<1>3. m \in 1..(k + 1) /\ m >= k + 1
  BY <1>2
<1>4. m = k + 1
  BY <1>3
<1> QED BY <1>4 DEF m

LEMMA LastIn ==
  ASSUME NEW n \in Nat, NEW T \in SUBSET (1..n), T # {}
  PROVE  Max(T) \in T /\ \A k \in T : k <= Max(T)
<1>1. PICK m \in T : \A k \in T : k <= m
  <2> DEFINE U == {n - k : k \in T}
  <2>1. U \in SUBSET Nat /\ U # {}
    <3>1. ASSUME NEW k \in T PROVE n - k \in Nat
      <4>1. k \in 1..n
        OBVIOUS
      <4> QED BY <4>1
    <3> QED BY <3>1
  <2>2. PICK u \in U : \A v \in U : u <= v
    BY <2>1, LeastNumber
  <2>3. PICK m \in T : u = n - m
    BY <2>2
  <2>4. ASSUME NEW k \in T PROVE k <= m
    <3>1. n - k \in U
      OBVIOUS
    <3>2. n - m <= n - k
      BY <2>2, <2>3, <3>1
    <3> QED BY <3>2
  <2> QED BY <2>4
<1>2. \A k \in T : m >= k
  BY <1>1
<1>3. Max(T) \in T /\ \A k \in T : Max(T) >= k
  BY <1>2 DEF Max
<1> QED BY <1>3


\* What the hub's checks have made of a set of frames, taken from the last one backwards.
Pushed(g, c, out, n) ==
  g = [T \in SUBSET (1..n) |->
         IF T = {} THEN c ELSE PushCurrent(g[T \ {Max(T)}], out[Max(T)])]

HasPushed(c, out, n) == \E g : Pushed(g, c, out, n)

LEMMA PushedExists ==
  ASSUME NEW c, NEW out, NEW n \in Nat
  PROVE  HasPushed(c, out, n)
<1> DEFINE Good == {k \in Nat : HasPushed(c, out, k)}
<1>1. 0 \in Good
  <2> DEFINE g == [T \in SUBSET (1..0) |-> c]
             e == [T \in SUBSET (1..0) |->
                     IF T = {} THEN c ELSE PushCurrent(g[T \ {Max(T)}], out[Max(T)])]
  <2>1. \A T \in SUBSET (1..0) : T = {}
    OBVIOUS
  <2>2. g = e
    BY <2>1
  <2> HIDE DEF g
  <2>3. Pushed(g, c, out, 0)
    BY <2>2 DEF Pushed
  <2> QED BY <2>3 DEF HasPushed
<1>2. ASSUME NEW k \in Nat, k \in Good PROVE k + 1 \in Good
  <2>0. HasPushed(c, out, k)
    BY <1>2
  <2> HIDE DEF Good
  <2>1. PICK g : Pushed(g, c, out, k)
    BY <2>0 DEF HasPushed
  <2> DEFINE f == [T \in SUBSET (1..(k + 1)) |->
                     IF k + 1 \in T THEN PushCurrent(g[T \ {k + 1}], out[k + 1]) ELSE g[T]]
             e == [T \in SUBSET (1..(k + 1)) |->
                     IF T = {} THEN c ELSE PushCurrent(f[T \ {Max(T)}], out[Max(T)])]
  <2>2. \A T \in SUBSET (1..(k + 1)) : T \ {k + 1} \in SUBSET (1..k)
    OBVIOUS
  <2>5. ASSUME NEW T \in SUBSET (1..(k + 1)) PROVE f[T] = e[T]
    <3>1. CASE k + 1 \in T
      <4>1. Max(T) = k + 1 /\ T # {}
        BY <3>1, LastOf
      <4>2. k + 1 \notin T \ {k + 1} /\ T \ {k + 1} \in SUBSET (1..(k + 1))
        OBVIOUS
      <4>3. f[T \ {k + 1}] = g[T \ {k + 1}]
        BY <4>2
      <4>4. f[T] = PushCurrent(g[T \ {k + 1}], out[k + 1])
        BY <3>1
      <4>5. e[T] = PushCurrent(f[T \ {Max(T)}], out[Max(T)])
        BY <4>1
      <4> QED BY <4>1, <4>3, <4>4, <4>5
    <3>2. CASE k + 1 \notin T
      <4>1. T \in SUBSET (1..k)
        BY <2>2, <3>2
      <4>2. f[T] = g[T]
        BY <3>2
      <4>3. g[T] = IF T = {} THEN c ELSE PushCurrent(g[T \ {Max(T)}], out[Max(T)])
        BY <2>1, <4>1 DEF Pushed
      <4>4. T \ {Max(T)} \in SUBSET (1..(k + 1)) /\ k + 1 \notin T \ {Max(T)}
        BY <3>2
      <4>5. f[T \ {Max(T)}] = g[T \ {Max(T)}]
        BY <4>4
      <4>6. e[T] = IF T = {} THEN c ELSE PushCurrent(f[T \ {Max(T)}], out[Max(T)])
        OBVIOUS
      <4> QED BY <4>2, <4>3, <4>5, <4>6
    <3> QED BY <3>1, <3>2
  <2>6. f = e
    BY <2>5
  <2> HIDE DEF f
  <2>7. Pushed(f, c, out, k + 1)
    BY <2>6 DEF Pushed
  <2>8. HasPushed(c, out, k + 1)
    BY <2>7 DEF HasPushed
  <2> QED BY <2>8 DEF Good
<1> HIDE DEF Good
<1>3. Nat \subseteq Good
  BY <1>1, <1>2, NumbersInductive
<1> QED BY <1>3 DEF Good

\* The frames of a push pass one after the other.
AllPushed(c, out) == FoldLeft(PushCurrent, c, out)
InTurn(f, c, out, n) == f[0] = c /\ \A m \in 1..n : f[m] = PushCurrent(f[m - 1], out[m])

LEMMA PushedInTurn ==
  ASSUME NEW c, NEW n \in Nat, NEW out, DOMAIN out = 1..n
  PROVE  \E f : InTurn(f, c, out, n) /\ AllPushed(c, out) = f[n]
<1> DEFINE iter == CHOOSE g : g = [T \in SUBSET (DOMAIN out) |->
                      IF T = {} THEN c ELSE PushCurrent(g[T \ {Max(T)}], out[Max(T)])]
<1>1. AllPushed(c, out) = iter[DOMAIN out]
  BY DEF AllPushed, FoldLeft, MapThenFoldSet
<1>2. PICK g : Pushed(g, c, out, n)
  BY PushedExists DEF HasPushed
<1>3. iter = [T \in SUBSET (1..n) |->
                IF T = {} THEN c ELSE PushCurrent(iter[T \ {Max(T)}], out[Max(T)])]
  BY <1>2 DEF Pushed
<1> HIDE DEF iter
<1> DEFINE f == [m \in 0..n |-> iter[1..m]]
<1>4. f[0] = c
  <2>1. 1..0 = {}
    OBVIOUS
  <2> QED BY <1>3, <2>1
<1>5. ASSUME NEW m \in 1..n PROVE f[m] = PushCurrent(f[m - 1], out[m])
  <2>1. PICK k \in Nat : k + 1 = m
    <3>1. m - 1 \in Nat /\ (m - 1) + 1 = m
      OBVIOUS
    <3> QED BY <3>1
  <2>2. 1..m \in SUBSET (1..(k + 1)) /\ k + 1 \in 1..m
    BY <2>1
  <2>3. Max(1..m) = m
    BY <2>1, <2>2, LastOf
  <2>4. (1..m) \ {m} = 1..(m - 1) /\ 1..m # {} /\ 1..m \in SUBSET (1..n) /\ m - 1 \in 0..n /\ m \in 0..n
    OBVIOUS
  <2>5. iter[1..m] = PushCurrent(iter[1..(m - 1)], out[m])
    BY <1>3, <2>3, <2>4
  <2> QED BY <2>4, <2>5
<1>6. f[n] = iter[1..n]
  OBVIOUS
<1> HIDE DEF f
<1>7. InTurn(f, c, out, n)
  BY <1>4, <1>5 DEF InTurn
<1> QED BY <1>1, <1>6, <1>7

LEMMA PushedFew ==
  ASSUME NEW c, NEW out
  PROVE  /\ DOMAIN out = 1..1 => AllPushed(c, out) = PushCurrent(c, out[1])
         /\ DOMAIN out = 1..2 => AllPushed(c, out) = PushCurrent(PushCurrent(c, out[1]), out[2])
         /\ DOMAIN out = 1..3 =>
              AllPushed(c, out) = PushCurrent(PushCurrent(PushCurrent(c, out[1]), out[2]), out[3])
         /\ DOMAIN out = 1..4 =>
              AllPushed(c, out) = PushCurrent(PushCurrent(PushCurrent(PushCurrent(c, out[1]), out[2]), out[3]), out[4])
<1>1. ASSUME NEW n \in Nat, DOMAIN out = 1..n
      PROVE  \E f : InTurn(f, c, out, n) /\ AllPushed(c, out) = f[n]
  BY <1>1, PushedInTurn
<1>2. ASSUME DOMAIN out = 1..1 PROVE AllPushed(c, out) = PushCurrent(c, out[1])
  <2>1. PICK n \in Nat : n = 1 /\ DOMAIN out = 1..n
    BY <1>2
  <2>2. PICK f : InTurn(f, c, out, n) /\ AllPushed(c, out) = f[n]
    BY <1>1, <2>1
  <2>3. f[0] = c /\ f[1] = PushCurrent(f[0], out[1])
    BY <2>1, <2>2 DEF InTurn
  <2> QED BY <2>1, <2>2, <2>3
<1>3. ASSUME DOMAIN out = 1..2 PROVE AllPushed(c, out) = PushCurrent(PushCurrent(c, out[1]), out[2])
  <2>1. PICK n \in Nat : n = 2 /\ DOMAIN out = 1..n
    BY <1>3
  <2>2. PICK f : InTurn(f, c, out, n) /\ AllPushed(c, out) = f[n]
    BY <1>1, <2>1
  <2>3. f[0] = c /\ f[1] = PushCurrent(f[0], out[1]) /\ f[2] = PushCurrent(f[1], out[2])
    BY <2>1, <2>2 DEF InTurn
  <2> QED BY <2>1, <2>2, <2>3
<1>4. ASSUME DOMAIN out = 1..3
      PROVE  AllPushed(c, out) = PushCurrent(PushCurrent(PushCurrent(c, out[1]), out[2]), out[3])
  <2>1. PICK n \in Nat : n = 3 /\ DOMAIN out = 1..n
    BY <1>4
  <2>2. PICK f : InTurn(f, c, out, n) /\ AllPushed(c, out) = f[n]
    BY <1>1, <2>1
  <2>3. /\ f[0] = c /\ f[1] = PushCurrent(f[0], out[1])
        /\ f[2] = PushCurrent(f[1], out[2]) /\ f[3] = PushCurrent(f[2], out[3])
    BY <2>1, <2>2 DEF InTurn
  <2> QED BY <2>1, <2>2, <2>3
<1>5. ASSUME DOMAIN out = 1..4
      PROVE  AllPushed(c, out) = PushCurrent(PushCurrent(PushCurrent(PushCurrent(c, out[1]), out[2]), out[3]), out[4])
  <2>1. PICK n \in Nat : n = 4 /\ DOMAIN out = 1..n
    BY <1>5
  <2>2. PICK f : InTurn(f, c, out, n) /\ AllPushed(c, out) = f[n]
    BY <1>1, <2>1
  <2>3. /\ f[0] = c /\ f[1] = PushCurrent(f[0], out[1]) /\ f[2] = PushCurrent(f[1], out[2])
        /\ f[3] = PushCurrent(f[2], out[3]) /\ f[4] = PushCurrent(f[3], out[4])
    BY <2>1, <2>2 DEF InTurn
  <2> QED BY <2>1, <2>2, <2>3
<1> QED BY <1>2, <1>3, <1>4, <1>5

-----------------------------------------------------------------------------
(* The attempt that a snapshot of the log shows.                           *)

FollowKinds == {"turn/start", "step/start", "chunk", "message", "attempt", "step/end", "turn/end"}
FollowEvents == [type : FollowKinds, pos : Nat \X Nat, op : {"none", "append", "other"}]
FollowAttempts == [id : Nat, pos : Nat \X Nat, after : Nat, next : Nat]

BreaksAt(lg, i) == lg[i].type \in {"message", "attempt", "turn/start", "step/start"}
EndsAt(lg, i) == lg[i].type \in {"turn/end", "step/end"}

\* The steps of the search of Opening, for any log.
BreaksOf(lg, n) == {i \in 1..n : lg[i].type \in {"message", "attempt", "turn/start", "step/start"}}
LatestOf(C) == CHOOSE i \in C : \A j \in C : j <= i
FromOf(B) == IF B = {} THEN 0 ELSE LatestOf(B)
ChunksOf(lg, from, n) == {i \in from + 1..n : lg[i].type = "chunk"}
SameOf(lg, C) == {i \in C : \A j \in C : j >= i => lg[j].pos = lg[LatestOf(C)].pos}
EarliestOf(S) == CHOOSE i \in S : \A j \in S : i <= j
OpeningFrom(lg, C, n) ==
  IF C = {} THEN NoAttempt
  ELSE [id |-> EarliestOf(SameOf(lg, C)), pos |-> lg[LatestOf(C)].pos,
        after |-> n, next |-> Cardinality(SameOf(lg, C))]
OpenChunks(lg, n) == ChunksOf(lg, FromOf(BreaksOf(lg, n)), n)
OpeningOf(lg, n) == OpeningFrom(lg, OpenChunks(lg, n), n)

LEMMA OpeningIs == ASSUME NEW n PROVE Opening(n) = OpeningOf(log, n)
BY DEF Opening, OpeningOf, OpenChunks, OpeningFrom, BreaksOf, FromOf, ChunksOf, SameOf, LatestOf, EarliestOf

LEMMA LatestIs ==
  ASSUME NEW n \in Nat, NEW C \in SUBSET (1..n), C # {}
  PROVE  LatestOf(C) \in C /\ \A j \in C : j <= LatestOf(C)
<1>1. Max(C) \in C /\ \A j \in C : j <= Max(C)
  BY LastIn
<1> QED BY <1>1 DEF LatestOf

LEMMA LatestUnique ==
  ASSUME NEW n \in Nat, NEW C \in SUBSET (1..n), NEW m \in C, \A j \in C : j <= m
  PROVE  LatestOf(C) = m
<1>1. LatestOf(C) \in C /\ m <= LatestOf(C) /\ LatestOf(C) <= m
  BY LatestIs
<1>2. LatestOf(C) \in 1..n /\ m \in 1..n
  BY <1>1
<1> QED BY ONLY <1>1, <1>2

LEMMA EarliestIs ==
  ASSUME NEW n \in Nat, NEW C \in SUBSET (1..n), C # {}
  PROVE  EarliestOf(C) \in C /\ \A j \in C : EarliestOf(C) <= j
<1>1. C \in SUBSET Nat
  OBVIOUS
<1>2. \E i \in C : \A j \in C : i <= j
  BY <1>1, LeastNumber
<1> QED BY <1>2 DEF EarliestOf

\* The search begins after the last break.
LEMMA FromIs ==
  ASSUME NEW lg, NEW n \in Nat, NEW from, from = FromOf(BreaksOf(lg, n))
  PROVE  from \in 0..n /\ \A i \in from + 1..n : ~BreaksAt(lg, i)
<1> DEFINE B == BreaksOf(lg, n)
<1>1. B \in SUBSET (1..n) /\ \A i \in 1..n : BreaksAt(lg, i) => i \in B
  BY DEF BreaksOf, BreaksAt
<1> HIDE DEF B
<1>2. CASE B = {}
  <2>1. from = 0
    BY <1>2 DEF FromOf, B
  <2>2. \A i \in 1..n : ~BreaksAt(lg, i)
    BY <1>1, <1>2
  <2> QED BY <2>1, <2>2
<1>3. CASE B # {}
  <2>1. from = LatestOf(B)
    BY <1>3 DEF FromOf, B
  <2>2. from \in B /\ \A j \in B : j <= from
    BY <1>1, <1>3, <2>1, LatestIs
  <2>3. from \in 1..n
    BY <1>1, <2>2
  <2>4. ASSUME NEW i \in from + 1..n, BreaksAt(lg, i) PROVE FALSE
    <3>1. i \in 1..n /\ i > from
      BY <2>3
    <3>2. i <= from
      BY <1>1, <2>2, <2>4, <3>1
    <3> QED BY <2>3, <3>1, <3>2
  <2> QED BY <2>3, <2>4
<1> QED BY <1>2, <1>3

\* What holds of it at any point of the log.
LEMMA OpeningFacts ==
  ASSUME NEW lg \in Seq(FollowEvents), NEW n \in 0..Len(lg), NEW o, o = OpeningOf(lg, n)
  PROVE  /\ o \in FollowAttempts /\ o.after <= n
         /\ o = NoAttempt <=> o.next = 0
         /\ o = NoAttempt <=> OpenChunks(lg, n) = {}
         /\ o # NoAttempt => /\ o.id \in 1..n
                             /\ \A i \in o.id..n : ~BreaksAt(lg, i)
                             /\ \E i \in 1..n : lg[i].pos = o.pos
<1>0. n \in Nat /\ Len(lg) \in Nat /\ n <= Len(lg)
  OBVIOUS
<1>1. PICK from : from = FromOf(BreaksOf(lg, n))
  OBVIOUS
<1>2. from \in 0..n /\ \A i \in from + 1..n : ~BreaksAt(lg, i)
  BY <1>1, FromIs
<1>3. PICK C : C = ChunksOf(lg, from, n)
  OBVIOUS
<1>4. o = OpeningFrom(lg, C, n) /\ C = OpenChunks(lg, n)
  BY <1>1, <1>3 DEF OpeningOf, OpenChunks
<1>5. C \in SUBSET (from + 1..n) /\ C \in SUBSET (1..n)
  <2>1. \A i \in from + 1..n : i \in 1..n
    BY <1>2
  <2> QED BY <1>3, <2>1 DEF ChunksOf
<1>6. CASE C = {}
  <2>1. o = NoAttempt
    BY <1>4, <1>6 DEF OpeningFrom
  <2>2. o \in FollowAttempts /\ o.after = 0 /\ o.next = 0
    BY <2>1 DEF NoAttempt, FollowAttempts
  <2> QED BY <1>4, <1>6, <2>1, <2>2
<1>7. CASE C # {}
  <2>1. PICK l : l = LatestOf(C)
    OBVIOUS
  <2>2. l \in C /\ \A j \in C : j <= l
    BY <1>0, <1>5, <1>7, <2>1, LatestIs
  <2>3. PICK S : S = SameOf(lg, C)
    OBVIOUS
  <2>4. S \in SUBSET C /\ l \in S
    <3>1. \A j \in C : j >= l => j = l
      <4>1. \A j \in C : j \in 1..n
        BY <1>5
      <4> QED BY <2>2, <4>1
    <3>2. S = {i \in C : \A j \in C : j >= i => lg[j].pos = lg[l].pos}
      BY <2>1, <2>3 DEF SameOf
    <3> QED BY <2>2, <3>1, <3>2
  <2>5. PICK k : k = Cardinality(S)
    OBVIOUS
  <2>6. k \in Nat /\ k # 0
    <3>1. IsFiniteSet(1..n)
      BY FS_Interval
    <3>2. IsFiniteSet(S)
      BY <1>5, <2>4, <3>1, FS_Subset
    <3> QED BY <2>4, <2>5, <3>2, FS_CardinalityType, FS_EmptySet
  <2>7. PICK e : e = EarliestOf(S)
    OBVIOUS
  <2>8. e \in S
    <3>1. S \in SUBSET (1..n) /\ S # {}
      BY <1>5, <2>4
    <3> QED BY <1>0, <2>7, <3>1, EarliestIs
  <2>9. o = [id |-> e, pos |-> lg[l].pos, after |-> n, next |-> k]
    BY <1>4, <1>7, <2>1, <2>3, <2>5, <2>7 DEF OpeningFrom
  <2>10. e \in from + 1..n /\ e \in 1..n /\ l \in 1..n
    <3>1. e \in C /\ l \in C
      BY <2>2, <2>4, <2>8
    <3> QED BY <1>5, <3>1
  <2>11. lg[l].pos \in Nat \X Nat
    <3>1. lg[l] \in FollowEvents
      BY <1>0, <2>10
    <3> QED BY <3>1 DEF FollowEvents
  <2>12. o \in FollowAttempts /\ o.after = n /\ o.next = k /\ o.id = e /\ o.pos = lg[l].pos
    BY <2>6, <2>9, <2>10, <2>11 DEF FollowAttempts
  <2>13. o # NoAttempt
    BY <2>6, <2>12 DEF NoAttempt
  <2>14. \A i \in e..n : i \in from + 1..n
    BY <1>2, <2>10
  <2> QED BY <1>2, <1>4, <1>7, <2>6, <2>10, <2>12, <2>13, <2>14
<1> QED BY <1>6, <1>7

\* What the next event changes of it.
LEMMA OpeningSteps ==
  ASSUME NEW lg \in Seq(FollowEvents), NEW n \in Nat, n + 1 \in 1..Len(lg),
         NEW o, o = OpeningOf(lg, n), NEW p, p = OpeningOf(lg, n + 1)
  PROVE  /\ BreaksAt(lg, n + 1) => p = NoAttempt
         /\ lg[n + 1].type = "chunk" /\ (o = NoAttempt \/ o.pos # lg[n + 1].pos) =>
              p.pos = lg[n + 1].pos /\ p.next = 1
         /\ lg[n + 1].type = "chunk" /\ o # NoAttempt /\ o.pos = lg[n + 1].pos =>
              p.pos = lg[n + 1].pos /\ p.next = o.next + 1
<1>0. Len(lg) \in Nat /\ n <= Len(lg) /\ n \in 0..Len(lg) /\ n + 1 \in 0..Len(lg) /\ n + 1 \in Nat
  OBVIOUS
<1>1. ASSUME BreaksAt(lg, n + 1) PROVE p = NoAttempt
  <2>1. PICK B : B = BreaksOf(lg, n + 1)
    OBVIOUS
  <2>2. B \in SUBSET (1..(n + 1)) /\ n + 1 \in B
    BY <1>0, <1>1, <2>1 DEF BreaksOf, BreaksAt
  <2>3. \A j \in B : j <= n + 1
    BY <2>2
  <2>4. FromOf(B) = n + 1
    BY <1>0, <2>2, <2>3, LatestUnique DEF FromOf
  <2>5. ChunksOf(lg, n + 1, n + 1) = {}
    BY DEF ChunksOf
  <2>6. OpenChunks(lg, n + 1) = {}
    BY <2>1, <2>4, <2>5 DEF OpenChunks
  <2> QED BY <2>6 DEF OpeningOf, OpeningFrom
<1>2. ASSUME lg[n + 1].type = "chunk"
      PROVE  /\ o = NoAttempt \/ o.pos # lg[n + 1].pos => p.pos = lg[n + 1].pos /\ p.next = 1
             /\ o # NoAttempt /\ o.pos = lg[n + 1].pos => p.pos = lg[n + 1].pos /\ p.next = o.next + 1
  <2>1. PICK from : from = FromOf(BreaksOf(lg, n))
    OBVIOUS
  <2>2. from \in 0..n
    BY <2>1, FromIs
  <2>3. BreaksOf(lg, n + 1) = BreaksOf(lg, n)
    <3>1. \A i \in 1..(n + 1) : i \in 1..n \/ i = n + 1
      OBVIOUS
    <3>2. \A i \in 1..n : i \in 1..(n + 1)
      OBVIOUS
    <3> QED BY <1>2, <3>1, <3>2 DEF BreaksOf
  <2>4. PICK C : C = OpenChunks(lg, n)
    OBVIOUS
  <2>5. C = ChunksOf(lg, from, n)
    BY <2>1, <2>4 DEF OpenChunks
  <2>6. PICK D : D = OpenChunks(lg, n + 1)
    OBVIOUS
  <2>7. D = ChunksOf(lg, from, n + 1)
    BY <2>1, <2>3, <2>6 DEF OpenChunks
  <2>8. D = C \cup {n + 1}
    <3>1. \A i : i \in from + 1..(n + 1) <=> i \in from + 1..n \/ i = n + 1
      BY <2>2
    <3> QED BY <1>2, <2>5, <2>7, <3>1 DEF ChunksOf
  <2>9. C \in SUBSET (1..n)
    <3>1. \A i \in from + 1..n : i \in 1..n
      BY <2>2
    <3> QED BY <2>5, <3>1 DEF ChunksOf
  <2>10. LatestOf(D) = n + 1
    <3>1. D \in SUBSET (1..(n + 1)) /\ n + 1 \in D
      <4>1. \A i \in 1..n : i \in 1..(n + 1)
        OBVIOUS
      <4> QED BY <1>0, <2>8, <2>9, <4>1
    <3>2. \A j \in D : j <= n + 1
      BY <3>1
    <3> QED BY <1>0, <3>1, <3>2, LatestUnique
  <2>11. PICK T : T = SameOf(lg, D)
    OBVIOUS
  <2>12. T = {i \in D : \A j \in D : j >= i => lg[j].pos = lg[n + 1].pos}
    BY <2>10, <2>11 DEF SameOf
  <2>13. p.pos = lg[n + 1].pos /\ p.next = Cardinality(T)
    <3>1. D # {} /\ p = OpeningFrom(lg, D, n + 1)
      BY <2>6, <2>8 DEF OpeningOf
    <3>2. p = [id |-> EarliestOf(T), pos |-> lg[n + 1].pos, after |-> n + 1, next |-> Cardinality(T)]
      BY <2>10, <2>11, <3>1 DEF OpeningFrom
    <3> QED BY <3>2
  <2>14. \A j \in C : j \in 1..n /\ ~(j >= n + 1) /\ j # n + 1
    BY <2>9
  <2>15. o = NoAttempt <=> C = {}
    BY <1>0, <2>4, OpeningFacts
  <2>16. PICK l : l = LatestOf(C)
    OBVIOUS
  <2>17. C # {} => l \in C /\ \A j \in C : j <= l
    BY <2>9, <2>16, LatestIs
  <2>18. PICK S : S = SameOf(lg, C)
    OBVIOUS
  <2>19. S = {i \in C : \A j \in C : j >= i => lg[j].pos = lg[l].pos}
    BY <2>16, <2>18 DEF SameOf
  <2>20. C # {} => o.pos = lg[l].pos /\ o.next = Cardinality(S)
    <3> SUFFICES ASSUME C # {} PROVE o.pos = lg[l].pos /\ o.next = Cardinality(S)
      OBVIOUS
    <3>1. o = [id |-> EarliestOf(S), pos |-> lg[l].pos, after |-> n, next |-> Cardinality(S)]
      BY <2>4, <2>16, <2>18 DEF OpeningOf, OpeningFrom
    <3> QED BY <3>1
  <2>21. ASSUME o = NoAttempt \/ o.pos # lg[n + 1].pos PROVE Cardinality(T) = 1
    <3>1. ASSUME NEW i \in C, i \in T PROVE FALSE
      <4>1. C # {} /\ l \in C /\ i <= l /\ i \in 1..n /\ l \in 1..n
        BY <2>9, <2>17
      <4>2. lg[l].pos # lg[n + 1].pos
        BY <2>15, <2>20, <2>21, <4>1
      <4>3. l >= i /\ l \in D
        BY <2>8, <4>1
      <4> QED BY <2>12, <3>1, <4>2, <4>3
    <3>2. n + 1 \in T
      <4>1. \A j \in D : j >= n + 1 => j = n + 1
        BY <2>8, <2>14
      <4>2. n + 1 \in D
        BY <2>8
      <4> QED BY <2>12, <4>1, <4>2
    <3>3. T = {n + 1}
      BY <2>8, <2>12, <3>1, <3>2
    <3> QED BY <3>3, FS_Singleton
  <2>22. ASSUME o # NoAttempt, o.pos = lg[n + 1].pos PROVE Cardinality(T) = o.next + 1
    <3>1. C # {} /\ lg[l].pos = lg[n + 1].pos /\ o.next = Cardinality(S)
      BY <2>15, <2>20, <2>22
    <3>2. \A i \in C : i \in T <=> i \in S
      BY <2>8, <2>12, <2>19, <3>1
    <3>3. n + 1 \in T
      <4>1. \A j \in D : j >= n + 1 => j = n + 1
        BY <2>8, <2>14
      <4>2. n + 1 \in D
        BY <2>8
      <4> QED BY <2>12, <4>1, <4>2
    <3>4. T = S \cup {n + 1} /\ n + 1 \notin S
      BY <2>8, <2>12, <2>14, <2>19, <3>2, <3>3
    <3>5. IsFiniteSet(S)
      <4>1. IsFiniteSet(1..n)
        BY FS_Interval
      <4>2. S \in SUBSET (1..n)
        BY <2>9, <2>19
      <4> QED BY <4>1, <4>2, FS_Subset
    <3> QED BY <3>1, <3>4, <3>5, FS_AddElement
  <2> QED BY <2>13, <2>21, <2>22
<1> QED BY <1>1, <1>2

\* A log that grows keeps it.
LEMMA OpeningKept ==
  ASSUME NEW lg \in Seq(FollowEvents), NEW e, NEW n \in 0..Len(lg)
  PROVE  OpeningOf(Append(lg, e), n) = OpeningOf(lg, n)
<1>0. n \in Nat /\ Len(lg) \in Nat /\ n <= Len(lg)
  OBVIOUS
<1>1. PICK mg : mg = Append(lg, e)
  OBVIOUS
<1>2. \A i \in 1..n : mg[i] = lg[i]
  <2>1. \A i \in 1..Len(lg) : mg[i] = lg[i]
    BY <1>1
  <2> QED BY <1>0, <2>1
<1>3. BreaksOf(mg, n) = BreaksOf(lg, n)
  BY <1>2 DEF BreaksOf
<1>4. PICK from : from = FromOf(BreaksOf(lg, n))
  OBVIOUS
<1>5. from \in 0..n
  BY <1>0, <1>4, FromIs
<1>6. \A i \in from + 1..n : i \in 1..n
  BY <1>0, <1>5
<1>7. PICK C : C = ChunksOf(lg, from, n)
  OBVIOUS
<1>8. C = ChunksOf(mg, from, n)
  BY <1>2, <1>6, <1>7 DEF ChunksOf
<1>9. OpenChunks(mg, n) = C /\ OpenChunks(lg, n) = C
  BY <1>3, <1>4, <1>7, <1>8 DEF OpenChunks
<1>10. C \in SUBSET (1..n)
  BY <1>6, <1>7 DEF ChunksOf
<1>11. CASE C = {}
  BY <1>1, <1>9, <1>11 DEF OpeningOf, OpeningFrom
<1>12. CASE C # {}
  <2>1. PICK l : l = LatestOf(C)
    OBVIOUS
  <2>2. l \in C
    BY <1>0, <1>10, <1>12, <2>1, LatestIs
  <2>3. lg[l].pos = mg[l].pos /\ \A j \in C : lg[j].pos = mg[j].pos
    BY <1>2, <1>10, <2>2
  <2>4. SameOf(mg, C) = SameOf(lg, C)
    <3>1. \A i \in C : (\A j \in C : j >= i => mg[j].pos = mg[l].pos)
                          <=> (\A j \in C : j >= i => lg[j].pos = lg[l].pos)
      BY <2>3
    <3> QED BY <2>1, <3>1 DEF SameOf
  <2> QED BY <1>1, <1>9, <1>12, <2>1, <2>3, <2>4 DEF OpeningOf, OpeningFrom
<1> QED BY <1>11, <1>12

-----------------------------------------------------------------------------
(* What the carrier and the hub make of one event.                         *)

\* A carrier or a hub that stands at event n, and a frame about an attempt.
Stand(n, r, a, s, out) ==
  [opened |-> TRUE, ok |-> TRUE, cursor |-> n, revision |-> r, attempt |-> a, settled |-> s, out |-> out]
AboutAttempt(type, r, a, kind, seq) ==
  [type |-> type, id |-> a.id, revision |-> r, index |-> a.next,
   pos |-> a.pos, after |-> a.after, kind |-> kind, seq |-> seq]
EventFrame(seq) == [type |-> "event", seq |-> seq]
FreshAttempt(n, pos) == [id |-> n + 1, pos |-> pos, after |-> n, next |-> 0]
Room(a) == a.next < MaxAssistantChunks
OneMore(a) == [id |-> a.id, pos |-> a.pos, after |-> a.after, next |-> a.next + 1]

LEMMA AbandonedStand ==
  ASSUME NEW n, NEW r, NEW a, NEW out, a # NoAttempt
  PROVE  Abandoned(Stand(n, r, a, {}, out)) =
           Stand(n, r + 1, NoAttempt, {}, Append(out, AboutAttempt("end", r + 1, a, "abandoned", 0)))
<1>1. PICK x : x = Stand(n, r, a, {}, out)
  OBVIOUS
<1>2. PICK e : e = [x EXCEPT !.revision = @ + 1]
  OBVIOUS
<1>3. e = Stand(n, r + 1, a, {}, out)
  BY <1>1, <1>2 DEF Stand
<1>4. Transient("end", e, "abandoned", 0) = AboutAttempt("end", r + 1, a, "abandoned", 0)
  BY <1>3 DEF Stand, Transient, AboutAttempt
<1>5. PICK f : f = AboutAttempt("end", r + 1, a, "abandoned", 0)
  OBVIOUS
<1>6. PICK none : none = NoAttempt
  OBVIOUS
<1>7. PICK y : y = [e EXCEPT !.attempt = none, !.out = Append(@, f)]
  OBVIOUS
<1>8. y = Stand(n, r + 1, none, {}, Append(out, f))
  BY <1>3, <1>7 DEF Stand
<1>9. x.attempt # NoAttempt
  BY <1>1 DEF Stand
<1>10. Abandoned(x) = y
  BY <1>2, <1>4, <1>5, <1>6, <1>7, <1>9 DEF Abandoned
<1> QED BY <1>1, <1>5, <1>6, <1>8, <1>10

LEMMA StartedStand ==
  ASSUME NEW n, NEW r, NEW out, NEW pos
  PROVE  FollowStarted(Stand(n, r, NoAttempt, {}, out), pos) =
           Stand(n, r + 1, FreshAttempt(n, pos), {}, Append(out, AboutAttempt("start", r + 1, FreshAttempt(n, pos), "none", 0)))
<1>1. PICK x : x = Stand(n, r, NoAttempt, {}, out)
  OBVIOUS
<1>2. PICK b : b = FreshAttempt(n, pos)
  OBVIOUS
<1>3. x.cursor = n /\ x.attempt = NoAttempt
  BY <1>1 DEF Stand
<1>4. b = [id |-> x.cursor + 1, pos |-> pos, after |-> x.cursor, next |-> 0]
  BY <1>2, <1>3 DEF FreshAttempt
<1>5. PICK e : e = [x EXCEPT !.revision = @ + 1, !.attempt = b]
  OBVIOUS
<1>6. e = Stand(n, r + 1, b, {}, out)
  BY <1>1, <1>5 DEF Stand
<1>7. PICK f : f = AboutAttempt("start", r + 1, b, "none", 0)
  OBVIOUS
<1>8. Transient("start", e, "none", 0) = f
  BY <1>6, <1>7 DEF Stand, Transient, AboutAttempt
<1>9. PICK y : y = [e EXCEPT !.out = Append(@, f)]
  OBVIOUS
<1>10. y = Stand(n, r + 1, b, {}, Append(out, f))
  BY <1>6, <1>9 DEF Stand
<1>11. FollowStarted(x, pos) = y
  BY <1>3, <1>4, <1>5, <1>8, <1>9 DEF FollowStarted
<1> QED BY <1>1, <1>2, <1>7, <1>10, <1>11

LEMMA ChunkStand ==
  ASSUME NEW n, NEW r, NEW a \in FollowAttempts, NEW out
  PROVE  /\ Room(a) =>
              ChunkAdded(Stand(n, r, a, {}, out)) =
                Stand(n, r + 1, OneMore(a), {}, Append(out, AboutAttempt("chunk", r + 1, a, "none", 0)))
         /\ ~Room(a) => ~ChunkAdded(Stand(n, r, a, {}, out)).ok
<1>1. PICK x : x = Stand(n, r, a, {}, out)
  OBVIOUS
<1>2. x.attempt = a /\ x.attempt.next = a.next
  BY <1>1 DEF Stand
<1>3. a.next \in Nat /\ MaxAssistantChunks \in Nat
  BY FollowAssumption DEF FollowAttempts
<1>4. ASSUME ~(a.next < MaxAssistantChunks) PROVE ~ChunkAdded(x).ok
  <2>1. x.attempt.next >= MaxAssistantChunks
    BY <1>2, <1>3, <1>4
  <2>2. ChunkAdded(x) = [x EXCEPT !.ok = FALSE]
    BY <2>1 DEF ChunkAdded
  <2>3. "ok" \in DOMAIN x
    BY <1>1 DEF Stand
  <2> QED BY <2>2, <2>3
<1>5. ASSUME a.next < MaxAssistantChunks
      PROVE  ChunkAdded(x) =
                Stand(n, r + 1, OneMore(a), {}, Append(out, AboutAttempt("chunk", r + 1, a, "none", 0)))
  <2>1. ~(x.attempt.next >= MaxAssistantChunks)
    BY <1>2, <1>3, <1>5
  <2>2. PICK e : e = [x EXCEPT !.revision = @ + 1]
    OBVIOUS
  <2>3. e = Stand(n, r + 1, a, {}, out)
    BY <1>1, <2>2 DEF Stand
  <2>4. PICK f : f = AboutAttempt("chunk", r + 1, a, "none", 0)
    OBVIOUS
  <2>5. Transient("chunk", e, "none", 0) = f
    BY <2>3, <2>4 DEF Stand, Transient, AboutAttempt
  <2>6. PICK y : y = [e EXCEPT !.attempt.next = @ + 1, !.out = Append(@, f)]
    OBVIOUS
  <2>7. ChunkAdded(x) = y
    BY <2>1, <2>2, <2>5, <2>6 DEF ChunkAdded
  <2>8. PICK b : b = [a EXCEPT !.next = @ + 1]
    OBVIOUS
  <2>9. b = OneMore(a)
    <3>1. a = [id |-> a.id, pos |-> a.pos, after |-> a.after, next |-> a.next]
      BY DEF FollowAttempts
    <3> QED BY <2>8, <3>1 DEF OneMore
  <2>10. y = Stand(n, r + 1, b, {}, Append(out, f))
    BY <2>3, <2>6, <2>8 DEF Stand
  <2> QED BY <2>4, <2>7, <2>9, <2>10
<1> QED BY <1>1, <1>4, <1>5 DEF Room

LEMMA PassedStand ==
  ASSUME NEW n, NEW r, NEW a, NEW out, NEW seq
  PROVE  Passed(Stand(n, r, a, {}, out), seq) = Stand(seq, r, a, {}, Append(out, EventFrame(seq)))
<1>1. PICK x : x = Stand(n, r, a, {}, out)
  OBVIOUS
<1>2. PICK f : f = EventFrame(seq)
  OBVIOUS
<1>3. PICK y : y = [x EXCEPT !.cursor = seq, !.out = Append(@, f)]
  OBVIOUS
<1>4. y = Stand(seq, r, a, {}, Append(out, f))
  BY <1>1, <1>3 DEF Stand
<1>5. Passed(x, seq) = y
  BY <1>2, <1>3 DEF Passed, EventFrame
<1> QED BY <1>1, <1>2, <1>4, <1>5

LEMMA SettledStand ==
  ASSUME NEW n, NEW r, NEW a, NEW out, NEW seq, NEW event, NEW p,
         p = Settled(Stand(n, r, a, {}, out), event, seq)
  PROVE  /\ a = NoAttempt => p = Stand(seq, r, a, {}, Append(out, EventFrame(seq)))
         /\ a # NoAttempt /\ ~Matches(event, a) =>
              p = Stand(seq, r + 1, NoAttempt, {}, Append(Append(out, EventFrame(seq)),
                                                    AboutAttempt("end", r + 1, a, "abandoned", 0)))
         /\ a # NoAttempt /\ Matches(event, a) =>
              p = Stand(seq, r + 1, NoAttempt, {}, Append(Append(out, EventFrame(seq)),
                                                    AboutAttempt("end", r + 1, a, event.type, seq)))
<1>1. PICK x : x = Stand(n, r, a, {}, out)
  OBVIOUS
<1>2. x.attempt = a
  BY <1>1 DEF Stand
<1>3. PICK o : o = Append(out, EventFrame(seq))
  OBVIOUS
<1>4. PICK q : q = Stand(seq, r, a, {}, o)
  OBVIOUS
<1>5. Passed(x, seq) = q
  BY <1>1, <1>3, <1>4, PassedStand
<1>6. ASSUME a = NoAttempt PROVE p = q
  <2>1. x.attempt = NoAttempt
    BY <1>2, <1>6
  <2>2. Settled(x, event, seq) = Passed(x, seq)
    BY ONLY <2>1 DEF Settled
  <2> QED BY <1>1, <1>5, <2>2
<1>7. ASSUME a # NoAttempt, ~Matches(event, a)
      PROVE  p = Stand(seq, r + 1, NoAttempt, {}, Append(o, AboutAttempt("end", r + 1, a, "abandoned", 0)))
  <2>1. p = Abandoned(q)
    BY <1>1, <1>2, <1>5, <1>7 DEF Settled
  <2> QED BY <1>4, <1>7, <2>1, AbandonedStand
<1>8. ASSUME a # NoAttempt, Matches(event, a)
      PROVE  p = Stand(seq, r + 1, NoAttempt, {}, Append(o, AboutAttempt("end", r + 1, a, event.type, seq)))
  <2>1. PICK e : e = [q EXCEPT !.revision = @ + 1]
    OBVIOUS
  <2>2. e = Stand(seq, r + 1, a, {}, o)
    BY <1>4, <2>1 DEF Stand
  <2>3. PICK f : f = AboutAttempt("end", r + 1, a, event.type, seq)
    OBVIOUS
  <2>4. Transient("end", e, event.type, seq) = f
    BY <2>2, <2>3 DEF Stand, Transient, AboutAttempt
  <2>5. PICK none : none = NoAttempt
    OBVIOUS
  <2>6. PICK y : y = [e EXCEPT !.attempt = none, !.out = Append(@, f)]
    OBVIOUS
  <2>7. y = Stand(seq, r + 1, none, {}, Append(o, f))
    BY <2>2, <2>6 DEF Stand
  <2>8. p = y
    BY <1>1, <1>2, <1>5, <1>8, <2>1, <2>4, <2>5, <2>6 DEF Settled
  <2> QED BY <2>3, <2>5, <2>7, <2>8
<1> QED BY <1>3, <1>4, <1>6, <1>7, <1>8

\* The hub takes a frame about the attempt it has.
LEMMA StartTaken ==
  ASSUME NEW n, NEW r, NEW out, NEW pos
  PROVE  PushCurrent(Stand(n, r, NoAttempt, {}, out), AboutAttempt("start", r + 1, FreshAttempt(n, pos), "none", 0)) =
           Stand(n, r + 1, FreshAttempt(n, pos), {}, out)
<1>1. PICK c : c = Stand(n, r, NoAttempt, {}, out)
  OBVIOUS
<1>2. PICK b : b = FreshAttempt(n, pos)
  OBVIOUS
<1>3. PICK f : f = AboutAttempt("start", r + 1, b, "none", 0)
  OBVIOUS
<1>4. /\ f.type = "start" /\ f.revision = r + 1
      /\ [id |-> f.id, pos |-> f.pos, after |-> f.after, next |-> 0] = b
  BY <1>2, <1>3 DEF AboutAttempt, FreshAttempt
<1>5. c.ok = TRUE /\ c.opened = TRUE /\ c.revision = r /\ c.attempt = NoAttempt
  BY <1>1 DEF Stand
<1>6. ValidTransient(c, f)
  BY <1>4, <1>5 DEF ValidTransient
<1>7. PushCurrent(c, f) = TransientTaken(c, f)
  BY <1>4, <1>5 DEF PushCurrent
<1>8. PICK d : d = [c EXCEPT !.revision = f.revision]
  OBVIOUS
<1>9. d = Stand(n, r + 1, NoAttempt, {}, out)
  BY <1>1, <1>4, <1>8 DEF Stand
<1>10. PICK y : y = [d EXCEPT !.attempt = b, !.settled = {}]
  OBVIOUS
<1>11. y = Stand(n, r + 1, b, {}, out)
  BY <1>9, <1>10 DEF Stand
<1>12. TransientTaken(c, f) = y
  BY <1>4, <1>6, <1>8, <1>10 DEF TransientTaken
<1> QED BY <1>1, <1>2, <1>3, <1>7, <1>11, <1>12

LEMMA ChunkTaken ==
  ASSUME NEW n, NEW r, NEW a \in FollowAttempts, NEW out, Room(a), NEW x, x = Stand(n, r, a, {}, out),
         NEW g, g = AboutAttempt("chunk", r + 1, a, "none", 0), NEW q, q = r + 1
  PROVE  PushCurrent(x, g) = Stand(n, q, OneMore(a), {}, out)
<1>1. PICK c : c = Stand(n, r, a, {}, out)
  OBVIOUS
<1>2. PICK f : f = AboutAttempt("chunk", r + 1, a, "none", 0)
  OBVIOUS
<1>3. f.type = "chunk" /\ f.revision = r + 1 /\ f.id = a.id /\ f.index = a.next
  BY ONLY <1>2 DEF AboutAttempt
<1>4. c.ok = TRUE /\ c.opened = TRUE /\ c.revision = r /\ c.attempt = a
  BY ONLY <1>1 DEF Stand
<1>5. ValidTransient(c, f)
  <2>1. a.next < MaxAssistantChunks
    BY DEF Room
  <2> QED BY <1>3, <1>4, <2>1 DEF ValidTransient
<1>6. PushCurrent(c, f) = TransientTaken(c, f)
  BY <1>3, <1>4 DEF PushCurrent
<1>7. PICK d : d = [c EXCEPT !.revision = f.revision]
  OBVIOUS
<1>8. d = Stand(n, r + 1, a, {}, out)
  BY ONLY <1>1, <1>3, <1>7 DEF Stand
<1>9. PICK b : b = [a EXCEPT !.next = @ + 1]
  OBVIOUS
<1>10. b = OneMore(a)
  <2>1. a = [id |-> a.id, pos |-> a.pos, after |-> a.after, next |-> a.next]
    BY DEF FollowAttempts
  <2> QED BY <1>9, <2>1 DEF OneMore
<1>11. PICK y : y = [d EXCEPT !.attempt.next = @ + 1]
  OBVIOUS
<1>12. y = Stand(n, r + 1, b, {}, out)
  BY ONLY <1>8, <1>9, <1>11 DEF Stand
<1>13. TransientTaken(c, f) = y
  BY <1>3, <1>5, <1>7, <1>11 DEF TransientTaken
<1>14. x = c /\ g = f
  BY <1>1, <1>2
<1> QED BY <1>6, <1>10, <1>12, <1>13, <1>14

\* The end of an attempt is taken when its settlement has come, or when none has.
LEMMA EndTaken ==
  ASSUME NEW n, NEW r, NEW a, NEW s, NEW out, NEW kind, NEW seq,
         kind = "abandoned" => s = {}, kind # "abandoned" => <<seq, kind>> \in s
  PROVE  PushCurrent(Stand(n, r, a, s, out), AboutAttempt("end", r + 1, a, kind, seq)) =
           Stand(n, r + 1, NoAttempt, {}, out)
<1>1. PICK c : c = Stand(n, r, a, s, out)
  OBVIOUS
<1>2. PICK f : f = AboutAttempt("end", r + 1, a, kind, seq)
  OBVIOUS
<1>3. /\ f.type = "end" /\ f.revision = r + 1 /\ f.id = a.id /\ f.index = a.next
      /\ f.kind = kind /\ f.seq = seq
  BY <1>2 DEF AboutAttempt
<1>4. c.ok = TRUE /\ c.opened = TRUE /\ c.revision = r /\ c.attempt = a /\ c.settled = s
  BY <1>1 DEF Stand
<1>5. ValidTransient(c, f)
  BY <1>3, <1>4 DEF ValidTransient
<1>6. PushCurrent(c, f) = TransientTaken(c, f)
  BY <1>3, <1>4 DEF PushCurrent
<1>7. PICK d : d = [c EXCEPT !.revision = f.revision]
  OBVIOUS
<1>8. d = Stand(n, r + 1, a, s, out)
  BY <1>1, <1>3, <1>7 DEF Stand
<1>9. PICK none : none = NoAttempt
  OBVIOUS
<1>10. PICK yes : yes = (IF f.kind = "abandoned" THEN c.settled = {} ELSE <<f.seq, f.kind>> \in c.settled)
  OBVIOUS
<1>11. yes = TRUE
  <2>1. CASE kind = "abandoned"
    BY <1>3, <1>4, <1>10, <2>1
  <2>2. CASE kind # "abandoned"
    BY <1>3, <1>4, <1>10, <2>2
  <2> QED BY <2>1, <2>2
<1>12. PICK y : y = [d EXCEPT !.attempt = none, !.settled = {}, !.ok = TRUE]
  OBVIOUS
<1>13. y = Stand(n, r + 1, none, {}, out)
  BY <1>8, <1>12 DEF Stand
<1>14. TransientTaken(c, f) = y
  BY <1>3, <1>5, <1>7, <1>9, <1>10, <1>11, <1>12 DEF TransientTaken
<1> QED BY <1>1, <1>2, <1>6, <1>9, <1>13, <1>14

\* The hub takes an event, and keeps what may settle its attempt.
LEMMA EventIsTaken ==
  ASSUME NEW n \in Nat, NEW r, NEW a, NEW out
  PROVE  /\ IsSettlement(log[n + 1]) /\ a # NoAttempt /\ n + 1 > a.after /\ Matches(log[n + 1], a) =>
              PushCurrent(Stand(n, r, a, {}, out), EventFrame(n + 1)) =
                Stand(n + 1, r, a, {<<n + 1, log[n + 1].type>>}, out)
         /\ ~(IsSettlement(log[n + 1]) /\ a # NoAttempt /\ Matches(log[n + 1], a)) =>
              PushCurrent(Stand(n, r, a, {}, out), EventFrame(n + 1)) = Stand(n + 1, r, a, {}, out)
<1>1. PICK c : c = Stand(n, r, a, {}, out)
  OBVIOUS
<1>2. PICK f : f = EventFrame(n + 1)
  OBVIOUS
<1>3. f.type = "event" /\ f.seq = n + 1
  BY <1>2 DEF EventFrame
<1>4. c.ok = TRUE /\ c.opened = TRUE /\ c.cursor = n /\ c.attempt = a /\ c.settled = {}
  BY <1>1 DEF Stand
<1>5. PushCurrent(c, f) = EventTaken(c, n + 1)
  BY <1>3, <1>4 DEF PushCurrent
<1>6. PICK t : t = (IF IsSettlement(log[n + 1]) /\ c.attempt # NoAttempt /\ n + 1 > c.attempt.after
                         /\ Matches(log[n + 1], c.attempt)
                    THEN c.settled \cup {<<n + 1, log[n + 1].type>>} ELSE c.settled)
  OBVIOUS
<1>7. PICK y : y = [c EXCEPT !.cursor = n + 1, !.settled = t]
  OBVIOUS
<1>8. y = Stand(n + 1, r, a, t, out)
  BY <1>1, <1>7 DEF Stand
<1>9. EventTaken(c, n + 1) = y
  BY <1>4, <1>6, <1>7 DEF EventTaken
<1>10. PushCurrent(Stand(n, r, a, {}, out), EventFrame(n + 1)) = Stand(n + 1, r, a, t, out)
  BY <1>1, <1>2, <1>5, <1>8, <1>9
<1>11. IsSettlement(log[n + 1]) /\ a # NoAttempt /\ n + 1 > a.after /\ Matches(log[n + 1], a) =>
         t = {<<n + 1, log[n + 1].type>>}
  BY <1>4, <1>6
<1>12. ~(IsSettlement(log[n + 1]) /\ a # NoAttempt /\ Matches(log[n + 1], a)) => t = {}
  BY <1>4, <1>6
<1> QED BY <1>10, <1>11, <1>12

\* A chunk too many fails the push.
LEMMA ChunkRefused ==
  ASSUME NEW n, NEW r, NEW a \in FollowAttempts, NEW out, NEW seq, ~Room(a)
  PROVE  ~Passed(ChunkAdded(Stand(n, r, a, {}, out)), seq).ok
<1>1. PICK x : x = Stand(n, r, a, {}, out)
  OBVIOUS
<1>2. x.attempt.next >= MaxAssistantChunks
  <2>1. a.next \in Nat /\ MaxAssistantChunks \in Nat
    BY FollowAssumption DEF FollowAttempts
  <2>2. x.attempt.next = a.next
    BY <1>1 DEF Stand
  <2> QED BY <2>1, <2>2 DEF Room
<1>3. PICK y : y = [x EXCEPT !.ok = FALSE]
  OBVIOUS
<1>4. ChunkAdded(x) = y
  BY <1>2, <1>3 DEF ChunkAdded
<1>5. y = [opened |-> TRUE, ok |-> FALSE, cursor |-> n, revision |-> r, attempt |-> a, settled |-> {}, out |-> out]
  BY <1>1, <1>3 DEF Stand
<1>6. PICK f : f = [type |-> "event", seq |-> seq]
  OBVIOUS
<1>7. PICK z : z = [y EXCEPT !.cursor = seq, !.out = Append(@, f)]
  OBVIOUS
<1>8. z.ok = FALSE
  BY <1>5, <1>7
<1>9. Passed(y, seq) = z
  BY <1>6, <1>7 DEF Passed
<1> QED BY <1>1, <1>4, <1>8, <1>9

LEMMA PushIs ==
  ASSUME NEW n, NEW r, NEW a, NEW out, NEW seq, seq = n + 1, NEW event, event = log[seq],
         NEW x, x = Stand(n, r, a, {}, <<>>),
         NEW p, p = PushLegacy(Stand(n, r, a, {}, out), seq)
  PROVE  /\ event.type = "chunk" /\ event.pos # a.pos =>
              p = Passed(ChunkAdded(FollowStarted(Abandoned(x), event.pos)), seq)
         /\ event.type = "chunk" /\ event.pos = a.pos =>
              p = Passed(ChunkAdded(FollowStarted(x, event.pos)), seq)
         /\ IsSettlement(event) => p = Settled(x, event, seq)
         /\ Ends(event, a) => p = Passed(Abandoned(x), seq)
         /\ event.type # "chunk" /\ ~IsSettlement(event) /\ ~Ends(event, a) => p = Passed(x, seq)
<1>1. PICK e : e = Stand(n, r, a, {}, out)
  OBVIOUS
<1>2. PICK y : y = [e EXCEPT !.out = <<>>]
  OBVIOUS
<1>3. y = x
  <2>1. PICK nil : nil = <<>>
    OBVIOUS
  <2>2. y = [e EXCEPT !.out = nil]
    BY <1>2, <2>1
  <2>3. y = Stand(n, r, a, {}, nil)
    BY ONLY <1>1, <2>2 DEF Stand
  <2> QED BY <2>1, <2>3
<1>4. x.cursor = n /\ x.attempt = a
  BY DEF Stand
<1>5. PICK moved : moved = IF event.pos # x.attempt.pos THEN Abandoned(x) ELSE x
  OBVIOUS
<1>6. p = CASE event.type = "chunk" -> Passed(ChunkAdded(FollowStarted(moved, event.pos)), seq)
            [] IsSettlement(event)  -> Settled(x, event, seq)
            [] Ends(event, x.attempt) -> Passed(Abandoned(x), seq)
            [] OTHER -> Passed(x, seq)
  BY <1>1, <1>2, <1>3, <1>4, <1>5 DEF PushLegacy
<1>7. /\ event.type = "chunk" => ~IsSettlement(event) /\ ~Ends(event, x.attempt)
      /\ IsSettlement(event) => event.type # "chunk" /\ ~Ends(event, x.attempt)
      /\ Ends(event, x.attempt) => event.type # "chunk" /\ ~IsSettlement(event)
  BY DEF IsSettlement, Ends
<1>8. ASSUME event.type = "chunk" PROVE p = Passed(ChunkAdded(FollowStarted(moved, event.pos)), seq)
  BY ONLY <1>6, <1>7, <1>8
<1>9. ASSUME IsSettlement(event) PROVE p = Settled(x, event, seq)
  BY ONLY <1>6, <1>7, <1>9
<1>10. ASSUME Ends(event, a) PROVE p = Passed(Abandoned(x), seq)
  BY ONLY <1>4, <1>6, <1>7, <1>10
<1>11. ASSUME event.type # "chunk", ~IsSettlement(event), ~Ends(event, a) PROVE p = Passed(x, seq)
  BY ONLY <1>4, <1>6, <1>11
<1>12. event.pos # a.pos => moved = Abandoned(x)
  BY ONLY <1>4, <1>5
<1>13. event.pos = a.pos => moved = x
  BY ONLY <1>4, <1>5
<1> QED BY <1>8, <1>9, <1>10, <1>11, <1>12, <1>13

\* An event that skips one fails the push.
LEMMA PushSkips ==
  ASSUME NEW n, NEW r, NEW a, NEW out, NEW seq, seq # n + 1
  PROVE  ~PushLegacy(Stand(n, r, a, {}, out), seq).ok
<1>1. PICK e : e = Stand(n, r, a, {}, out)
  OBVIOUS
<1>2. PICK y : y = [e EXCEPT !.out = <<>>]
  OBVIOUS
<1>3. y = Stand(n, r, a, {}, <<>>)
  BY <1>1, <1>2 DEF Stand
<1>4. PICK z : z = [y EXCEPT !.ok = FALSE]
  OBVIOUS
<1>5. y.cursor = n /\ z.ok = FALSE
  BY <1>3, <1>4 DEF Stand
<1>6. PushLegacy(e, seq) = z
  BY <1>2, <1>4, <1>5 DEF PushLegacy
<1> QED BY <1>1, <1>5, <1>6

LEMMA OneAppended ==
  ASSUME NEW S, NEW s \in Seq(S), NEW e \in S, NEW n \in Nat, Len(s) = n, NEW m, m = n + 1, NEW o, o = Append(s, e)
  PROVE  /\ o \in Seq(S) /\ Len(o) = m /\ DOMAIN o = 1..m
         /\ o[m] = e /\ \A i \in 1..n : o[i] = s[i]
<1>1. o \in Seq(S) /\ Len(o) = m
  OBVIOUS
<1>2. o[m] = e
  OBVIOUS
<1>3. \A i \in 1..n : o[i] = s[i]
  OBVIOUS
<1> QED BY <1>1, <1>2, <1>3

\* The frames of a push, one behind the other.
LEMMA FramesInTurn ==
  ASSUME NEW a, NEW b, NEW c, NEW d, NEW o1, o1 = Append(<<>>, a), NEW o2, o2 = Append(o1, b),
         NEW o3, o3 = Append(o2, c), NEW o4, o4 = Append(o3, d)
  PROVE  /\ DOMAIN o1 = 1..1 /\ o1[1] = a
         /\ DOMAIN o2 = 1..2 /\ o2[1] = a /\ o2[2] = b
         /\ DOMAIN o3 = 1..3 /\ o3[1] = a /\ o3[2] = b /\ o3[3] = c
         /\ DOMAIN o4 = 1..4 /\ o4[1] = a /\ o4[2] = b /\ o4[3] = c /\ o4[4] = d
<1>1. PICK S : a \in S /\ b \in S /\ c \in S /\ d \in S
  <2>1. a \in {a, b, c, d} /\ b \in {a, b, c, d} /\ c \in {a, b, c, d} /\ d \in {a, b, c, d}
    OBVIOUS
  <2> QED BY <2>1
<1>2. PICK o0 : o0 = <<>>
  OBVIOUS
<1>3. o0 \in Seq(S) /\ Len(o0) = 0
  BY <1>2
<1>4. /\ 0 \in Nat /\ 1 = 0 + 1 /\ 1 \in Nat /\ 2 = 1 + 1 /\ 2 \in Nat /\ 3 = 2 + 1 /\ 3 \in Nat /\ 4 = 3 + 1
      /\ 1 \in 1..1 /\ 1 \in 1..2 /\ 2 \in 1..2 /\ 1 \in 1..3 /\ 2 \in 1..3 /\ 3 \in 1..3
  OBVIOUS
<1>5. o1 = Append(o0, a)
  BY <1>2
<1>6. o1 \in Seq(S) /\ Len(o1) = 1 /\ DOMAIN o1 = 1..1 /\ o1[1] = a
  BY <1>1, <1>3, <1>4, <1>5, OneAppended
<1>7. o2 \in Seq(S) /\ Len(o2) = 2 /\ DOMAIN o2 = 1..2 /\ o2[2] = b /\ \A i \in 1..1 : o2[i] = o1[i]
  BY <1>1, <1>4, <1>6, OneAppended
<1>8. o3 \in Seq(S) /\ Len(o3) = 3 /\ DOMAIN o3 = 1..3 /\ o3[3] = c /\ \A i \in 1..2 : o3[i] = o2[i]
  BY <1>1, <1>4, <1>7, OneAppended
<1>9. o4 \in Seq(S) /\ Len(o4) = 4 /\ DOMAIN o4 = 1..4 /\ o4[4] = d /\ \A i \in 1..3 : o4[i] = o3[i]
  BY <1>1, <1>4, <1>8, OneAppended
<1>10. o2[1] = a
  BY ONLY <1>4, <1>6, <1>7
<1>11. o3[1] = a /\ o3[2] = b
  BY ONLY <1>4, <1>7, <1>8, <1>10
<1>12. o4[1] = a /\ o4[2] = b /\ o4[3] = c
  BY ONLY <1>4, <1>8, <1>9, <1>11
<1> QED BY ONLY <1>6, <1>7, <1>8, <1>9, <1>10, <1>11, <1>12

\* The attempt after the event that follows event n.
AttemptAfter(a, e, n) ==
  IF e.type = "chunk" THEN OneMore(IF a = NoAttempt \/ a.pos # e.pos THEN FreshAttempt(n, e.pos) ELSE a)
  ELSE IF IsSettlement(e) \/ Ends(e, a) THEN NoAttempt ELSE a

\* The carrier and the hub, which stood together as c, stand together at event n + 1.
Together(p, c, n, b) ==
  \E q \in Nat : \E out : /\ p = Stand(n + 1, q, b, {}, out)
                          /\ AllPushed(c, out) = Stand(n + 1, q, b, {}, <<>>)

LEMMA TogetherBy ==
  ASSUME NEW p, NEW c, NEW n, NEW b, NEW q \in Nat, NEW out, p = Stand(n + 1, q, b, {}, out),
         AllPushed(c, out) = Stand(n + 1, q, b, {}, <<>>)
  PROVE  Together(p, c, n, b)
BY DEF Together

LEMMA EventPassed ==
  ASSUME NEW n \in Nat, NEW r, NEW a, NEW out, NEW f, f = EventFrame(n + 1),
         ~(IsSettlement(log[n + 1]) /\ a # NoAttempt /\ Matches(log[n + 1], a))
  PROVE  PushCurrent(Stand(n, r, a, {}, out), f) = Stand(n + 1, r, a, {}, out)
BY EventIsTaken

LEMMA GoneTaken ==
  ASSUME NEW n, NEW r, NEW a, NEW out, NEW f, f = AboutAttempt("end", r + 1, a, "abandoned", 0)
  PROVE  PushCurrent(Stand(n, r, a, {}, out), f) = Stand(n, r + 1, NoAttempt, {}, out)
<1>1. PICK s : s = {}
  OBVIOUS
<1>2. PICK kind : kind = "abandoned"
  OBVIOUS
<1>3. PICK seq : seq = 0
  OBVIOUS
<1>4. (kind = "abandoned" => s = {}) /\ (kind # "abandoned" => <<seq, kind>> \in s)
  BY <1>1, <1>2
<1>5. PushCurrent(Stand(n, r, a, s, out), AboutAttempt("end", r + 1, a, kind, seq)) = Stand(n, r + 1, NoAttempt, {}, out)
  BY ONLY <1>4, EndTaken
<1> QED BY <1>1, <1>2, <1>3, <1>5

\* A chunk begins an attempt.
LEMMA BegunTogether ==
  ASSUME NEW n \in Nat, NEW s \in Nat, NEW o, NEW pos \in Nat \X Nat, NEW fr, fr = FreshAttempt(n, pos),
         ~IsSettlement(log[n + 1]),
         NEW p, p = Passed(ChunkAdded(FollowStarted(Stand(n, s, NoAttempt, {}, o), pos)), n + 1), p.ok
  PROVE  \E start, chunk :
           /\ p = Stand(n + 1, s + 2, OneMore(fr), {}, Append(Append(Append(o, start), chunk), EventFrame(n + 1)))
           /\ \A z : PushCurrent(PushCurrent(PushCurrent(Stand(n, s, NoAttempt, {}, z), start), chunk), EventFrame(n + 1))
                       = Stand(n + 1, s + 2, OneMore(fr), {}, z)
<1>1. fr \in FollowAttempts
  BY DEF FreshAttempt, FollowAttempts
<1>2. PICK start : start = AboutAttempt("start", s + 1, fr, "none", 0)
  OBVIOUS
<1>3. PICK o1 : o1 = Append(o, start)
  OBVIOUS
<1>4. PICK t : t = s + 1 /\ t + 1 = s + 2
  OBVIOUS
<1>5. FollowStarted(Stand(n, s, NoAttempt, {}, o), pos) = Stand(n, t, fr, {}, o1)
  BY ONLY <1>2, <1>3, <1>4, fr = FreshAttempt(n, pos), StartedStand
<1>6. p = Passed(ChunkAdded(Stand(n, t, fr, {}, o1)), n + 1)
  BY <1>5
<1>7. Room(fr)
  <2> SUFFICES ASSUME ~Room(fr) PROVE FALSE
    OBVIOUS
  <2>1. ~Passed(ChunkAdded(Stand(n, t, fr, {}, o1)), n + 1).ok
    BY <1>1, ChunkRefused
  <2> QED BY <1>6, <2>1
<1>8. PICK chunk : chunk = AboutAttempt("chunk", t + 1, fr, "none", 0)
  OBVIOUS
<1>9. PICK o2 : o2 = Append(o1, chunk)
  OBVIOUS
<1>10. ChunkAdded(Stand(n, t, fr, {}, o1)) = Stand(n, t + 1, OneMore(fr), {}, o2)
  BY ONLY <1>1, <1>7, <1>8, <1>9, ChunkStand
<1>11. p = Stand(n + 1, s + 2, OneMore(fr), {}, Append(o2, EventFrame(n + 1)))
  BY ONLY <1>4, <1>6, <1>10, PassedStand
<1>12. ASSUME NEW z
       PROVE  PushCurrent(PushCurrent(PushCurrent(Stand(n, s, NoAttempt, {}, z), start), chunk), EventFrame(n + 1))
                = Stand(n + 1, s + 2, OneMore(fr), {}, z)
  <2>1. PushCurrent(Stand(n, s, NoAttempt, {}, z), start) = Stand(n, t, fr, {}, z)
    BY ONLY <1>2, <1>4, fr = FreshAttempt(n, pos), StartTaken
  <2>2. PushCurrent(Stand(n, t, fr, {}, z), chunk) = Stand(n, t + 1, OneMore(fr), {}, z)
    <3>1. PICK c : c = Stand(n, t, fr, {}, z)
      OBVIOUS
    <3>2. PICK q : q = t + 1
      OBVIOUS
    <3>3. PushCurrent(c, chunk) = Stand(n, q, OneMore(fr), {}, z)
      BY ONLY <1>1, <1>7, <1>8, <3>1, <3>2, ChunkTaken
    <3> QED BY <3>1, <3>2, <3>3
  <2>3. PushCurrent(Stand(n, t + 1, OneMore(fr), {}, z), EventFrame(n + 1)) = Stand(n + 1, t + 1, OneMore(fr), {}, z)
    BY EventPassed
  <2> QED BY ONLY <1>4, <2>1, <2>2, <2>3
<1> QED BY <1>3, <1>9, <1>11, <1>12

LEMMA ChunksTogether ==
  ASSUME NEW n \in Nat, NEW r \in Nat, NEW a \in FollowAttempts, NEW nil, nil = <<>>,
         NEW x, x = Stand(n, r, a, {}, nil), NEW e, e = log[n + 1], e \in FollowEvents, e.type = "chunk",
         NEW y, y = IF e.pos # a.pos THEN Abandoned(x) ELSE x,
         NEW p, p = Passed(ChunkAdded(FollowStarted(y, e.pos)), n + 1), p.ok
  PROVE  Together(p, x, n, AttemptAfter(a, e, n))
<1>0. n \in Nat /\ r \in Nat /\ a \in FollowAttempts /\ x = Stand(n, r, a, {}, nil) /\ p.ok
  OBVIOUS
<1>1. ~IsSettlement(log[n + 1])
  BY DEF IsSettlement
<1>2. PICK pos \in Nat \X Nat : pos = e.pos
  BY DEF FollowEvents
<1>3. PICK fr : fr = FreshAttempt(n, pos)
  OBVIOUS
<1>4. PICK last : last = EventFrame(n + 1)
  OBVIOUS
<1>5. CASE a = NoAttempt
  <2>1. y = x
    <3>1. x.attempt = NoAttempt
      BY <1>5 DEF Stand
    <3>2. Abandoned(x) = x
      BY ONLY <3>1 DEF Abandoned
    <3> QED BY <3>2
  <2>2. p = Passed(ChunkAdded(FollowStarted(Stand(n, r, NoAttempt, {}, nil), pos)), n + 1)
    BY <1>2, <1>5, <2>1
  <2>3. PICK start, chunk :
          /\ p = Stand(n + 1, r + 2, OneMore(fr), {}, Append(Append(Append(nil, start), chunk), EventFrame(n + 1)))
          /\ \A z : PushCurrent(PushCurrent(PushCurrent(Stand(n, r, NoAttempt, {}, z), start), chunk), EventFrame(n + 1))
                      = Stand(n + 1, r + 2, OneMore(fr), {}, z)
    BY ONLY <1>0, <1>1, <1>2, <1>3, <2>2, BegunTogether
  <2>4. PICK o1, o2, out : o1 = Append(nil, start) /\ o2 = Append(o1, chunk) /\ out = Append(o2, last)
    OBVIOUS
  <2>5. DOMAIN out = 1..3 /\ out[1] = start /\ out[2] = chunk /\ out[3] = last
    BY <2>4, FramesInTurn
  <2>6. PICK q \in Nat : q = r + 2
    OBVIOUS
  <2>7. p = Stand(n + 1, q, OneMore(fr), {}, out)
    BY <1>4, <2>3, <2>4, <2>6
  <2>8. AllPushed(x, out) = Stand(n + 1, q, OneMore(fr), {}, <<>>)
    <3>1. AllPushed(x, out) = PushCurrent(PushCurrent(PushCurrent(x, out[1]), out[2]), out[3])
      BY <2>5, PushedFew
    <3>2. x = Stand(n, r, NoAttempt, {}, nil)
      BY <1>5
    <3>3. AllPushed(x, out) = Stand(n + 1, q, OneMore(fr), {}, nil)
      BY ONLY <1>4, <2>3, <2>5, <2>6, <3>1, <3>2
    <3> QED BY <3>3
  <2>9. AttemptAfter(a, e, n) = OneMore(fr)
    BY <1>2, <1>3, <1>5 DEF AttemptAfter
  <2> QED BY <2>7, <2>8, <2>9, TogetherBy
<1>6. CASE a # NoAttempt /\ e.pos # a.pos
  <2>1. PICK gone : gone = AboutAttempt("end", r + 1, a, "abandoned", 0)
    OBVIOUS
  <2>2. PICK o : o = Append(nil, gone)
    OBVIOUS
  <2>3. PICK t \in Nat : t = r + 1
    OBVIOUS
  <2>4. y = Stand(n, t, NoAttempt, {}, o)
    <3>1. Abandoned(x) = Stand(n, t, NoAttempt, {}, o)
      BY <1>6, <2>1, <2>2, <2>3, AbandonedStand
    <3> QED BY <1>6, <3>1
  <2>5. p = Passed(ChunkAdded(FollowStarted(Stand(n, t, NoAttempt, {}, o), pos)), n + 1)
    BY <1>2, <2>4
  <2>6. PICK start, chunk :
          /\ p = Stand(n + 1, t + 2, OneMore(fr), {}, Append(Append(Append(o, start), chunk), EventFrame(n + 1)))
          /\ \A z : PushCurrent(PushCurrent(PushCurrent(Stand(n, t, NoAttempt, {}, z), start), chunk), EventFrame(n + 1))
                      = Stand(n + 1, t + 2, OneMore(fr), {}, z)
    BY ONLY <1>0, <1>1, <1>2, <1>3, <2>3, <2>5, BegunTogether
  <2>7. PICK o1, o2, out : o1 = Append(o, start) /\ o2 = Append(o1, chunk) /\ out = Append(o2, last)
    OBVIOUS
  <2>8. DOMAIN out = 1..4 /\ out[1] = gone /\ out[2] = start /\ out[3] = chunk /\ out[4] = last
    BY <2>2, <2>7, FramesInTurn
  <2>9. PICK q \in Nat : q = t + 2
    OBVIOUS
  <2>10. p = Stand(n + 1, q, OneMore(fr), {}, out)
    BY <1>4, <2>6, <2>7, <2>9
  <2>11. PushCurrent(x, gone) = Stand(n, t, NoAttempt, {}, nil)
    BY ONLY <1>0, <2>1, <2>3, GoneTaken
  <2>12. AllPushed(x, out) = Stand(n + 1, q, OneMore(fr), {}, <<>>)
    <3>1. AllPushed(x, out) = PushCurrent(PushCurrent(PushCurrent(PushCurrent(x, out[1]), out[2]), out[3]), out[4])
      BY <2>8, PushedFew
    <3>2. AllPushed(x, out) = Stand(n + 1, q, OneMore(fr), {}, nil)
      BY ONLY <1>4, <2>6, <2>8, <2>9, <2>11, <3>1
    <3> QED BY <3>2
  <2>13. AttemptAfter(a, e, n) = OneMore(fr)
    BY <1>2, <1>3, <1>6 DEF AttemptAfter
  <2> QED BY <2>10, <2>12, <2>13, TogetherBy
<1>7. CASE a # NoAttempt /\ e.pos = a.pos
  <2>1. y = x /\ FollowStarted(x, e.pos) = x
    BY <1>7 DEF FollowStarted, Stand
  <2>2. Room(a)
    <3> SUFFICES ASSUME ~Room(a) PROVE FALSE
      OBVIOUS
    <3>1. ~Passed(ChunkAdded(Stand(n, r, a, {}, nil)), n + 1).ok
      BY ChunkRefused
    <3> QED BY <2>1, <3>1
  <2>3. PICK chunk : chunk = AboutAttempt("chunk", r + 1, a, "none", 0)
    OBVIOUS
  <2>4. ChunkAdded(x) = Stand(n, r + 1, OneMore(a), {}, Append(nil, chunk))
    BY <2>2, <2>3, ChunkStand
  <2>5. PICK o, out : o = Append(nil, chunk) /\ out = Append(o, last)
    OBVIOUS
  <2>6. PICK q \in Nat : q = r + 1
    OBVIOUS
  <2>7. p = Stand(n + 1, q, OneMore(a), {}, out)
    BY <1>4, <2>1, <2>4, <2>5, <2>6, PassedStand
  <2>8. DOMAIN out = 1..2 /\ out[1] = chunk /\ out[2] = last
    BY <2>5, FramesInTurn
  <2>9. PushCurrent(x, chunk) = Stand(n, q, OneMore(a), {}, nil)
    BY ONLY <1>0, <2>2, <2>3, <2>6, ChunkTaken
  <2>10. AllPushed(x, out) = Stand(n + 1, q, OneMore(a), {}, <<>>)
    <3>1. AllPushed(x, out) = PushCurrent(PushCurrent(x, out[1]), out[2])
      BY <2>8, PushedFew
    <3>2. PushCurrent(Stand(n, q, OneMore(a), {}, nil), last) = Stand(n + 1, q, OneMore(a), {}, nil)
      BY ONLY <1>0, <1>1, <1>4, EventPassed
    <3> QED BY <2>8, <2>9, <3>1, <3>2
  <2>11. AttemptAfter(a, e, n) = OneMore(a)
    BY <1>7 DEF AttemptAfter
  <2> QED BY <2>7, <2>10, <2>11, TogetherBy
<1> QED BY <1>5, <1>6, <1>7

LEMMA EventsAppend ==
  ASSUME NEW a, NEW b, NEW o1, o1 = Append(<<>>, a), NEW o2, o2 = Append(o1, b)
  PROVE  /\ DOMAIN o1 = 1..1 /\ o1[1] = a
         /\ DOMAIN o2 = 1..2 /\ o2[1] = a /\ o2[2] = b
<1>1. PICK o3, o4 : o3 = Append(o2, b) /\ o4 = Append(o3, b)
  OBVIOUS
<1> QED BY <1>1, FramesInTurn

\* An event alone passes.
LEMMA AloneTogether ==
  ASSUME NEW n \in Nat, NEW r \in Nat, NEW a, NEW nil, nil = <<>>, NEW x, x = Stand(n, r, a, {}, nil),
         ~(IsSettlement(log[n + 1]) /\ a # NoAttempt /\ Matches(log[n + 1], a)),
         NEW p, p = Passed(x, n + 1)
  PROVE  Together(p, x, n, a)
<1>0. n \in Nat /\ x = Stand(n, r, a, {}, nil) /\ p = Passed(x, n + 1)
  OBVIOUS
<1>1. PICK last : last = EventFrame(n + 1)
  OBVIOUS
<1>2. PICK out : out = Append(nil, last)
  OBVIOUS
<1>3. DOMAIN out = 1..1 /\ out[1] = last
  BY <1>2, EventsAppend
<1>4. p = Stand(n + 1, r, a, {}, out)
  BY ONLY <1>0, <1>1, <1>2, PassedStand
<1>5. PushCurrent(x, last) = Stand(n + 1, r, a, {}, nil)
  <2>1. ~(IsSettlement(log[n + 1]) /\ a # NoAttempt /\ Matches(log[n + 1], a))
    OBVIOUS
  <2>2. PushCurrent(Stand(n, r, a, {}, nil), last) = Stand(n + 1, r, a, {}, nil)
    BY ONLY <1>0, <1>1, <2>1, EventPassed
  <2> QED BY <2>2
<1>6. AllPushed(x, out) = Stand(n + 1, r, a, {}, <<>>)
  <2>1. AllPushed(x, out) = PushCurrent(x, out[1])
    BY <1>3, PushedFew
  <2> QED BY <1>3, <1>5, <2>1
<1> QED BY <1>4, <1>6, TogetherBy

\* The end of a step or a turn, or the start of the next, abandons the attempt first.
LEMMA EndsTogether ==
  ASSUME NEW n \in Nat, NEW r \in Nat, NEW a, NEW nil, nil = <<>>, NEW x, x = Stand(n, r, a, {}, nil),
         ~IsSettlement(log[n + 1]), NEW p, p = Passed(Abandoned(x), n + 1)
  PROVE  Together(p, x, n, NoAttempt)
<1>0. n \in Nat /\ x = Stand(n, r, a, {}, nil) /\ ~IsSettlement(log[n + 1])
  OBVIOUS
<1>1. CASE a = NoAttempt
  <2>1. Abandoned(x) = x
    <3>1. x.attempt = NoAttempt
      BY <1>1 DEF Stand
    <3> QED BY ONLY <3>1 DEF Abandoned
  <2>2. x = Stand(n, r, NoAttempt, {}, nil) /\ p = Passed(x, n + 1)
    BY <1>1, <2>1
  <2> QED BY <2>2, AloneTogether
<1>2. CASE a # NoAttempt
  <2>1. PICK gone : gone = AboutAttempt("end", r + 1, a, "abandoned", 0)
    OBVIOUS
  <2>2. PICK t \in Nat : t = r + 1
    OBVIOUS
  <2>3. PICK last : last = EventFrame(n + 1)
    OBVIOUS
  <2>4. PICK o, out : o = Append(nil, gone) /\ out = Append(o, last)
    OBVIOUS
  <2>5. DOMAIN out = 1..2 /\ out[1] = gone /\ out[2] = last
    BY <2>4, EventsAppend
  <2>6. Abandoned(x) = Stand(n, t, NoAttempt, {}, o)
    BY <1>2, <2>1, <2>2, <2>4, AbandonedStand
  <2>7. p = Stand(n + 1, t, NoAttempt, {}, out)
    BY <2>3, <2>4, <2>6, PassedStand
  <2>8. PushCurrent(x, gone) = Stand(n, t, NoAttempt, {}, nil)
    BY ONLY <1>0, <2>1, <2>2, GoneTaken
  <2>9. PushCurrent(Stand(n, t, NoAttempt, {}, nil), last) = Stand(n + 1, t, NoAttempt, {}, nil)
    BY ONLY <1>0, <2>3, EventPassed
  <2>10. AllPushed(x, out) = Stand(n + 1, t, NoAttempt, {}, <<>>)
    <3>1. AllPushed(x, out) = PushCurrent(PushCurrent(x, out[1]), out[2])
      BY <2>5, PushedFew
    <3> QED BY <2>5, <2>8, <2>9, <3>1
  <2> QED BY <2>7, <2>10, TogetherBy
<1> QED BY <1>1, <1>2

\* What settles the attempt comes before its end; what does not match abandons it.
LEMMA SettlesTogether ==
  ASSUME NEW n \in Nat, NEW r \in Nat, NEW a \in FollowAttempts, a.after <= n, NEW nil, nil = <<>>,
         NEW x, x = Stand(n, r, a, {}, nil), NEW e, e = log[n + 1], IsSettlement(e),
         NEW p, p = Settled(x, e, n + 1)
  PROVE  Together(p, x, n, NoAttempt)
<1>0. n \in Nat /\ a \in FollowAttempts /\ x = Stand(n, r, a, {}, nil)
  OBVIOUS
<1>1. PICK last : last = EventFrame(n + 1)
  OBVIOUS
<1>2. PICK m : m = n + 1
  OBVIOUS
<1>3. PICK o : o = Append(nil, last)
  OBVIOUS
<1>4. PICK t \in Nat : t = r + 1
  OBVIOUS
<1>5. p = Settled(Stand(n, r, a, {}, nil), e, m)
  BY <1>2
<1>6. CASE a = NoAttempt
  <2>1. p = Stand(m, r, a, {}, Append(nil, EventFrame(m)))
    BY ONLY <1>5, <1>6, SettledStand
  <2>2. p = Passed(x, n + 1)
    BY ONLY <1>0, <1>2, <2>1, PassedStand
  <2>3. Together(p, x, n, a)
    BY <1>6, <2>2, AloneTogether
  <2> QED BY <1>6, <2>3
<1>7. CASE a # NoAttempt /\ ~Matches(e, a)
  <2>1. PICK gone : gone = AboutAttempt("end", r + 1, a, "abandoned", 0)
    OBVIOUS
  <2>2. PICK out : out = Append(o, gone)
    OBVIOUS
  <2>3. DOMAIN out = 1..2 /\ out[1] = last /\ out[2] = gone
    BY <1>3, <2>2, EventsAppend
  <2>4. p = Stand(n + 1, t, NoAttempt, {}, out)
    <3>1. p = Stand(m, r + 1, NoAttempt, {}, Append(Append(nil, EventFrame(m)), AboutAttempt("end", r + 1, a, "abandoned", 0)))
      BY ONLY <1>5, <1>7, SettledStand
    <3> QED BY <1>1, <1>2, <1>3, <1>4, <2>1, <2>2, <3>1
  <2>5. PushCurrent(x, last) = Stand(n + 1, r, a, {}, nil)
    <3>1. ~(IsSettlement(log[n + 1]) /\ a # NoAttempt /\ Matches(log[n + 1], a))
      BY <1>7
    <3>2. PushCurrent(Stand(n, r, a, {}, nil), last) = Stand(n + 1, r, a, {}, nil)
      BY ONLY <1>0, <1>1, <3>1, EventPassed
    <3> QED BY <3>2
  <2>6. PushCurrent(Stand(n + 1, r, a, {}, nil), gone) = Stand(n + 1, t, NoAttempt, {}, nil)
    BY ONLY <1>4, <2>1, GoneTaken
  <2>7. AllPushed(x, out) = Stand(n + 1, t, NoAttempt, {}, <<>>)
    <3>1. AllPushed(x, out) = PushCurrent(PushCurrent(x, out[1]), out[2])
      BY <2>3, PushedFew
    <3> QED BY <2>3, <2>5, <2>6, <3>1
  <2> QED BY <2>4, <2>7, TogetherBy
<1>8. CASE a # NoAttempt /\ Matches(e, a)
  <2>1. PICK kind : kind = e.type
    OBVIOUS
  <2>2. PICK end : end = AboutAttempt("end", r + 1, a, kind, m)
    OBVIOUS
  <2>3. PICK out : out = Append(o, end)
    OBVIOUS
  <2>4. DOMAIN out = 1..2 /\ out[1] = last /\ out[2] = end
    BY <1>3, <2>3, EventsAppend
  <2>5. p = Stand(n + 1, t, NoAttempt, {}, out)
    <3>1. p = Stand(m, r + 1, NoAttempt, {}, Append(Append(nil, EventFrame(m)), AboutAttempt("end", r + 1, a, e.type, m)))
      BY ONLY <1>5, <1>8, SettledStand
    <3> QED BY <1>1, <1>2, <1>3, <1>4, <2>1, <2>2, <2>3, <3>1
  <2>6. PICK s : s = {<<m, kind>>}
    OBVIOUS
  <2>7. PushCurrent(x, last) = Stand(m, r, a, s, nil)
    <3>1. n + 1 > a.after
      <4>1. a.after \in Nat
        BY DEF FollowAttempts
      <4> QED BY <4>1
    <3>2. PushCurrent(Stand(n, r, a, {}, nil), EventFrame(n + 1)) = Stand(n + 1, r, a, {<<n + 1, log[n + 1].type>>}, nil)
      BY <1>8, <3>1, EventIsTaken
    <3> QED BY <1>1, <1>2, <2>1, <2>6, <3>2
  <2>8. PushCurrent(Stand(m, r, a, s, nil), end) = Stand(m, t, NoAttempt, {}, nil)
    <3>1. kind # "abandoned" /\ <<m, kind>> \in s
      BY <2>1, <2>6 DEF IsSettlement
    <3>2. PushCurrent(Stand(m, r, a, s, nil), AboutAttempt("end", r + 1, a, kind, m)) = Stand(m, r + 1, NoAttempt, {}, nil)
      BY ONLY <3>1, EndTaken
    <3> QED BY <1>4, <2>2, <3>2
  <2>9. AllPushed(x, out) = Stand(n + 1, t, NoAttempt, {}, <<>>)
    <3>1. AllPushed(x, out) = PushCurrent(PushCurrent(x, out[1]), out[2])
      BY <2>4, PushedFew
    <3> QED BY <1>2, <2>4, <2>7, <2>8, <3>1
  <2> QED BY <2>5, <2>9, TogetherBy
<1> QED BY <1>6, <1>7, <1>8

\* Whatever the next event is, what the carrier makes of it the hub takes.
LEMMA PushTogether ==
  ASSUME NEW n \in Nat, NEW r \in Nat, NEW a \in FollowAttempts, a.after <= n, NEW out,
         NEW e \in FollowEvents, e = log[n + 1], NEW x, x = Stand(n, r, a, {}, <<>>),
         NEW p, p = PushLegacy(Stand(n, r, a, {}, out), n + 1), p.ok
  PROVE  Together(p, x, n, AttemptAfter(a, e, n))
<1>1. PICK nil : nil = <<>>
  OBVIOUS
<1>2. x = Stand(n, r, a, {}, nil)
  BY <1>1
<1>3. PICK seq : seq = n + 1
  OBVIOUS
<1>4. /\ e.type = "chunk" /\ e.pos # a.pos => p = Passed(ChunkAdded(FollowStarted(Abandoned(x), e.pos)), seq)
      /\ e.type = "chunk" /\ e.pos = a.pos => p = Passed(ChunkAdded(FollowStarted(x, e.pos)), seq)
      /\ IsSettlement(e) => p = Settled(x, e, seq)
      /\ Ends(e, a) => p = Passed(Abandoned(x), seq)
      /\ e.type # "chunk" /\ ~IsSettlement(e) /\ ~Ends(e, a) => p = Passed(x, seq)
  BY <1>3, PushIs
<1>5. CASE e.type = "chunk"
  <2>1. PICK y : y = IF e.pos # a.pos THEN Abandoned(x) ELSE x
    OBVIOUS
  <2>2. p = Passed(ChunkAdded(FollowStarted(y, e.pos)), n + 1)
    BY <1>3, <1>4, <1>5, <2>1
  <2> QED BY <1>1, <1>2, <1>5, <2>1, <2>2, ChunksTogether
<1>6. CASE IsSettlement(e)
  <2>1. p = Settled(x, e, n + 1) /\ e.type # "chunk"
    BY <1>3, <1>4, <1>6 DEF IsSettlement
  <2>2. Together(p, x, n, NoAttempt)
    BY <1>1, <1>2, <1>6, <2>1, SettlesTogether
  <2>3. AttemptAfter(a, e, n) = NoAttempt
    BY <1>6, <2>1 DEF AttemptAfter
  <2> QED BY <2>2, <2>3
<1>7. CASE Ends(e, a)
  <2>1. p = Passed(Abandoned(x), n + 1) /\ e.type # "chunk" /\ ~IsSettlement(log[n + 1])
    BY <1>3, <1>4, <1>7 DEF IsSettlement, Ends
  <2>2. Together(p, x, n, NoAttempt)
    BY <1>1, <1>2, <2>1, EndsTogether
  <2>3. AttemptAfter(a, e, n) = NoAttempt
    BY <1>7, <2>1 DEF AttemptAfter
  <2> QED BY <2>2, <2>3
<1>8. CASE e.type # "chunk" /\ ~IsSettlement(e) /\ ~Ends(e, a)
  <2>1. p = Passed(x, n + 1) /\ ~IsSettlement(log[n + 1])
    BY <1>3, <1>4, <1>8
  <2>2. Together(p, x, n, a)
    BY <1>1, <1>2, <2>1, AloneTogether
  <2>3. AttemptAfter(a, e, n) = a
    BY <1>8 DEF AttemptAfter
  <2> QED BY <2>2, <2>3
<1> QED BY <1>5, <1>6, <1>7, <1>8

\* The snapshot: the carrier and the hub begin at the same event with its attempt.
LEMMA SnapshotTogether ==
  ASSUME NEW n \in Nat, NEW o \in FollowAttempts, o = Opening(n), NEW p, p = OpenLegacy(n), p.ok
  PROVE  \E out : /\ p = Stand(n, 0, o, {}, out)
                  /\ AllPushed(NotOpened, out) = Stand(n, 0, o, {}, <<>>)
<1>1. PICK f : f = [type |-> "snapshot", cursor |-> n, attempt |-> o]
  OBVIOUS
<1>2. PICK out : out = Append(<<>>, f)
  OBVIOUS
<1>3. DOMAIN out = 1..1 /\ out[1] = f /\ out = <<f>>
  <2>1. DOMAIN out = 1..1 /\ out[1] = f
    BY <1>2, EventsAppend
  <2> QED BY <1>2, <2>1
<1>4. PICK nil : nil = <<>>
  OBVIOUS
<1>5. PICK empty : empty = NotOpened
  OBVIOUS
<1>6. PICK none : none = NoAttempt
  OBVIOUS
<1>7. empty = [opened |-> FALSE, ok |-> TRUE, cursor |-> 0, revision |-> 0,
               attempt |-> none, settled |-> {}, out |-> nil]
  BY <1>4, <1>5, <1>6 DEF NotOpened
<1>8. PICK yes : yes = (o.next <= MaxAssistantChunks)
  OBVIOUS
<1>9. PICK y : y = [empty EXCEPT !.opened = TRUE, !.cursor = n, !.attempt = o, !.ok = yes, !.out = out]
  OBVIOUS
<1>10. y = [opened |-> TRUE, ok |-> yes, cursor |-> n, revision |-> 0, attempt |-> o, settled |-> {}, out |-> out]
  BY ONLY <1>7, <1>9
<1>11. p = y
  BY <1>1, <1>3, <1>5, <1>8, <1>9 DEF OpenLegacy
<1>12. yes = TRUE
  <2>1. p.ok = yes
    BY <1>10, <1>11
  <2> QED BY <1>8, <2>1
<1>13. p = Stand(n, 0, o, {}, out)
  BY <1>10, <1>11, <1>12 DEF Stand
<1>14. PICK z : z = [empty EXCEPT !.opened = TRUE, !.cursor = n, !.attempt = o, !.ok = TRUE]
  OBVIOUS
<1>15. z = Stand(n, 0, o, {}, nil)
  BY ONLY <1>7, <1>14 DEF Stand
<1>16. PushCurrent(empty, f) = z
  <2>1. f.type = "snapshot" /\ f.cursor = n /\ f.attempt = o /\ empty.ok = TRUE /\ empty.opened = FALSE
    BY ONLY <1>1, <1>7
  <2>2. PushCurrent(empty, f) = [empty EXCEPT !.opened = TRUE, !.cursor = f.cursor, !.attempt = f.attempt,
                                              !.ok = f.attempt.next <= MaxAssistantChunks]
    BY <2>1 DEF PushCurrent
  <2> QED BY <1>8, <1>12, <1>14, <2>1, <2>2
<1>17. AllPushed(NotOpened, out) = Stand(n, 0, o, {}, <<>>)
  <2>1. AllPushed(empty, out) = PushCurrent(empty, out[1])
    BY <1>3, PushedFew
  <2> QED BY <1>3, <1>4, <1>5, <1>15, <1>16, <2>1
<1> QED BY <1>13, <1>17

-----------------------------------------------------------------------------
(* The inductive invariant of the follow.                                  *)

\* What the agent has written: the positions grow, each turn and each step starts once,
\* and a chunk comes only in a step that has started after every end before it.
Reached(lg, i, ag) == lg[i].pos[1] <= ag.turn /\ (lg[i].pos[1] = ag.turn => lg[i].pos[2] <= ag.step)
StartedAfter(lg, i, j) == \E k \in i + 1..j : lg[k].type = "step/start"
PositionsReached(lg, ag) == \A i \in 1..Len(lg) : Reached(lg, i, ag)
TurnsNew(lg) ==
  \A j \in 1..Len(lg) : lg[j].type = "turn/start" => \A i \in 1..(j - 1) : lg[i].pos[1] # lg[j].pos[1]
StepsNew(lg) ==
  \A j \in 1..Len(lg) : lg[j].type = "step/start" => \A i \in 1..(j - 1) : lg[i].pos # lg[j].pos
ChunksInSteps(lg) ==
  \A j \in 1..Len(lg) : lg[j].type = "chunk" =>
    \A i \in 1..(j - 1) : EndsAt(lg, i) => StartedAfter(lg, i, j - 1)
StepOpen(lg, ag) ==
  ag.phase = "step" => \A i \in 1..Len(lg) : EndsAt(lg, i) => StartedAfter(lg, i, Len(lg))
Agents == [turn : Nat, step : Nat, phase : {"idle", "turn", "step", "settled"}]

LogSound(lg, ag) ==
  /\ lg \in Seq(FollowEvents) /\ ag \in Agents
  /\ PositionsReached(lg, ag) /\ TurnsNew(lg) /\ StepsNew(lg) /\ ChunksInSteps(lg) /\ StepOpen(lg, ag)

\* The attempt that a page is shown after n events, against the one that a snapshot shows.
ShownRight(lg, n, a) ==
  LET o == OpeningOf(lg, n) IN
  /\ a \in FollowAttempts /\ a.after <= n
  /\ a # NoAttempt => a.pos = o.pos /\ a.next = o.next /\ a.next # 0
  /\ a = NoAttempt /\ o # NoAttempt => \E i \in o.id..n : EndsAt(lg, i)

\* A follow that runs: the carrier and the hub stand at the same event with the same
\* attempt and no settlement waits.
Runs(lg, e, c, pl) ==
  /\ e = Stand(e.cursor, e.revision, e.attempt, {}, e.out)
  /\ c = Stand(e.cursor, e.revision, e.attempt, {}, <<>>)
  /\ e.cursor \in 0..Len(lg) /\ e.revision \in Nat
  /\ ShownRight(lg, e.cursor, e.attempt)
  /\ pl = [i \in 1..e.cursor |-> lg[i]]

FollowPlaced(f, s, e, c) ==
  /\ f \in {"connecting", "running", "ended", "failed"} /\ s \in {"down", "open"}
  /\ s = "open" => f \in {"connecting", "running"}
  /\ f = "running" => s = "open"
  /\ f = "connecting" => c = NotOpened /\ (s = "open" => e = NotOpened)
  /\ c.ok = TRUE

FollowIInv ==
  /\ LogSound(log, agent)
  /\ FollowPlaced(follow, source, encoder, checker)
  /\ follow = "running" => Runs(log, encoder, checker, pageLog)

LEMMA ShownTyped ==
  ASSUME NEW lg, NEW n, NEW a, ShownRight(lg, n, a)
  PROVE  a \in FollowAttempts /\ a.after <= n
BY DEF ShownRight

\* A snapshot shows the attempt of the log.
LEMMA OpeningShown ==
  ASSUME NEW lg \in Seq(FollowEvents), NEW n \in 0..Len(lg), NEW o, o = OpeningOf(lg, n)
  PROVE  ShownRight(lg, n, o)
<1>1. o \in FollowAttempts /\ o.after <= n /\ (o = NoAttempt <=> o.next = 0)
  BY OpeningFacts
<1> QED BY <1>1 DEF ShownRight

\* What the page is shown stays right when it gets the next event.
LEMMA ShownNext ==
  ASSUME NEW lg, NEW ag, LogSound(lg, ag), NEW n \in Nat, n + 1 \in 1..Len(lg),
         NEW a, ShownRight(lg, n, a), NEW b, b = AttemptAfter(a, lg[n + 1], n)
  PROVE  ShownRight(lg, n + 1, b)
<1>0. lg \in Seq(FollowEvents) /\ TurnsNew(lg) /\ StepsNew(lg) /\ ChunksInSteps(lg)
  BY DEF LogSound
<1>1. Len(lg) \in Nat /\ n <= Len(lg) /\ n \in 0..Len(lg) /\ n + 1 \in 0..Len(lg)
  BY <1>0
<1>2. PICK e : e = lg[n + 1]
  OBVIOUS
<1>3. e \in FollowEvents /\ e.pos \in Nat \X Nat /\ e.type \in FollowKinds
  <2>1. e \in FollowEvents
    BY <1>0, <1>2
  <2> QED BY <2>1 DEF FollowEvents
<1>4. PICK o : o = OpeningOf(lg, n)
  OBVIOUS
<1>5. PICK q : q = OpeningOf(lg, n + 1)
  OBVIOUS
<1>6. /\ a \in FollowAttempts /\ a.after <= n
      /\ a # NoAttempt => a.pos = o.pos /\ a.next = o.next /\ a.next # 0
      /\ a = NoAttempt /\ o # NoAttempt => \E i \in o.id..n : EndsAt(lg, i)
  BY <1>4 DEF ShownRight
<1>7. /\ o \in FollowAttempts /\ (o = NoAttempt <=> o.next = 0)
      /\ o # NoAttempt => o.id \in 1..n /\ (\A i \in o.id..n : ~BreaksAt(lg, i)) /\ \E i \in 1..n : lg[i].pos = o.pos
  BY <1>0, <1>1, <1>4, OpeningFacts
<1>8. /\ BreaksAt(lg, n + 1) => q = NoAttempt
      /\ e.type = "chunk" /\ (o = NoAttempt \/ o.pos # e.pos) => q.pos = e.pos /\ q.next = 1
      /\ e.type = "chunk" /\ o # NoAttempt /\ o.pos = e.pos => q.pos = e.pos /\ q.next = o.next + 1
  BY <1>0, <1>2, <1>4, <1>5, OpeningSteps
<1>9. q \in FollowAttempts /\ (q # NoAttempt => q.id \in 1..(n + 1))
  BY <1>0, <1>1, <1>5, OpeningFacts
<1>10. ASSUME b \in FollowAttempts, b.after <= n + 1,
              b # NoAttempt => b.pos = q.pos /\ b.next = q.next /\ b.next # 0,
              b = NoAttempt /\ q # NoAttempt => \E i \in q.id..n + 1 : EndsAt(lg, i)
       PROVE  ShownRight(lg, n + 1, b)
  BY <1>5, <1>10 DEF ShownRight
<1>11. a \in FollowAttempts /\ a.next \in Nat /\ a.after \in Nat /\ a.id \in Nat /\ a.pos \in Nat \X Nat /\ a.after <= n + 1
  BY <1>6 DEF FollowAttempts
<1>12. NoAttempt \in FollowAttempts /\ NoAttempt.after <= n + 1
  BY DEF NoAttempt, FollowAttempts
<1>13. CASE e.type = "chunk"
  <2>1. PICK fr : fr = FreshAttempt(n, e.pos)
    OBVIOUS
  <2>2. fr.pos = e.pos /\ fr.next = 0 /\ fr.after = n /\ fr.id = n + 1
    BY <2>1 DEF FreshAttempt
  <2>3. CASE a = NoAttempt \/ a.pos # e.pos
    <3>1. b = OneMore(fr)
      BY <1>2, <1>13, <2>1, <2>3 DEF AttemptAfter
    <3>2. b = [id |-> n + 1, pos |-> e.pos, after |-> n, next |-> 1]
      BY <2>2, <3>1 DEF OneMore
    <3>3. b \in FollowAttempts /\ b.pos = e.pos /\ b.next = 1 /\ b.after = n
      BY <1>3, <3>2 DEF FollowAttempts
    <3>4. o = NoAttempt \/ o.pos # e.pos
      <4>1. CASE a # NoAttempt
        BY <1>6, <2>3, <4>1
      <4>2. CASE a = NoAttempt /\ o # NoAttempt
        <5>1. PICK i \in o.id..n : EndsAt(lg, i)
          BY <1>6, <4>2
        <5>2. i \in 1..n /\ o.id <= i /\ n + 1 \in 1..Len(lg) /\ n = (n + 1) - 1 /\ i \in 1..((n + 1) - 1)
          BY <1>7, <4>2
        <5>3. StartedAfter(lg, i, (n + 1) - 1)
          BY <1>0, <1>2, <1>13, <5>1, <5>2 DEF ChunksInSteps
        <5>4. PICK k \in i + 1..n : lg[k].type = "step/start"
          BY <5>2, <5>3 DEF StartedAfter
        <5>5. k \in o.id..n
          BY <1>7, <4>2, <5>2
        <5> QED BY <1>7, <4>2, <5>4, <5>5 DEF BreaksAt
      <4> QED BY <4>1, <4>2
    <3>5. q.pos = e.pos /\ q.next = 1
      BY <1>8, <1>13, <3>4
    <3>6. b # NoAttempt
      BY <3>3 DEF NoAttempt
    <3>7. b.after <= n + 1
      BY <3>3
    <3> QED BY <1>10, <3>3, <3>5, <3>6, <3>7
  <2>4. CASE a # NoAttempt /\ a.pos = e.pos
    <3>1. b = OneMore(a)
      BY <1>2, <1>13, <2>4 DEF AttemptAfter
    <3>2. b = [id |-> a.id, pos |-> a.pos, after |-> a.after, next |-> a.next + 1]
      BY <3>1 DEF OneMore
    <3>3. b \in FollowAttempts /\ b.pos = a.pos /\ b.next = a.next + 1 /\ b.after = a.after /\ b.next # 0
      BY <1>11, <3>2 DEF FollowAttempts
    <3>4. o # NoAttempt /\ o.pos = e.pos
      BY <1>6, <1>7, <2>4
    <3>5. q.pos = e.pos /\ q.next = o.next + 1
      BY <1>8, <1>13, <3>4
    <3>6. b.pos = q.pos /\ b.next = q.next
      BY <1>6, <2>4, <3>3, <3>5
    <3>7. b # NoAttempt
      BY <3>3 DEF NoAttempt
    <3> QED BY <1>10, <1>11, <3>3, <3>6, <3>7
  <2> QED BY <2>3, <2>4
<1>14. CASE e.type \in {"message", "attempt"}
  <2>1. b = NoAttempt
    BY <1>2, <1>14 DEF AttemptAfter, IsSettlement
  <2>2. q = NoAttempt
    BY <1>2, <1>8, <1>14 DEF BreaksAt
  <2> QED BY <1>10, <1>12, <2>1, <2>2
<1>15. CASE e.type \in {"turn/start", "step/start"}
  <2>1. q = NoAttempt
    BY <1>2, <1>8, <1>15 DEF BreaksAt
  <2>2. a # NoAttempt => Ends(e, a)
    <3> SUFFICES ASSUME a # NoAttempt PROVE Ends(e, a)
      OBVIOUS
    <3>1. PICK i \in 1..n : lg[i].pos = a.pos
      BY <1>6, <1>7
    <3>2. i \in 1..((n + 1) - 1)
      OBVIOUS
    <3>3. CASE e.type = "turn/start"
      <4>1. lg[i].pos[1] # e.pos[1]
        BY <1>0, <1>2, <3>2, <3>3 DEF TurnsNew
      <4> QED BY <3>1, <3>3, <4>1 DEF Ends
    <3>4. CASE e.type = "step/start"
      <4>1. lg[i].pos # e.pos
        BY <1>0, <1>2, <3>2, <3>4 DEF StepsNew
      <4> QED BY <3>1, <3>4, <4>1 DEF Ends
    <3> QED BY <1>15, <3>3, <3>4
  <2>3. b = NoAttempt
    BY <1>2, <1>15, <2>2 DEF AttemptAfter
  <2> QED BY <1>10, <1>12, <2>1, <2>3
<1>16. CASE e.type \in {"step/end", "turn/end"}
  <2>1. b = NoAttempt
    <3>1. Ends(e, a) /\ e.type # "chunk"
      BY <1>16 DEF Ends
    <3> QED BY <1>2, <3>1 DEF AttemptAfter
  <2>2. EndsAt(lg, n + 1)
    BY <1>2, <1>16 DEF EndsAt
  <2>3. q # NoAttempt => n + 1 \in q.id..n + 1
    BY <1>9
  <2> QED BY <1>10, <1>12, <2>1, <2>2, <2>3
<1> QED BY <1>3, <1>13, <1>14, <1>15, <1>16 DEF FollowKinds

\* ... and when the log grows.
LEMMA ShownKept ==
  ASSUME NEW lg \in Seq(FollowEvents), NEW e, NEW n \in 0..Len(lg), NEW a, ShownRight(lg, n, a),
         NEW mg, mg = Append(lg, e)
  PROVE  ShownRight(mg, n, a)
<1>1. PICK o : o = OpeningOf(lg, n)
  OBVIOUS
<1>2. OpeningOf(mg, n) = o
  BY <1>1, OpeningKept
<1>3. /\ a \in FollowAttempts /\ a.after <= n
      /\ a # NoAttempt => a.pos = o.pos /\ a.next = o.next /\ a.next # 0
      /\ a = NoAttempt /\ o # NoAttempt => \E i \in o.id..n : EndsAt(lg, i)
  BY <1>1 DEF ShownRight
<1>4. ASSUME NEW i \in o.id..n, o # NoAttempt, EndsAt(lg, i) PROVE EndsAt(mg, i)
  <2>1. o.id \in 1..n
    BY <1>1, <1>4, OpeningFacts
  <2>2. Len(lg) \in Nat /\ i \in 1..Len(lg)
    BY <2>1
  <2>3. mg[i] = lg[i]
    BY <2>2
  <2> QED BY <1>4, <2>3 DEF EndsAt
<1> QED BY <1>2, <1>3, <1>4 DEF ShownRight

\* A position that was reached is reached by an agent that goes on.
LEMMA StillReached ==
  ASSUME NEW t \in Nat, NEW u \in Nat, NEW a \in Nat, NEW b \in Nat, NEW c \in Nat, NEW d \in Nat,
         t <= a, t = a => u <= b, c = a + 1 \/ (c = a /\ d >= b)
  PROVE  t <= c /\ (t = c => u <= d)
OBVIOUS

\* The log of an agent that goes on.
LEMMA LogGrows ==
  ASSUME NEW lg, NEW ag, LogSound(lg, ag), NEW bg \in Agents, NEW e \in FollowEvents,
         e.pos = <<bg.turn, bg.step>>,
         bg.turn = ag.turn + 1 \/ (bg.turn = ag.turn /\ bg.step >= ag.step),
         e.type = "turn/start" => bg.turn = ag.turn + 1,
         e.type = "step/start" => bg.turn = ag.turn /\ bg.step = ag.step + 1,
         e.type = "chunk" => ag.phase = "step",
         bg.phase = "step" => e.type = "step/start" \/ (ag.phase = "step" /\ e.type \notin {"step/end", "turn/end"}),
         NEW mg, mg = Append(lg, e)
  PROVE  LogSound(mg, bg)
<1>0. /\ lg \in Seq(FollowEvents) /\ ag \in Agents
      /\ PositionsReached(lg, ag) /\ TurnsNew(lg) /\ StepsNew(lg) /\ ChunksInSteps(lg) /\ StepOpen(lg, ag)
  BY DEF LogSound
<1>1. PICK n : n = Len(lg)
  OBVIOUS
<1>2. n \in Nat /\ Len(mg) = n + 1 /\ mg \in Seq(FollowEvents)
  BY <1>0, <1>1
<1>3. mg[n + 1] = e /\ \A i \in 1..n : mg[i] = lg[i]
  BY <1>0, <1>1
<1>4. \A i \in 1..(n + 1) : i \in 1..n \/ i = n + 1
  BY <1>2
<1>5. ag.turn \in Nat /\ ag.step \in Nat /\ bg.turn \in Nat /\ bg.step \in Nat
  BY <1>0 DEF Agents
<1>6. e.pos[1] = bg.turn /\ e.pos[2] = bg.step
  OBVIOUS
<1>7. ASSUME NEW i \in 1..n
      PROVE  /\ lg[i].pos[1] \in Nat /\ lg[i].pos[2] \in Nat
             /\ lg[i].pos[1] <= ag.turn /\ (lg[i].pos[1] = ag.turn => lg[i].pos[2] <= ag.step)
  <2>1. lg[i] \in FollowEvents
    BY <1>0, <1>1
  <2>2. lg[i].pos \in Nat \X Nat
    BY <2>1 DEF FollowEvents
  <2>3. Reached(lg, i, ag)
    BY <1>0, <1>1 DEF PositionsReached
  <2> QED BY <2>2, <2>3 DEF Reached
<1>8. PositionsReached(mg, bg)
  <2>1. ASSUME NEW i \in 1..(n + 1) PROVE Reached(mg, i, bg)
    <3>1. CASE i = n + 1
      <4>1. mg[i].pos[1] = bg.turn /\ mg[i].pos[2] = bg.step
        BY <1>3, <1>6, <3>1
      <4>2. bg.turn <= bg.turn /\ bg.step <= bg.step
        BY <1>5
      <4> QED BY <4>1, <4>2 DEF Reached
    <3>2. CASE i \in 1..n
      <4>1. /\ lg[i].pos[1] \in Nat /\ lg[i].pos[2] \in Nat
            /\ lg[i].pos[1] <= ag.turn /\ (lg[i].pos[1] = ag.turn => lg[i].pos[2] <= ag.step)
        BY <1>7, <3>2
      <4>2. mg[i] = lg[i]
        BY <1>3, <3>2
      <4>3. lg[i].pos[1] <= bg.turn /\ (lg[i].pos[1] = bg.turn => lg[i].pos[2] <= bg.step)
        BY <1>5, <4>1, StillReached
      <4> QED BY <4>2, <4>3 DEF Reached
    <3> QED BY <1>4, <3>1, <3>2
  <2> QED BY <1>2, <2>1 DEF PositionsReached
<1>9. TurnsNew(mg)
  <2>1. ASSUME NEW j \in 1..(n + 1), mg[j].type = "turn/start", NEW i \in 1..(j - 1)
        PROVE  mg[i].pos[1] # mg[j].pos[1]
    <3>1. i \in 1..n
      BY <1>2
    <3>2. CASE j = n + 1
      <4>1. lg[i].pos[1] <= ag.turn /\ lg[i].pos[1] \in Nat /\ bg.turn = ag.turn + 1
        BY <1>3, <1>7, <2>1, <3>1, <3>2
      <4>2. lg[i].pos[1] # bg.turn
        BY <1>5, <4>1
      <4> QED BY <1>3, <1>6, <3>1, <3>2, <4>2
    <3>3. CASE j \in 1..n
      <4>1. lg[i].pos[1] # lg[j].pos[1]
        BY <1>0, <1>1, <1>3, <2>1, <3>3 DEF TurnsNew
      <4> QED BY <1>3, <3>1, <3>3, <4>1
    <3> QED BY <1>4, <3>2, <3>3
  <2> QED BY <1>2, <2>1 DEF TurnsNew
<1>10. StepsNew(mg)
  <2>1. ASSUME NEW j \in 1..(n + 1), mg[j].type = "step/start", NEW i \in 1..(j - 1)
        PROVE  mg[i].pos # mg[j].pos
    <3>1. i \in 1..n
      BY <1>2
    <3>2. CASE j = n + 1
      <4>1. /\ lg[i].pos[1] \in Nat /\ lg[i].pos[2] \in Nat
            /\ lg[i].pos[1] <= ag.turn /\ (lg[i].pos[1] = ag.turn => lg[i].pos[2] <= ag.step)
        BY <1>7, <3>1
      <4>2. bg.turn = ag.turn /\ bg.step = ag.step + 1
        BY <1>3, <2>1, <3>2
      <4>3. ~(lg[i].pos[1] = bg.turn /\ lg[i].pos[2] = bg.step)
        BY <1>5, <4>1, <4>2
      <4>4. lg[i].pos # e.pos
        BY <1>6, <4>3
      <4> QED BY <1>3, <3>1, <3>2, <4>4
    <3>3. CASE j \in 1..n
      <4>1. lg[i].pos # lg[j].pos
        BY <1>0, <1>1, <1>3, <2>1, <3>3 DEF StepsNew
      <4> QED BY <1>3, <3>1, <3>3, <4>1
    <3> QED BY <1>4, <3>2, <3>3
  <2> QED BY <1>2, <2>1 DEF StepsNew
<1>11. ASSUME NEW i \in 1..n, NEW j \in 0..n, StartedAfter(lg, i, j) PROVE StartedAfter(mg, i, j)
  <2>1. PICK k \in i + 1..j : lg[k].type = "step/start"
    BY <1>11 DEF StartedAfter
  <2>2. k \in 1..n
    BY <1>2
  <2> QED BY <1>3, <2>1, <2>2 DEF StartedAfter
<1>12. ChunksInSteps(mg)
  <2>1. ASSUME NEW j \in 1..(n + 1), mg[j].type = "chunk", NEW i \in 1..(j - 1), EndsAt(mg, i)
        PROVE  StartedAfter(mg, i, j - 1)
    <3>1. i \in 1..n /\ j - 1 \in 0..n
      BY <1>2
    <3>2. EndsAt(lg, i)
      BY <1>3, <2>1, <3>1 DEF EndsAt
    <3>3. CASE j = n + 1
      <4>1. ag.phase = "step" /\ j - 1 = n
        BY <1>2, <1>3, <2>1, <3>3
      <4>2. StartedAfter(lg, i, n)
        BY <1>0, <1>1, <3>1, <3>2, <4>1 DEF StepOpen
      <4> QED BY <1>11, <3>1, <4>1, <4>2
    <3>4. CASE j \in 1..n
      <4>1. lg[j].type = "chunk"
        BY <1>3, <2>1, <3>4
      <4>2. StartedAfter(lg, i, j - 1)
        BY <1>0, <1>1, <3>2, <3>4, <4>1 DEF ChunksInSteps
      <4> QED BY <1>11, <3>1, <4>2
    <3> QED BY <1>4, <3>3, <3>4
  <2> QED BY <1>2, <2>1 DEF ChunksInSteps
<1>13. StepOpen(mg, bg)
  <2> SUFFICES ASSUME bg.phase = "step", NEW i \in 1..(n + 1), EndsAt(mg, i) PROVE StartedAfter(mg, i, n + 1)
    BY <1>2 DEF StepOpen
  <2>1. e.type \notin {"step/end", "turn/end"}
    OBVIOUS
  <2>2. i # n + 1
    BY <1>3, <2>1 DEF EndsAt
  <2>3. i \in 1..n
    BY <1>4, <2>2
  <2>4. CASE e.type = "step/start"
    <3>1. n + 1 \in i + 1..n + 1
      BY <1>2, <2>3
    <3> QED BY <1>3, <2>4, <3>1 DEF StartedAfter
  <2>5. CASE ag.phase = "step"
    <3>1. EndsAt(lg, i)
      BY <1>3, <2>3 DEF EndsAt
    <3>2. StartedAfter(lg, i, n)
      BY <1>0, <1>1, <2>3, <2>5, <3>1 DEF StepOpen
    <3>3. PICK k \in i + 1..n : lg[k].type = "step/start"
      BY <3>2 DEF StartedAfter
    <3>4. k \in 1..n /\ k \in i + 1..n + 1
      BY <1>2, <2>3
    <3> QED BY <1>3, <3>3, <3>4 DEF StartedAfter
  <2> QED BY <2>4, <2>5
<1> QED BY <1>2, <1>8, <1>9, <1>10, <1>12, <1>13 DEF LogSound

\* The agent writes only such logs.
LEMMA AgentGrows ==
  ASSUME LogSound(log, agent), AgentActs
  PROVE  LogSound(log', agent') /\ \E e : log' = Append(log, e)
<1>0. agent \in Agents
  BY DEF LogSound
<1>1. PICK t, s, ph : t = agent.turn /\ s = agent.step /\ ph = agent.phase
  OBVIOUS
<1>2. agent = [turn |-> t, step |-> s, phase |-> ph] /\ t \in Nat /\ s \in Nat
  BY <1>0, <1>1 DEF Agents
<1>3. PICK type, op :
        /\ Logged(type, op) /\ type \in FollowKinds /\ op \in {"none", "append", "other"}
        /\ type = "chunk" => ph = "step"
        /\ type = "attempt" => ph = "step"
        /\ type = "step/start" => ph = "turn"
  <2>1. ASSUME AgentActs
        PROVE  \E type, op :
                 /\ Logged(type, op) /\ type \in FollowKinds /\ op \in {"none", "append", "other"}
                 /\ type = "chunk" => ph = "step"
                 /\ type = "attempt" => ph = "step"
                 /\ type = "step/start" => ph = "turn"
    BY <1>1, <2>1 DEF AgentActs, FollowKinds
  <2> QED BY <2>1
<1>4. PICK b : b = agent'
  OBVIOUS
<1>5. b = CASE type = "turn/start" -> [turn |-> t + 1, step |-> 0, phase |-> "turn"]
            [] type = "step/start" -> [turn |-> t, step |-> s + 1, phase |-> "step"]
            [] type = "message"    -> [agent EXCEPT !.phase = "settled"]
            [] type = "step/end"   -> [agent EXCEPT !.phase = "turn"]
            [] type = "turn/end"   -> [agent EXCEPT !.phase = "idle"]
            [] OTHER               -> agent
  BY <1>1, <1>3, <1>4 DEF Logged
<1>6. PICK e : e = [type |-> type, pos |-> <<b.turn, b.step>>, op |-> op]
  OBVIOUS
<1>7. log' = Append(log, e)
  BY <1>3, <1>4, <1>6 DEF Logged
<1>8. /\ type = "turn/start" => b = [turn |-> t + 1, step |-> 0, phase |-> "turn"]
      /\ type = "step/start" => b = [turn |-> t, step |-> s + 1, phase |-> "step"]
      /\ type = "message"    => b = [turn |-> t, step |-> s, phase |-> "settled"]
      /\ type = "step/end"   => b = [turn |-> t, step |-> s, phase |-> "turn"]
      /\ type = "turn/end"   => b = [turn |-> t, step |-> s, phase |-> "idle"]
      /\ type \in {"chunk", "attempt"} => b = [turn |-> t, step |-> s, phase |-> ph]
  <2>1. ASSUME NEW to PROVE [agent EXCEPT !.phase = to] = [turn |-> t, step |-> s, phase |-> to]
    BY <1>2
  <2>2. type = "turn/start" => b = [turn |-> t + 1, step |-> 0, phase |-> "turn"]
    BY <1>5
  <2>3. type = "step/start" => b = [turn |-> t, step |-> s + 1, phase |-> "step"]
    BY <1>5
  <2>4. type = "message" => b = [agent EXCEPT !.phase = "settled"]
    BY <1>5
  <2>5. type = "step/end" => b = [agent EXCEPT !.phase = "turn"]
    BY <1>5
  <2>6. type = "turn/end" => b = [agent EXCEPT !.phase = "idle"]
    BY <1>5
  <2>7. type \in {"chunk", "attempt"} => b = agent
    BY <1>5
  <2> QED BY <1>2, <2>1, <2>2, <2>3, <2>4, <2>5, <2>6, <2>7
<1>9. b \in Agents
  <2>1. t + 1 \in Nat /\ s + 1 \in Nat /\ 0 \in Nat /\ ph \in {"idle", "turn", "step", "settled"}
    BY <1>0, <1>1, <1>2 DEF Agents
  <2> QED BY <1>2, <1>3, <1>8, <2>1 DEF Agents, FollowKinds
<1>10. /\ b.turn = agent.turn + 1 \/ (b.turn = agent.turn /\ b.step >= agent.step)
       /\ type = "turn/start" => b.turn = agent.turn + 1
       /\ type = "step/start" => b.turn = agent.turn /\ b.step = agent.step + 1
  <2>1. s >= s /\ s + 1 >= s
    BY <1>2
  <2> QED BY <1>1, <1>3, <1>8, <2>1 DEF FollowKinds
<1>11. b.phase = "step" => type = "step/start" \/ (agent.phase = "step" /\ type \notin {"step/end", "turn/end"})
  BY <1>1, <1>3, <1>8 DEF FollowKinds
<1>12. e \in FollowEvents /\ e.pos = <<b.turn, b.step>> /\ e.type = type
  <2>1. b.turn \in Nat /\ b.step \in Nat
    BY <1>9 DEF Agents
  <2> QED BY <1>3, <1>6, <2>1 DEF FollowEvents
<1>13. LogSound(log', b)
  BY <1>1, <1>3, <1>7, <1>9, <1>10, <1>11, <1>12, LogGrows
<1> QED BY <1>4, <1>7, <1>13

-----------------------------------------------------------------------------
(* The steps of the follow.                                                *)

LEMMA RunsUnfolded ==
  ASSUME NEW lg, NEW e, NEW c, NEW pl, Runs(lg, e, c, pl)
  PROVE  \E n \in 0..Len(lg) : \E r \in Nat : \E a \in FollowAttempts : \E out :
           /\ e = Stand(n, r, a, {}, out) /\ c = Stand(n, r, a, {}, <<>>)
           /\ ShownRight(lg, n, a) /\ a.after <= n /\ pl = [i \in 1..n |-> lg[i]]
<1>1. e.attempt \in FollowAttempts /\ e.attempt.after <= e.cursor
  BY ShownTyped DEF Runs
<1> QED BY <1>1 DEF Runs

LEMMA RunsWhen ==
  ASSUME NEW lg, NEW n \in 0..Len(lg), NEW r \in Nat, NEW a, NEW out, NEW e, e = Stand(n, r, a, {}, out),
         NEW c, c = Stand(n, r, a, {}, <<>>), ShownRight(lg, n, a), NEW pl, pl = [i \in 1..n |-> lg[i]]
  PROVE  Runs(lg, e, c, pl)
<1>1. e.cursor = n /\ e.revision = r /\ e.attempt = a /\ e.out = out
  BY DEF Stand
<1> QED BY <1>1 DEF Runs

LEMMA RunsKept ==
  ASSUME NEW lg \in Seq(FollowEvents), NEW e, NEW c, NEW pl, Runs(lg, e, c, pl), NEW ev, NEW mg, mg = Append(lg, ev)
  PROVE  Runs(mg, e, c, pl)
<1>1. PICK n \in 0..Len(lg) : \E r \in Nat : \E a \in FollowAttempts : \E out :
        /\ e = Stand(n, r, a, {}, out) /\ c = Stand(n, r, a, {}, <<>>)
        /\ ShownRight(lg, n, a) /\ a.after <= n /\ pl = [i \in 1..n |-> lg[i]]
  BY RunsUnfolded
<1>2. PICK r \in Nat : \E a \in FollowAttempts : \E out :
        /\ e = Stand(n, r, a, {}, out) /\ c = Stand(n, r, a, {}, <<>>)
        /\ ShownRight(lg, n, a) /\ a.after <= n /\ pl = [i \in 1..n |-> lg[i]]
  BY <1>1
<1>3. PICK a \in FollowAttempts : \E out :
        /\ e = Stand(n, r, a, {}, out) /\ c = Stand(n, r, a, {}, <<>>)
        /\ ShownRight(lg, n, a) /\ a.after <= n /\ pl = [i \in 1..n |-> lg[i]]
  BY <1>2
<1>4. PICK out :
        /\ e = Stand(n, r, a, {}, out) /\ c = Stand(n, r, a, {}, <<>>)
        /\ ShownRight(lg, n, a) /\ a.after <= n /\ pl = [i \in 1..n |-> lg[i]]
  BY <1>3
<1>5. ShownRight(mg, n, a)
  BY <1>4, ShownKept
<1>6. Len(lg) \in Nat /\ Len(mg) = Len(lg) + 1 /\ n \in 0..Len(mg)
  OBVIOUS
<1>7. \A i \in 1..n : mg[i] = lg[i]
  BY <1>6
<1>8. pl = [i \in 1..n |-> mg[i]]
  BY <1>4, <1>7
<1> QED BY <1>4, <1>5, <1>6, <1>8, RunsWhen

LEMMA AgentKeeps ==
  ASSUME FollowIInv, AgentActs
  PROVE  FollowIInv'
<1>1. LogSound(log', agent') /\ \E e : log' = Append(log, e)
  BY AgentGrows DEF FollowIInv
<1>2. PICK e : log' = Append(log, e)
  BY <1>1
<1>3. log \in Seq(FollowEvents)
  BY DEF FollowIInv, LogSound
<1>4. UNCHANGED <<source, encoder, checker, follow, pageLog, follows>>
  BY DEF AgentActs, Logged
<1>5. follow = "running" => Runs(log', encoder, checker, pageLog)
  BY <1>2, <1>3, RunsKept DEF FollowIInv
<1> QED BY <1>1, <1>4, <1>5 DEF FollowIInv

LEMMA OpenKeeps ==
  ASSUME FollowIInv, OpenSource \/ BootstrapTimeout \/ FollowAgain \/ \E transient \in BOOLEAN : SourceFails(transient)
  PROVE  FollowIInv'
<1>0. /\ LogSound(log, agent) /\ FollowPlaced(follow, source, encoder, checker)
      /\ follow = "running" => Runs(log, encoder, checker, pageLog)
  BY DEF FollowIInv
<1>1. log' = log /\ agent' = agent
  BY DEF OpenSource, BootstrapTimeout, FollowAgain, SourceFails
<1>2. LogSound(log', agent')
  BY <1>0, <1>1
<1>3. FollowPlaced(follow', source', encoder', checker') /\ follow' # "running"
  <2>1. CASE OpenSource
    BY <1>0, <2>1 DEF OpenSource, FollowPlaced
  <2>2. CASE BootstrapTimeout
    BY <1>0, <2>2 DEF BootstrapTimeout, FollowPlaced
  <2>3. CASE FollowAgain
    <3>1. NotOpened.ok = TRUE
      BY DEF NotOpened
    <3> QED BY <1>0, <2>3, <3>1 DEF FollowAgain, FollowPlaced
  <2>4. CASE \E transient \in BOOLEAN : SourceFails(transient)
    BY <1>0, <2>4 DEF SourceFails, Fails, FollowPlaced
  <2> QED BY <2>1, <2>2, <2>3, <2>4
<1> QED BY <1>2, <1>3 DEF FollowIInv

\* What the carrier makes of a frame fails there, or the hub takes all of it.
LEMMA ArrivalKeeps ==
  ASSUME FollowIInv, NEW p, Arrives(p), follow \in {"connecting", "running"}, source = "open",
         p.ok => \E n \in 0..Len(log) : \E r \in Nat : \E a, out :
                   /\ p = Stand(n, r, a, {}, out) /\ AllPushed(checker, out) = Stand(n, r, a, {}, <<>>)
                   /\ ShownRight(log, n, a)
  PROVE  FollowIInv'
<1>0. LogSound(log, agent) /\ FollowPlaced(follow, source, encoder, checker)
  BY DEF FollowIInv
<1>1. LogSound(log', agent') /\ log' = log
  BY <1>0 DEF Arrives
<1>2. CASE p.ok
  <2>1. PICK n \in 0..Len(log) : \E r \in Nat : \E a, out :
                   /\ p = Stand(n, r, a, {}, out) /\ AllPushed(checker, out) = Stand(n, r, a, {}, <<>>)
                   /\ ShownRight(log, n, a)
    BY <1>2
  <2>2. PICK r \in Nat : \E a, out :
                   /\ p = Stand(n, r, a, {}, out) /\ AllPushed(checker, out) = Stand(n, r, a, {}, <<>>)
                   /\ ShownRight(log, n, a)
    BY <2>1
  <2>3. PICK a, out :
                   /\ p = Stand(n, r, a, {}, out) /\ AllPushed(checker, out) = Stand(n, r, a, {}, <<>>)
                   /\ ShownRight(log, n, a)
    BY <2>2
  <2>4. PICK taken : taken = AllPushed(checker, out)
    OBVIOUS
  <2>5. p.out = out /\ taken.ok = TRUE /\ taken.cursor = n
    BY <2>3, <2>4 DEF Stand
  <2>6. taken = FoldLeft(PushCurrent, checker, p.out)
    BY <2>4, <2>5 DEF AllPushed
  <2>7. /\ encoder' = p /\ checker' = taken /\ follow' = "running" /\ source' = source
        /\ pageLog' = [i \in 1..taken.cursor |-> log[i]]
    BY <1>2, <2>5, <2>6 DEF Arrives
  <2>8. FollowPlaced(follow', source', encoder', checker')
    BY <2>5, <2>7 DEF FollowPlaced
  <2>9. pageLog' = [i \in 1..n |-> log[i]]
    BY <2>5, <2>7
  <2>10. Runs(log, encoder', checker', pageLog')
    BY <2>3, <2>4, <2>7, <2>9, RunsWhen
  <2> QED BY <1>1, <2>8, <2>10 DEF FollowIInv
<1>3. CASE ~p.ok
  <2>1. checker' = checker /\ source' = "down" /\ follow' \in {"ended", "failed"}
    BY <1>3 DEF Arrives, Fails
  <2>2. FollowPlaced(follow', source', encoder', checker')
    BY <1>0, <2>1 DEF FollowPlaced
  <2> QED BY <1>1, <2>1, <2>2 DEF FollowIInv
<1> QED BY <1>2, <1>3

LEMMA SnapshotKeeps ==
  ASSUME FollowIInv, SnapshotArrives
  PROVE  FollowIInv'
<1>0. /\ log \in Seq(FollowEvents) /\ FollowPlaced(follow, source, encoder, checker)
      /\ follow = "running" => Runs(log, encoder, checker, pageLog)
  BY DEF FollowIInv, LogSound
<1>1. source = "open" /\ ~encoder.opened
  BY DEF SnapshotArrives
<1>2. follow \in {"connecting", "running"}
  BY <1>0, <1>1 DEF FollowPlaced
<1>3. follow # "running"
  <2> SUFFICES ASSUME follow = "running" PROVE FALSE
    OBVIOUS
  <2>1. encoder = Stand(encoder.cursor, encoder.revision, encoder.attempt, {}, encoder.out)
    BY <1>0 DEF Runs
  <2>2. encoder.opened = TRUE
    BY <2>1 DEF Stand
  <2> QED BY <1>1, <2>2
<1>4. checker = NotOpened
  BY <1>0, <1>2, <1>3 DEF FollowPlaced
<1>5. PICK n : n = Len(log)
  OBVIOUS
<1>6. n \in Nat /\ n \in 0..Len(log) /\ 0 \in Nat
  BY <1>0, <1>5
<1>7. PICK o : o = OpeningOf(log, n)
  OBVIOUS
<1>8. o \in FollowAttempts /\ o = Opening(n) /\ ShownRight(log, n, o)
  BY <1>0, <1>6, <1>7, OpeningIs, OpeningFacts, OpeningShown
<1>9. PICK p : p = OpenLegacy(n)
  OBVIOUS
<1>10. Arrives(p)
  BY <1>5, <1>9 DEF SnapshotArrives
<1>11. p.ok => \E out : p = Stand(n, 0, o, {}, out) /\ AllPushed(NotOpened, out) = Stand(n, 0, o, {}, <<>>)
  BY <1>6, <1>8, <1>9, SnapshotTogether
<1>12. p.ok => \E m \in 0..Len(log) : \E r \in Nat : \E a, out :
                 /\ p = Stand(m, r, a, {}, out) /\ AllPushed(checker, out) = Stand(m, r, a, {}, <<>>)
                 /\ ShownRight(log, m, a)
  BY ONLY <1>4, <1>6, <1>8, <1>11
<1> QED BY <1>1, <1>2, <1>10, <1>12, ArrivalKeeps

LEMMA EventKeeps ==
  ASSUME FollowIInv, NEW lost \in 0..1, EventArrives(lost)
  PROVE  FollowIInv'
<1>0. /\ LogSound(log, agent) /\ log \in Seq(FollowEvents) /\ FollowPlaced(follow, source, encoder, checker)
      /\ follow = "running" => Runs(log, encoder, checker, pageLog)
  BY DEF FollowIInv, LogSound
<1>1. source = "open" /\ encoder.opened /\ encoder.cursor + 1 + lost <= Len(log)
  BY DEF EventArrives
<1>2. follow \in {"connecting", "running"}
  BY <1>0, <1>1 DEF FollowPlaced
<1>3. follow = "running"
  <2> SUFFICES ASSUME follow = "connecting" PROVE FALSE
    BY <1>2
  <2>1. encoder = NotOpened
    BY <1>0, <1>1 DEF FollowPlaced
  <2>2. NotOpened.opened = FALSE
    BY DEF NotOpened
  <2> QED BY <1>1, <2>1, <2>2
<1>4. PICK n \in 0..Len(log) : \E r \in Nat : \E a \in FollowAttempts : \E out :
        /\ encoder = Stand(n, r, a, {}, out) /\ checker = Stand(n, r, a, {}, <<>>)
        /\ ShownRight(log, n, a) /\ a.after <= n /\ pageLog = [i \in 1..n |-> log[i]]
  BY <1>0, <1>3, RunsUnfolded
<1>5. PICK r \in Nat : \E a \in FollowAttempts : \E out :
        /\ encoder = Stand(n, r, a, {}, out) /\ checker = Stand(n, r, a, {}, <<>>)
        /\ ShownRight(log, n, a) /\ a.after <= n /\ pageLog = [i \in 1..n |-> log[i]]
  BY <1>4
<1>6. PICK a \in FollowAttempts : \E out :
        /\ encoder = Stand(n, r, a, {}, out) /\ checker = Stand(n, r, a, {}, <<>>)
        /\ ShownRight(log, n, a) /\ a.after <= n /\ pageLog = [i \in 1..n |-> log[i]]
  BY <1>5
<1>7. PICK out :
        /\ encoder = Stand(n, r, a, {}, out) /\ checker = Stand(n, r, a, {}, <<>>)
        /\ ShownRight(log, n, a) /\ a.after <= n /\ pageLog = [i \in 1..n |-> log[i]]
  BY <1>6
<1>8. encoder.cursor = n /\ n \in Nat
  BY <1>7 DEF Stand
<1>9. PICK seq : seq = n + 1 + lost
  OBVIOUS
<1>10. PICK p : p = PushLegacy(Stand(n, r, a, {}, out), seq)
  OBVIOUS
<1>11. Arrives(p)
  <2>1. Arrives(PushLegacy(encoder, encoder.cursor + 1 + lost))
    BY DEF EventArrives
  <2> QED BY <1>7, <1>8, <1>9, <1>10, <2>1
<1>12. ASSUME p.ok
       PROVE  \E m \in 0..Len(log) : \E q \in Nat : \E b, o :
                /\ p = Stand(m, q, b, {}, o) /\ AllPushed(checker, o) = Stand(m, q, b, {}, <<>>)
                /\ ShownRight(log, m, b)
  <2>1. seq = n + 1
    BY <1>10, <1>12, PushSkips
  <2>2. n + 1 \in 1..Len(log) /\ n + 1 \in 0..Len(log)
    <3>1. Len(log) \in Nat /\ n + 1 + lost <= Len(log)
      BY <1>0, <1>1, <1>8
    <3> QED BY <1>8, <1>9, <2>1, <3>1
  <2>3. PICK e : e = log[n + 1]
    OBVIOUS
  <2>4. e \in FollowEvents
    BY <1>0, <2>2, <2>3
  <2>5. PICK b : b = AttemptAfter(a, e, n)
    OBVIOUS
  <2>6. ShownRight(log, n + 1, b)
    BY <1>0, <1>7, <1>8, <2>2, <2>3, <2>5, ShownNext
  <2>7. Together(p, checker, n, AttemptAfter(a, e, n))
    BY <1>7, <1>8, <1>10, <1>12, <2>1, <2>3, <2>4, PushTogether
  <2>8. PICK q \in Nat : \E o : /\ p = Stand(n + 1, q, b, {}, o)
                                /\ AllPushed(checker, o) = Stand(n + 1, q, b, {}, <<>>)
    BY <2>5, <2>7 DEF Together
  <2>9. PICK o : p = Stand(n + 1, q, b, {}, o) /\ AllPushed(checker, o) = Stand(n + 1, q, b, {}, <<>>)
    BY <2>8
  <2> QED BY ONLY <2>2, <2>6, <2>9, <2>8
<1> QED BY <1>1, <1>2, <1>11, <1>12, ArrivalKeeps

\* The invariant of the follow.
THEOREM FollowInvariantHolds == FollowSpec => []FollowIInv
<1>1. FollowInit => FollowIInv
  <2> SUFFICES ASSUME FollowInit PROVE FollowIInv
    OBVIOUS
  <2>1. LogSound(log, agent)
    <3>1. log = <<>> /\ log \in Seq(FollowEvents) /\ Len(log) = 0
      BY DEF FollowInit
    <3>2. agent \in Agents
      BY DEF FollowInit, Agents
    <3>3. 1..0 = {}
      OBVIOUS
    <3> QED BY <3>1, <3>2, <3>3 DEF LogSound, PositionsReached, TurnsNew, StepsNew, ChunksInSteps, StepOpen
  <2>2. FollowPlaced(follow, source, encoder, checker)
    BY DEF FollowInit, FollowPlaced, NotOpened
  <2> QED BY <2>1, <2>2 DEF FollowIInv, FollowInit
<1>2. FollowIInv /\ [FollowNext]_followVars => FollowIInv'
  <2> SUFFICES ASSUME FollowIInv, [FollowNext]_followVars PROVE FollowIInv'
    OBVIOUS
  <2>1. CASE AgentActs
    BY <2>1, AgentKeeps
  <2>2. CASE OpenSource \/ BootstrapTimeout \/ FollowAgain \/ \E transient \in BOOLEAN : SourceFails(transient)
    BY <2>2, OpenKeeps
  <2>3. CASE SnapshotArrives
    BY <2>3, SnapshotKeeps
  <2>4. CASE \E lost \in 0..1 : EventArrives(lost)
    BY <2>4, EventKeeps
  <2>5. CASE UNCHANGED followVars
    BY <2>5 DEF followVars, FollowIInv
  <2> QED BY <2>1, <2>2, <2>3, <2>4, <2>5 DEF FollowNext
<1> QED BY <1>1, <1>2, PTL DEF FollowSpec

\* A page that follows a session of an older host is shown what the carrier holds, which is
\* what a page that follows anew is shown; the hub takes every frame the carrier makes.
THEOREM FollowIsSound == FollowSpec => []FollowSound
<1>1. FollowIInv => FollowSound
  <2> SUFFICES ASSUME FollowIInv PROVE FollowSound
    OBVIOUS
  <2>1. FramesAccepted
    BY DEF FollowIInv, FollowPlaced, FramesAccepted
  <2>2. ASSUME follow = "running"
        PROVE  /\ pageLog = [i \in 1..checker.cursor |-> log[i]]
               /\ checker.cursor = encoder.cursor /\ checker.revision = encoder.revision
               /\ checker.attempt = encoder.attempt
    <3>1. Runs(log, encoder, checker, pageLog)
      BY <2>2 DEF FollowIInv
    <3>2. checker = Stand(encoder.cursor, encoder.revision, encoder.attempt, {}, <<>>)
      BY <3>1 DEF Runs
    <3>3. /\ checker.cursor = encoder.cursor /\ checker.revision = encoder.revision
          /\ checker.attempt = encoder.attempt
      BY <3>2 DEF Stand
    <3> QED BY <3>1, <3>3 DEF Runs
  <2>3. SameAfterReopen
    <3> SUFFICES ASSUME follow = "running", NEW now, now = encoder.attempt, NEW new, new = Opening(encoder.cursor)
                 PROVE  IF now # NoAttempt THEN now.pos = new.pos /\ now.next = new.next
                        ELSE new # NoAttempt =>
                               \E i \in new.id..encoder.cursor : log[i].type \in {"turn/end", "step/end"}
      BY DEF SameAfterReopen
    <3>1. ShownRight(log, encoder.cursor, now)
      BY DEF FollowIInv, Runs
    <3>2. new = OpeningOf(log, encoder.cursor)
      BY OpeningIs
    <3> QED BY <3>1, <3>2 DEF ShownRight, EndsAt
  <2> QED BY <2>1, <2>2, <2>3 DEF FollowSound, PageFollows
<1> QED BY <1>1, FollowInvariantHolds, PTL
=============================================================================
