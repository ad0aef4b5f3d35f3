--------------------------- MODULE AssistantStream ---------------------------
(***************************************************************************)
(* The mirror of the assistants' transient output (MobileAssistantStream   *)
(* of runtime-interface/src/mobile-assistant-stream.js) between the agents *)
(* and the phones.  An agent numbers its frames from 1; a session can get  *)
(* a new agent, whose numbers start again, while the old one still emits.  *)
(* The global hook feeds every frame to the mirror at once; history reads  *)
(* bring a baseline that was captured some time ago.  The mirror maps both *)
(* to one public revision per session, and keeps the attempts under way.   *)
(***************************************************************************)
EXTENDS Integers, Sequences, FiniteSets

CONSTANTS Sessions,
          None,               \* no attempt
          MaxActiveAttempts,  \* attempts under way in all sessions
          MaxRetired,         \* attempts a session remembers as over
          MaxBytes,           \* cached bytes of one attempt
          FixedBytes,         \* size of an attempt without chunks
          ChunkSizes,
          MaxAgents,          \* bound: agents a session has one after another
          MaxAttempts,        \* bound: attempts of a session
          MaxRevision         \* bound: frames of one agent

ASSUME MirrorAssumption ==
  /\ IsFiniteSet(Sessions)
  /\ MaxActiveAttempts \in Nat \ {0} /\ MaxRetired \in Nat \ {0}
  /\ MaxBytes \in Nat \ {0}
  /\ FixedBytes \in Nat \ {0} /\ ChunkSizes \subseteq Nat \ {0}
  /\ MaxAgents \in Nat \ {0} /\ MaxAttempts \in Nat /\ MaxRevision \in Nat
  /\ None \notin [id : Nat \X Nat, nextIndex : Nat, bytes : Nat]

VARIABLES agents,          \* the frames every agent of a session has emitted
          attached,        \* the global hook is installed
          mirror,          \* the state the mirror keeps per session
          activeAttempts,  \* its counter
          reading,         \* a history read under way: its captured baseline
          phone            \* the copy of a subscribed phone

vars == <<agents, attached, mirror, activeAttempts, reading, phone>>

\* An attempt is named after the agent and the frame that started it.
Ids == Nat \X Nat
Attempts == [id : Ids, nextIndex : Nat, bytes : Nat]
AttemptOrNone == Attempts \cup {None}
Frames == [type : {"start", "chunk", "end"}, id : Ids, revision : Nat,
           index : Nat, size : Nat, total : Nat]
Baselines == [revision : Nat, active : AttemptOrNone]
Mirrors == [offset : Nat, lastRaw : Nat, public : Nat, active : AttemptOrNone,
            retired : Seq(Ids)]

\* A reader who knows nothing of a session, or reads nothing.
Unknown == [revision |-> -1, active |-> None]

NewState == [offset |-> 0, lastRaw |-> 0, public |-> 0, active |-> None,
             retired |-> <<>>]

TypeOK ==
  /\ agents \in [Sessions -> Seq(Seq(Frames))]
  /\ attached \in BOOLEAN
  /\ mirror \in [Sessions -> Mirrors]
  /\ activeAttempts \in Nat
  /\ reading \in [Sessions -> Baselines \cup {Unknown}]
  /\ phone \in [Sessions -> Baselines \cup {Unknown}]

Init ==
  /\ agents = [s \in Sessions |-> << <<>> >>]
  /\ attached = FALSE
  /\ mirror = [s \in Sessions |-> NewState]
  /\ activeAttempts = 0
  /\ reading = [s \in Sessions |-> Unknown]
  /\ phone = [s \in Sessions |-> Unknown]

-----------------------------------------------------------------------------
(* The agents.                                                              *)

\* What an agent that emitted the frames log has under way at revision r (a
\* frame's total is not sent: it is what its attempt has come to).
SnapshotAt(log, r) ==
  IF r = 0 \/ log[r].type = "end" THEN None
  ELSE [id |-> log[r].id, bytes |-> log[r].total,
        nextIndex |-> IF log[r].type = "start" THEN 0 ELSE log[r].index + 1]

IdsOf(log) == {log[i].id : i \in DOMAIN log}
Started(s) == UNION {IdsOf(agents[s][g]) : g \in DOMAIN agents[s]}

UnderWay(log) == SnapshotAt(log, Len(log))
Current(log) == [revision |-> Len(log), active |-> UnderWay(log)]

-----------------------------------------------------------------------------
(* ingest                                                                   *)

Restarting(m, f) == f.type = "start" /\ f.revision = 1 /\ m.lastRaw > 0

Retired(m) == {m.retired[i] : i \in DOMAIN m.retired}

Under(m, id) == m.active # None /\ m.active.id = id

Seen(m, id) == Under(m, id) \/ id \in Retired(m)

\* Frames that change nothing and raise nothing, before the revision is checked.
Ignored(m, f) ==
  \/ f.type # "start" /\ m.active # None /\ ~Under(m, f.id)
  \/ Restarting(m, f) /\ Seen(m, f.id)
  \/ f.revision <= m.lastRaw /\ ~Restarting(m, f)

\* The attempt of a frame that is applied after the attempt a.
Extended(a, f) ==
  CASE f.type = "start" -> [id |-> f.id, nextIndex |-> 0, bytes |-> f.size]
    [] f.type = "chunk" -> [a EXCEPT !.nextIndex = @ + 1, !.bytes = @ + f.size]
    [] f.type = "end" -> None

Fits(a) == a # None => a.bytes <= MaxBytes

Expected(m, f) == IF Restarting(m, f) THEN 1 ELSE m.lastRaw + 1

\* Variant, not the code: continuity is not looked at.
AnyRevision(m, f, count) ==
  /\ f.type = "start" => m.active # None \/ count < MaxActiveAttempts
  /\ f.type # "start" => m.active # None
  /\ Fits(Extended(m.active, f))

\* The checks a frame passes before the state changes; one that fails them is
\* reported as an error of its session (or, without an attempt, dropped).
Admitted(m, f, count) ==
  /\ f.revision = Expected(m, f)
  /\ f.type = "start" => m.active # None \/ count < MaxActiveAttempts
  /\ f.type # "start" => m.active # None /\ f.index = m.active.nextIndex
  /\ Fits(Extended(m.active, f))

\* #retire: the attempt under way is over; the oldest is forgotten.
Retire(m) ==
  IF m.active = None \/ m.active.id \in Retired(m) THEN m.retired
  ELSE LET all == Append(m.retired, m.active.id)
       IN  SubSeq(all, IF Len(all) > MaxRetired THEN 2 ELSE 1, Len(all))

RetiredAfter(m, f) == IF f.type = "chunk" THEN m.retired ELSE Retire(m)

\* Variant, not the code: the offset of the old agent is kept.
OffsetKept(m, f) ==
  [offset |-> m.offset, lastRaw |-> f.revision, public |-> m.offset + f.revision,
   active |-> Extended(m.active, f), retired |-> RetiredAfter(m, f)]

Ingested(m, f) ==
  LET offset == IF Restarting(m, f) THEN m.public ELSE m.offset
  IN  [offset |-> offset, lastRaw |-> f.revision, public |-> offset + f.revision,
       active |-> Extended(m.active, f), retired |-> RetiredAfter(m, f)]

\* The counter after the attempt under way of one session changed.
Counted(was, now, count) ==
  CASE was = None /\ now # None -> count + 1
    [] was # None /\ now = None -> count - 1
    [] OTHER -> count

-----------------------------------------------------------------------------
(* baseline                                                                 *)

RestartBaseline(m, b) == b.active # None /\ b.revision = 1 /\ m.lastRaw > 0

\* Variant, not the code: an attempt that is over can come back.
InstallsAgain(m, b, count) ==
  /\ m.active = None
  /\ m.public = 0 \/ b.revision > m.lastRaw \/ RestartBaseline(m, b)
  /\ b.active # None => count < MaxActiveAttempts /\ Fits(b.active)

\* A baseline can be installed only while no attempt is under way, and only if
\* it is news; an attempt that is over stays over.
News(m, b) ==
  /\ m.active = None
  /\ \/ m.public = 0
     \/ /\ b.active # None => b.active.id \notin Retired(m)
        /\ b.revision > m.lastRaw \/ RestartBaseline(m, b)

\* It is, unless the limits refuse it.
Installs(m, b, count) ==
  /\ News(m, b)
  /\ b.active # None => count < MaxActiveAttempts /\ Fits(b.active)

Installed(m, b) ==
  LET offset == IF RestartBaseline(m, b) THEN m.public ELSE m.offset
  IN  [m EXCEPT !.offset = offset, !.lastRaw = b.revision,
                !.public = offset + b.revision, !.active = b.active]

\* What the reader is answered, and what a phone that subscribes is sent.
StateBaseline(m) == [revision |-> m.public, active |-> m.active]

-----------------------------------------------------------------------------
(* The phone applies a start, and a chunk or an end that continues what it   *)
(* has; another frame makes it forget its copy until the next baseline.      *)

PhoneAfter(p, f, revision) ==
  IF \/ f.type = "start"
     \/ p.active # None /\ p.active.id = f.id /\ p.revision + 1 = revision
  THEN [revision |-> revision, active |-> Extended(p.active, f)]
  ELSE Unknown

-----------------------------------------------------------------------------
\* The hook, once attached, ingests a frame as it is emitted.  An error reaches
\* the phones as a notice and nobody else: the agent goes on.
Ingest(s, f) ==
  IF attached /\ ~Ignored(mirror[s], f) /\ Admitted(mirror[s], f, activeAttempts)
  THEN LET m == Ingested(mirror[s], f) IN
       /\ mirror' = [mirror EXCEPT ![s] = m]
       /\ activeAttempts' = Counted(mirror[s].active, m.active, activeAttempts)
       /\ phone' = [phone EXCEPT ![s] = PhoneAfter(@, f, m.public)]
  ELSE UNCHANGED <<mirror, activeAttempts, phone>>

Emit(s, g, f) ==
  /\ Len(agents[s][g]) < MaxRevision
  /\ agents' = [agents EXCEPT ![s][g] = Append(@, f)]
  /\ Ingest(s, f)
  /\ UNCHANGED <<attached, reading>>

NewFrame(log, type, id, index, size, total) ==
  [type |-> type, id |-> id, revision |-> Len(log) + 1, index |-> index,
   size |-> size, total |-> total]

\* Only the newest agent starts attempts; an older one may still finish its own.
EmitStart(s, g) ==
  LET log == agents[s][g] IN
  /\ g = Len(agents[s]) /\ UnderWay(log) = None
  /\ Cardinality(Started(s)) < MaxAttempts
  /\ Emit(s, g, NewFrame(log, "start", <<g, Len(log) + 1>>, 0, FixedBytes, FixedBytes))

EmitChunk(s, g) ==
  LET log == agents[s][g]  a == UnderWay(log) IN
  /\ a # None
  /\ \E size \in ChunkSizes :
       Emit(s, g, NewFrame(log, "chunk", a.id, a.nextIndex, size, a.bytes + size))

EmitEnd(s, g) ==
  LET log == agents[s][g]  a == UnderWay(log) IN
  /\ a # None
  /\ Emit(s, g, NewFrame(log, "end", a.id, a.nextIndex, 0, a.bytes))

\* The session gets another agent.
Recreate(s) ==
  /\ Len(agents[s]) < MaxAgents
  /\ agents' = [agents EXCEPT ![s] = Append(@, <<>>)]
  /\ UNCHANGED <<attached, mirror, activeAttempts, reading, phone>>

Attach == ~attached /\ attached' = TRUE
          /\ UNCHANGED <<agents, mirror, activeAttempts, reading, phone>>

\* A history read captures the state of the newest agent ...
Capture(s) ==
  /\ reading[s] = Unknown
  /\ reading' = [reading EXCEPT ![s] = Current(agents[s][Len(agents[s])])]
  /\ UNCHANGED <<agents, attached, mirror, activeAttempts, phone>>

\* ... and hands it to the mirror later.  The reader, which may be the phone,
\* gets what the mirror says, or an error.
Deliver(s) ==
  /\ reading[s] # Unknown
  /\ LET b == reading[s]
         m == IF Installs(mirror[s], b, activeAttempts) THEN Installed(mirror[s], b)
              ELSE mirror[s]
         refused == /\ News(mirror[s], b)
                    /\ ~Installs(mirror[s], b, activeAttempts)
     IN  /\ mirror' = [mirror EXCEPT ![s] = m]
         /\ activeAttempts' = Counted(mirror[s].active, m.active, activeAttempts)
         /\ \/ UNCHANGED phone
            \/ ~refused /\ phone' = [phone EXCEPT ![s] = StateBaseline(m)]
  /\ reading' = [reading EXCEPT ![s] = Unknown]
  /\ UNCHANGED <<agents, attached>>

\* A phone subscribes: it is sent the attempts under way.
Subscribe(s) ==
  /\ phone' = [phone EXCEPT ![s] = IF mirror[s].active = None THEN Unknown
                                   ELSE StateBaseline(mirror[s])]
  /\ UNCHANGED <<agents, attached, mirror, activeAttempts, reading>>

\* Variant, not the code: the counter is left alone.
DiscardedOnly(s) ==
  /\ mirror' = [mirror EXCEPT ![s] = NewState]
  /\ UNCHANGED activeAttempts

\* disposeSession: an archived session is forgotten.
Discarded(s) ==
  /\ mirror' = [mirror EXCEPT ![s] = NewState]
  /\ activeAttempts' = Counted(mirror[s].active, None, activeAttempts)

Discard(s) ==
  /\ attached
  /\ Discarded(s)
  /\ phone' = [phone EXCEPT ![s] = Unknown]
  /\ UNCHANGED <<agents, attached, reading>>

Next ==
  \/ Attach
  \/ \E s \in Sessions :
       \/ \E g \in 1..Len(agents[s]) : EmitStart(s, g) \/ EmitChunk(s, g) \/ EmitEnd(s, g)
       \/ Recreate(s) \/ Capture(s) \/ Deliver(s) \/ Subscribe(s) \/ Discard(s)

Spec == Init /\ [][Next]_vars

-----------------------------------------------------------------------------
(* What makes it correct.                                                   *)

\* The counter that guards the limit is the number of attempts under way, and
\* within the limit; the public revision is the raw one moved by the offset.
ActiveSessions == {s \in Sessions : mirror[s].active # None}
AttemptsCounted ==
  /\ activeAttempts = Cardinality(ActiveSessions)
  /\ activeAttempts <= MaxActiveAttempts

RevisionsMapped ==
  \A s \in Sessions : mirror[s].public = mirror[s].offset + mirror[s].lastRaw

\* The mirror never shows a mixture: what it holds is what some agent of the
\* session had under way at the revision the mirror has reached.
WasTrueOf(logs, revision, active) ==
  \E g \in 1..Len(logs) :
    revision <= Len(logs[g]) /\ active = SnapshotAt(logs[g], revision)

Faithful == \A s \in Sessions : WasTrueOf(agents[s], mirror[s].lastRaw, mirror[s].active)

\* Cached output stays within the limit.
CacheBounded ==
  \A s \in Sessions : Fits(mirror[s].active)

\* A phone that has reached the public revision holds exactly what the mirror
\* holds, and none is ahead of it.
PhoneAgrees ==
  \A s \in Sessions :
    /\ phone[s].revision <= mirror[s].public
    /\ phone[s].revision = mirror[s].public => phone[s].active = mirror[s].active

\* Both: from the agent to the phone nothing is made up.
MirrorSound == Faithful /\ PhoneAgrees

\* Whatever changes what the mirror shows moves its public revision up, across
\* agents and late baselines, unless the session is archived.
PublicRevisionGrows ==
  [][\A s \in Sessions :
       StateBaseline(mirror'[s]) # StateBaseline(mirror[s]) /\ mirror'[s] # NewState
         => mirror'[s].public > mirror[s].public]_vars

\* An attempt that the session remembers as over never comes back.
NoResurrection ==
  [][\A s \in Sessions :
       mirror'[s].active # None => mirror'[s].active.id \notin Retired(mirror[s])]_vars

\* The inductive invariant behind these.  An agent numbers its frames and names
\* its attempts; a baseline under way was true of some agent; what is remembered
\* as over was started, and is not what is under way.
LogsNumbered(logs) ==
  \A g \in 1..Len(logs) : \A i \in 1..Len(logs[g]) :
    LET f == logs[g][i] IN f.revision = i /\ f.id[1] = g /\ f.id[2] \in 1..i

Known(logs, id) == id[1] \in 1..Len(logs) /\ id[2] \in 1..Len(logs[id[1]])

SessionInv(logs, m, r, p) ==
  /\ LogsNumbered(logs)
  /\ m.public = m.offset + m.lastRaw
  /\ WasTrueOf(logs, m.lastRaw, m.active)
  /\ Fits(m.active)
  /\ r # Unknown => WasTrueOf(logs, r.revision, r.active)
  /\ p.revision <= m.public
  /\ p.revision = m.public => p.active = m.active
  /\ \A id \in Retired(m) : Known(logs, id)
  /\ m.active # None => m.active.id \notin Retired(m)
  /\ m.retired # <<>> => m.public > 0

IInv == TypeOK /\ AttemptsCounted /\ \A s \in Sessions : SessionInv(agents[s], mirror[s], reading[s], phone[s])

\* An error of the mirror asks for a baseline (baselineRequired): the baseline
\* of the newest agent, with nothing emitted since it was captured and room for
\* its attempt, brings the session up to date.
BaselineHeals ==
  [][\A s \in Sessions :
       LET now == Current(agents[s][Len(agents[s])]) IN
       /\ Deliver(s) /\ reading[s] = now
       /\ now.active # None
       /\ Fits(now.active) /\ activeAttempts < MaxActiveAttempts
       => mirror'[s].active = now.active]_vars
=============================================================================
