----------------------------- MODULE HubFollow -----------------------------
(***************************************************************************)
(* session/follow of a session that runs on an older host: the carrier     *)
(* turns the durable chunks of the old log into the transient frames of    *)
(* the present protocol (pushLegacy), the hub checks these frames          *)
(* (pushCurrent) on one stream per follow and tries again until the first  *)
(* snapshot, never after it.                                               *)
(***************************************************************************)
EXTENDS Integers, Sequences, FiniteSets, SequencesExt

CONSTANTS MaxLog, MaxTurns, MaxSteps,    \* bounds of the log
          MaxAssistantChunks, MaxFollows

ASSUME FollowAssumption ==
  {MaxLog, MaxTurns, MaxSteps, MaxAssistantChunks, MaxFollows} \subseteq Nat

VARIABLES
  log, agent,     \* the durable events of the session, and where its agent stands
  source,         \* the host's stream: down, open
  encoder,        \* of the carrier, one per stream
  checker,        \* of the hub, one per follow
  follow,         \* connecting, running, or how it ended
  pageLog,        \* the durable events the page has
  follows

followVars == <<log, agent, source, encoder, checker, follow, pageLog, follows>>

NoAttempt == [id |-> 0, pos |-> <<0, 0>>, after |-> 0, next |-> 0]
NotOpened == [opened |-> FALSE, ok |-> TRUE, cursor |-> 0, revision |-> 0,
           attempt |-> NoAttempt, settled |-> {}, out |-> <<>>]

Transient(type, enc, kind, seq) ==
  [type |-> type, id |-> enc.attempt.id, revision |-> enc.revision, index |-> enc.attempt.next,
   pos |-> enc.attempt.pos, after |-> enc.attempt.after, kind |-> kind, seq |-> seq]

-----------------------------------------------------------------------------
(* The old log in the present protocol: each step adds its frames to out. *)

Abandoned(enc) ==
  IF enc.attempt = NoAttempt THEN enc
  ELSE LET e == [enc EXCEPT !.revision = @ + 1] IN
       [e EXCEPT !.attempt = NoAttempt, !.out = Append(@, Transient("end", e, "abandoned", 0))]

FollowStarted(enc, pos) ==
  IF enc.attempt # NoAttempt THEN enc
  ELSE LET e == [enc EXCEPT !.revision = @ + 1,
                   !.attempt = [id |-> enc.cursor + 1, pos |-> pos, after |-> enc.cursor, next |-> 0]]
       IN  [e EXCEPT !.out = Append(@, Transient("start", e, "none", 0))]

ChunkAdded(enc) ==
  LET e == [enc EXCEPT !.revision = @ + 1] IN
  IF enc.attempt.next >= MaxAssistantChunks THEN [enc EXCEPT !.ok = FALSE]
  ELSE [e EXCEPT !.attempt.next = @ + 1, !.out = Append(@, Transient("chunk", e, "none", 0))]

Passed(enc, seq) == [enc EXCEPT !.cursor = seq, !.out = Append(@, [type |-> "event", seq |-> seq])]

IsSettlement(event) == event.type \in {"message", "attempt"}
Matches(event, attempt) == event.pos = attempt.pos /\ (event.type = "message" => event.op = "append")

\* Variant, not the code: the end of the attempt is told before its message.
SettledEarly(enc, event, seq) ==
  IF enc.attempt = NoAttempt THEN Passed(enc, seq)
  ELSE LET e == [enc EXCEPT !.revision = @ + 1] IN
       Passed([e EXCEPT !.attempt = NoAttempt,
                        !.out = Append(@, Transient("end", e, event.type, seq))], seq)

Settled(enc, event, seq) ==
  LET p == Passed(enc, seq) e == [p EXCEPT !.revision = @ + 1] IN
  IF enc.attempt = NoAttempt THEN p
  ELSE IF ~Matches(event, enc.attempt) THEN Abandoned(p)
  ELSE [e EXCEPT !.attempt = NoAttempt, !.out = Append(@, Transient("end", e, event.type, seq))]

Ends(event, attempt) ==
  \/ event.type \in {"turn/end", "step/end"}
  \/ (event.type = "turn/start" /\ event.pos[1] # attempt.pos[1])
  \/ (event.type = "step/start" /\ event.pos # attempt.pos)

\* pushLegacy of an event; the sequence must not skip.
PushLegacy(enc0, seq) ==
  LET enc == [enc0 EXCEPT !.out = <<>>]
      event == log[seq]
      moved == IF event.pos # enc.attempt.pos THEN Abandoned(enc) ELSE enc
  IN IF seq # enc.cursor + 1 THEN [enc EXCEPT !.ok = FALSE]
     ELSE CASE event.type = "chunk" -> Passed(ChunkAdded(FollowStarted(moved, event.pos)), seq)
            [] IsSettlement(event)  -> Settled(enc, event, seq)
            [] Ends(event, enc.attempt) -> Passed(Abandoned(enc), seq)
            [] OTHER -> Passed(enc, seq)

\* openingAttempt: the chunks at the end of the records that nothing has settled.
Opening(n) ==
  LET breaks == {i \in 1..n : log[i].type \in {"message", "attempt", "turn/start", "step/start"}}
      from == IF breaks = {} THEN 0 ELSE CHOOSE i \in breaks : \A j \in breaks : j <= i
      chunks == {i \in from + 1..n : log[i].type = "chunk"}
      last == CHOOSE i \in chunks : \A j \in chunks : j <= i
      same == {i \in chunks : \A j \in chunks : j >= i => log[j].pos = log[last].pos}
  IN IF chunks = {} THEN NoAttempt
     ELSE [id |-> CHOOSE i \in same : \A j \in same : i <= j, pos |-> log[last].pos,
           after |-> n, next |-> Cardinality(same)]

\* pushLegacy of the snapshot.
OpenLegacy(n) ==
  LET attempt == Opening(n) IN
  [NotOpened EXCEPT !.opened = TRUE, !.cursor = n, !.attempt = attempt,
                 !.ok = attempt.next <= MaxAssistantChunks,
                 !.out = <<[type |-> "snapshot", cursor |-> n, attempt |-> attempt]>>]

-----------------------------------------------------------------------------
(* What the hub lets pass. *)

\* validateCurrentAssistantFrame.
ValidTransient(c, f) ==
  /\ f.revision = c.revision + 1
  /\ f.type = "start" => c.attempt = NoAttempt
  /\ f.type \in {"chunk", "end"} => c.attempt.id = f.id /\ f.index = c.attempt.next
  /\ f.type = "chunk" => c.attempt.next < MaxAssistantChunks

\* pushCurrent of an assistant-stream frame; settled is attempt.pending.
TransientTaken(c, f) ==
  LET d == [c EXCEPT !.revision = f.revision] IN
  IF ~ValidTransient(c, f) THEN [c EXCEPT !.ok = FALSE]
  ELSE CASE f.type = "start" ->
         [d EXCEPT !.attempt = [id |-> f.id, pos |-> f.pos, after |-> f.after, next |-> 0],
                   !.settled = {}]
       [] f.type = "chunk" -> [d EXCEPT !.attempt.next = @ + 1]
       [] OTHER ->
         [d EXCEPT !.attempt = NoAttempt, !.settled = {},
                   !.ok = IF f.kind = "abandoned" THEN c.settled = {} ELSE <<f.seq, f.kind>> \in c.settled]

EventTaken(c, seq) ==
  LET event == log[seq] IN
  IF seq # c.cursor + 1 THEN [c EXCEPT !.ok = FALSE]
  ELSE [c EXCEPT !.cursor = seq,
          !.settled = IF IsSettlement(event) /\ c.attempt # NoAttempt /\ seq > c.attempt.after
                           /\ Matches(event, c.attempt)
                      THEN @ \cup {<<seq, event.type>>} ELSE @]

\* pushCurrent; the first frame must be a snapshot and no other may.
PushCurrent(c, f) ==
  IF ~c.ok THEN c
  ELSE IF c.opened # (f.type # "snapshot") THEN [c EXCEPT !.ok = FALSE]
  ELSE CASE f.type = "snapshot" ->
         [c EXCEPT !.opened = TRUE, !.cursor = f.cursor, !.attempt = f.attempt,
                   !.ok = f.attempt.next <= MaxAssistantChunks]
       [] f.type = "event" -> EventTaken(c, f.seq)
       [] OTHER -> TransientTaken(c, f)

-----------------------------------------------------------------------------
(* The session of the old host. *)

Logged(type, op) ==
  LET t == agent.turn s == agent.step IN
  /\ Len(log) < MaxLog
  /\ agent' = CASE type = "turn/start" -> [turn |-> t + 1, step |-> 0, phase |-> "turn"]
                [] type = "step/start" -> [turn |-> t, step |-> s + 1, phase |-> "step"]
                [] type = "message"    -> [agent EXCEPT !.phase = "settled"]
                [] type = "step/end"   -> [agent EXCEPT !.phase = "turn"]
                [] type = "turn/end"   -> [agent EXCEPT !.phase = "idle"]
                [] OTHER               -> agent
  /\ log' = Append(log, [type |-> type, pos |-> <<agent'.turn, agent'.step>>, op |-> op])
  /\ UNCHANGED <<source, encoder, checker, follow, pageLog, follows>>

AgentActs ==
  \/ agent.phase = "idle" /\ agent.turn < MaxTurns /\ Logged("turn/start", "none")
  \/ agent.phase = "turn" /\ agent.step < MaxSteps /\ Logged("step/start", "none")
  \/ agent.phase = "step" /\ Logged("chunk", "none")
  \/ agent.phase = "step" /\ \E op \in {"append", "other"} : Logged("message", op)
  \/ agent.phase = "step" /\ Logged("attempt", "none")
  \/ agent.phase \in {"step", "settled"} /\ Logged("step/end", "none")
  \/ agent.phase # "idle" /\ Logged("turn/end", "none")

-----------------------------------------------------------------------------
(* #singleHostStream. *)

OpenSource ==
  /\ follow = "connecting" /\ source = "down"
  /\ source' = "open" /\ encoder' = NotOpened
  /\ UNCHANGED <<log, agent, checker, follow, pageLog, follows>>

\* A failure: only before the snapshot, and only a transient one, is tried again.
Fails(transient) ==
  /\ source' = "down"
  /\ follow' = IF follow = "running" THEN "ended" ELSE IF transient THEN follow ELSE "failed"

SourceFails(transient) ==
  /\ follow = "connecting" \/ source = "open"
  /\ follow \in {"connecting", "running"}
  /\ Fails(transient)
  /\ UNCHANGED <<log, agent, encoder, checker, pageLog, follows>>

\* The next frame of the host passes the carrier and the hub; a lost one shows as a
\* sequence that skips.
Arrives(pushed) ==
  LET taken == FoldLeft(PushCurrent, checker, pushed.out) IN
  /\ encoder' = pushed
  /\ IF pushed.ok /\ taken.ok
     THEN /\ checker' = taken
          /\ pageLog' = [i \in 1..taken.cursor |-> log[i]]
          /\ follow' = "running"
          /\ UNCHANGED source
     ELSE /\ checker' = IF pushed.ok THEN taken ELSE checker
          /\ Fails(FALSE)
          /\ UNCHANGED pageLog
  /\ UNCHANGED <<log, agent, follows>>

SnapshotArrives ==
  /\ source = "open" /\ ~encoder.opened
  /\ Arrives(OpenLegacy(Len(log)))

EventArrives(lost) ==
  /\ source = "open" /\ encoder.opened /\ encoder.cursor + 1 + lost <= Len(log)
  /\ Arrives(PushLegacy(encoder, encoder.cursor + 1 + lost))

\* No snapshot in time.
BootstrapTimeout ==
  /\ follow = "connecting"
  /\ follow' = "failed" /\ source' = "down"
  /\ UNCHANGED <<log, agent, encoder, checker, pageLog, follows>>

\* The page leaves, or follows again after the end.
FollowAgain ==
  /\ follow # "connecting" /\ follows < MaxFollows
  /\ follows' = follows + 1 /\ follow' = "connecting" /\ source' = "down"
  /\ checker' = NotOpened /\ pageLog' = <<>>
  /\ UNCHANGED <<log, agent, encoder>>

-----------------------------------------------------------------------------
FollowInit ==
  /\ log = <<>> /\ agent = [turn |-> 0, step |-> 0, phase |-> "idle"]
  /\ source = "down" /\ encoder = NotOpened /\ checker = NotOpened
  /\ follow = "connecting" /\ pageLog = <<>> /\ follows = 1

FollowNext ==
  \/ AgentActs \/ OpenSource \/ SnapshotArrives \/ BootstrapTimeout \/ FollowAgain
  \/ \E transient \in BOOLEAN : SourceFails(transient)
  \/ \E lost \in 0..1 : EventArrives(lost)

FollowSpec == FollowInit /\ [][FollowNext]_followVars

-----------------------------------------------------------------------------
(* What makes it correct. *)

\* The hub takes every frame the carrier makes of the old log, and only a lost event
\* or the bound on chunks ends a follow from within.
FramesAccepted == checker.ok

\* A page that follows has the log up to a point, without a gap, and is shown the
\* attempt that the carrier holds.
PageFollows ==
  follow = "running" =>
    /\ pageLog = [i \in 1..checker.cursor |-> log[i]]
    /\ checker.cursor = encoder.cursor /\ checker.revision = encoder.revision
    /\ checker.attempt = encoder.attempt

\* A page that follows anew at this point is shown the attempt that a page that stayed
\* is shown; only one whose step or turn ended with nothing to settle it comes back.
SameAfterReopen ==
  follow = "running" =>
    LET now == encoder.attempt new == Opening(encoder.cursor) IN
    IF now # NoAttempt THEN now.pos = new.pos /\ now.next = new.next
    ELSE new # NoAttempt => \E i \in new.id..encoder.cursor : log[i].type \in {"turn/end", "step/end"}

FollowSound == FramesAccepted /\ PageFollows /\ SameAfterReopen
=============================================================================
