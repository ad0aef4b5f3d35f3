------------------------- MODULE SessionPersistence -------------------------
(***************************************************************************)
(* The port through which histories are imported: writes to a session wait *)
(* for each other, a write whose outcome is not known closes the session   *)
(* to all later ones, and reads go in chunks while writes go on.  Of the   *)
(* two contracts of the host's service the older one has no handles.       *)
(***************************************************************************)
EXTENDS Integers, Sequences, SequencesExt, FiniteSets

CONSTANTS Stored,                    \* session ids
          ReadChunkSize, MaxWrites   \* the code's limit of a chunk; bound: writes

ASSUME PersistenceAssumption == ReadChunkSize \in Nat \ {0} /\ MaxWrites \in Nat

VARIABLES
  contract,       \* of the service: "current" or "legacy"
  exists, stored, \* of the service: the sessions and their logs
  writes,         \* the calls of create and append, in their order
  queues,         \* the last write of a session that has not settled, 0 for none
  uncertain,      \* sessions whose last write may or may not be there
  reader          \* a call of readFrom

persVars == <<contract, exists, stored, writes, queues, uncertain, reader>>
service == <<contract, exists, stored>>

NoReader == [stage |-> "idle", id |-> {}, from |-> 0, offset |-> 0, events |-> <<>>, atLeast |-> 0]

Write(id, kind, size) ==
  [id |-> id, kind |-> kind, size |-> size, previous |-> queues[id], stage |-> "waiting",
   failed |-> FALSE, told |-> "nothing"]
EventsOf(w) == [k \in 1..writes[w].size |-> <<w, k>>]
Goes(w, stage) == writes' = [writes EXCEPT ![w].stage = stage]
At(w, stage) == w \in DOMAIN writes /\ writes[w].stage = stage

-----------------------------------------------------------------------------
(* Writes. *)

\* create or append is called; some batches are empty.
enqueueWrite(id, kind, size) ==
  /\ Len(writes) < MaxWrites
  /\ IF id \in uncertain
     THEN /\ writes' = Append(writes, [Write(id, kind, size) EXCEPT !.stage = "settled", !.told = "unknown"])
          /\ UNCHANGED queues
     ELSE /\ writes' = Append(writes, Write(id, kind, size))
          /\ queues' = [queues EXCEPT ![id] = Len(writes) + 1]
  /\ UNCHANGED <<service, uncertain, reader>>

SettleWrite(w, told) ==
  LET id == writes[w].id IN
  /\ writes' = [writes EXCEPT ![w].stage = "settled", ![w].told = told]
  /\ uncertain' = IF told = "unknown" THEN uncertain \cup {id} ELSE uncertain
  /\ queues' = [queues EXCEPT ![id] = IF @ = w THEN 0 ELSE @]
  /\ UNCHANGED reader

\* Variant, not the code: the turn comes with the call.
AtOnce(w) == TRUE

\* The previous one has settled, in whatever way.
Turn(w) == writes[w].previous = 0 \/ At(writes[w].previous, "settled")

BeginWrite(w) ==
  /\ At(w, "waiting") /\ Turn(w) /\ UNCHANGED service
  /\ IF writes[w].id \in uncertain THEN SettleWrite(w, "unknown")
     ELSE Goes(w, IF contract = "legacy" /\ writes[w].kind = "append" THEN "opened" ELSE "opening")
          /\ UNCHANGED <<queues, uncertain, reader>>

\* service.create or service.open: a session is made, or there for a handle.
Opens(w) ==
  /\ At(w, "opening") /\ exists[writes[w].id] = (writes[w].kind = "append")
  /\ exists' = [exists EXCEPT ![writes[w].id] = TRUE]
  /\ Goes(w, "opened") /\ UNCHANGED <<contract, stored, queues, uncertain, reader>>

\* A failure to open is known; one to create is if it is a duplicate or refused.
OpenRefused(w) == At(w, "opening") /\ SettleWrite(w, "failed") /\ UNCHANGED service

\* knownCreateFailure: any other one may have made the session.
CreateUnsure(w) ==
  /\ At(w, "opening") /\ writes[w].kind = "create" /\ SettleWrite(w, "unknown")
  /\ exists' \in {exists, [exists EXCEPT ![writes[w].id] = TRUE]}
  /\ UNCHANGED <<contract, stored>>

Adds(w, n) ==
  /\ n > 0 => exists[writes[w].id]
  /\ stored' = [stored EXCEPT ![writes[w].id] = @ \o SubSeq(EventsOf(w), 1, n)]

\* handle.append then flush, or service.append.
Appends(w) ==
  /\ At(w, "opened") /\ Adds(w, writes[w].size)
  /\ IF contract = "legacy" THEN SettleWrite(w, "ok")
     ELSE Goes(w, "closing") /\ UNCHANGED <<queues, uncertain, reader>>
  /\ UNCHANGED <<contract, exists>>

\* Of the events some are there; the handle is closed in any case.
AppendFails(w) ==
  /\ At(w, "opened") /\ (contract = "legacy" => writes[w].size > 0)
  /\ \E n \in 0..writes[w].size : Adds(w, n)
  /\ IF contract = "legacy" THEN SettleWrite(w, "unknown")
     ELSE /\ writes' = [writes EXCEPT ![w].stage = "closing", ![w].failed = TRUE]
          /\ UNCHANGED <<queues, uncertain, reader>>
  /\ UNCHANGED <<contract, exists>>

Closes(w) ==
  /\ At(w, "closing") /\ UNCHANGED service
  /\ \E closed \in BOOLEAN : SettleWrite(w, IF writes[w].failed \/ ~closed THEN "unknown" ELSE "ok")

-----------------------------------------------------------------------------
(* readFrom; inspect reads the same way, and counts. *)

Read(id, from) ==
  /\ reader.stage \in {"idle", "done"} /\ exists[id]
  /\ reader' = [NoReader EXCEPT !.stage = "reading", !.id = {id}, !.from = from, !.offset = from,
                                !.atLeast = Len(stored[id])]
  /\ UNCHANGED <<service, writes, queues, uncertain>>

ReadLog == stored[CHOOSE id \in reader.id : TRUE]
NextChunk ==
  LET limit == IF contract = "legacy" THEN Len(ReadLog) ELSE reader.offset + ReadChunkSize IN
  SubSeq(ReadLog, reader.offset + 1, IF limit < Len(ReadLog) THEN limit ELSE Len(ReadLog))

Offset(chunk) == reader.offset + Len(chunk)

\* An empty chunk is the end; the older service has all at once.
ReadsChunk ==
  /\ reader.stage = "reading"
  /\ reader' = [reader EXCEPT !.events = @ \o NextChunk, !.offset = Offset(NextChunk),
                              !.stage = IF NextChunk = <<>> \/ contract = "legacy" THEN "closing" ELSE @]
  /\ UNCHANGED <<service, writes, queues, uncertain>>

\* The handle is closed, or it fails to close, which nobody hears of.
ReadCloses ==
  /\ reader.stage = "closing" /\ reader' = [reader EXCEPT !.stage = "done"]
  /\ UNCHANGED <<service, writes, queues, uncertain>>

ReadFails ==
  /\ reader.stage = "reading" /\ reader' = NoReader
  /\ UNCHANGED <<service, writes, queues, uncertain>>

-----------------------------------------------------------------------------
PersInit ==
  /\ contract \in {"current", "legacy"} /\ exists = [id \in Stored |-> FALSE]
  /\ stored = [id \in Stored |-> <<>>] /\ writes = <<>> /\ queues = [id \in Stored |-> 0]
  /\ uncertain = {} /\ reader = NoReader

PersNext ==
  \/ \E id \in Stored, kind \in {"create", "append"}, size \in {0, 2} : enqueueWrite(id, kind, size)
  \/ \E w \in 1..MaxWrites :
       \/ BeginWrite(w) \/ Opens(w) \/ OpenRefused(w) \/ CreateUnsure(w)
       \/ Appends(w) \/ AppendFails(w) \/ Closes(w)
  \/ \E id \in Stored : \E from \in 0..Len(stored[id]) : Read(id, from)
  \/ ReadsChunk \/ ReadCloses \/ ReadFails

PersSpec == PersInit /\ [][PersNext]_persVars

-----------------------------------------------------------------------------
EventsIn(w) == {e \in ToSet(stored[writes[w].id]) : e[1] = w}

(* What a caller is told is true: all of its events are there or none; and *)
(* only when it is told so it may be a part of them.                       *)
ToldTrue ==
  \A w \in DOMAIN writes :
    /\ writes[w].told = "ok" => EventsIn(w) = ToSet(EventsOf(w))
    /\ writes[w].told = "failed" => EventsIn(w) = {}

(* Writes are not mixed, keep the order of the calls, and none follows one *)
(* whose outcome is not known.                                             *)
OneAfterAnother ==
  \A id \in Stored : \A i, j \in DOMAIN stored[id] : i < j =>
    LET v == stored[id][i][1] w == stored[id][j][1] IN
    /\ v < w \/ (v = w /\ stored[id][i][2] < stored[id][j][2])
    /\ v # w => writes[v].told = "ok"

(* A read has every event from its offset on, of those that were there     *)
(* when it began at least.                                                 *)
ReadsRun ==
  reader.stage = "done" =>
    /\ reader.events = SubSeq(ReadLog, reader.from + 1, reader.from + Len(reader.events))
    /\ reader.from + Len(reader.events) >= reader.atLeast

PersistenceSound == ToldTrue /\ OneAfterAnother /\ ReadsRun
=============================================================================
