---------------------------- MODULE SessionDelta ----------------------------
(***************************************************************************)
(* How a phone catches up with the sessions of a host over two stateless   *)
(* routes: the snapshot of all sessions' cursors, and the delta of one     *)
(* session, read from one pinned cursor backwards while the log grows.     *)
(***************************************************************************)
EXTENDS Integers, FiniteSets, FiniteSetsExt

CONSTANTS SyncSessions,
          MaxScanPages,              \* the code's limit on pages of one read
          MaxSeq, MaxSyncs           \* bounds: sequences, requests

ASSUME DeltaAssumption == {MaxScanPages, MaxSeq, MaxSyncs} \subseteq Nat

VARIABLES
  durable,       \* sequences of the events of each session's log: they only grow
  archived,      \* sessions put away
  copy,          \* of the phone: cursor and events of each session, and of which life
  due,           \* sessions the phone has to ask for
  call,          \* the request in progress
  reply,         \* the last response
  syncs          \* requests made

deltaVars == <<durable, archived, copy, due, call, reply, syncs>>

NoCall == [stage |-> "idle", kind |-> "none", session |-> {}, after |-> -1, limit |-> 0,
           fixed |-> -1, records |-> {}, pages |-> 0, more |-> FALSE,
           rows |-> <<>>, unread |-> {}, listed |-> FALSE, hidden |-> {}, followed |-> FALSE,
           then |-> <<>>]

TopOf(seqs) == IF seqs = {} THEN -1 ELSE Max(seqs)
Cursors == [s \in SyncSessions |-> TopOf(durable[s])]
Target == CHOOSE s \in call.session : TRUE

-----------------------------------------------------------------------------
(* The log and the phone. *)

LogGrows(s) ==
  /\ \E n \in TopOf(durable[s]) + 1..MaxSeq : durable' = [durable EXCEPT ![s] = @ \cup {n}]
  /\ UNCHANGED <<archived, copy, due, call, reply, syncs>>

PutAway(s) ==
  /\ archived' = archived \cup {s}
  /\ UNCHANGED <<durable, copy, due, call, reply, syncs>>

AskedCall(kind) == [NoCall EXCEPT !.stage = "body", !.kind = kind]

AskSnapshot ==
  /\ call.stage = "idle" /\ syncs < MaxSyncs
  /\ call' = [AskedCall("snapshot") EXCEPT !.then = Cursors] /\ syncs' = syncs + 1
  /\ UNCHANGED <<durable, archived, copy, due, reply>>

AskDelta(s, limit) ==
  /\ call.stage = "idle" /\ syncs < MaxSyncs /\ s \in due
  /\ call' = [AskedCall("delta") EXCEPT !.session = {s}, !.after = copy[s].cursor, !.limit = limit]
  /\ syncs' = syncs + 1
  /\ UNCHANGED <<durable, archived, copy, due, reply>>

-----------------------------------------------------------------------------
(* Responses. *)

\* What the phone does with a response.
Taken(answer) ==
  /\ reply' = answer
  /\ CASE answer.type = "delta" ->
            /\ copy' = [copy EXCEPT ![answer.session] =
                          [cursor |-> answer.through, held |-> @.held \cup answer.events, life |-> @.life]]
            /\ due' = IF answer.caughtUp THEN due \ {answer.session} ELSE due
       [] answer.type = "baseline" ->
            /\ copy' = [copy EXCEPT ![answer.session] =
                          [cursor |-> TopOf(durable[answer.session]), held |-> durable[answer.session],
                           life |-> "this"]]
            /\ due' = due \ {answer.session}
       [] answer.type = "snapshot" ->
            /\ due' = {s \in DOMAIN answer.rows : answer.rows[s] # copy[s].cursor}
            /\ UNCHANGED copy
       [] OTHER -> UNCHANGED <<copy, due>>

\* The status is left out.
Refused == [type |-> "refused"]

\* sendJson: a body that is too large is refused in its place.
Respond(answer) ==
  /\ Taken(answer) \/ Taken(Refused)
  /\ call' = NoCall
  /\ UNCHANGED <<durable, archived, syncs>>

\* The reason is left out of the model but for what it is about.
baselineRecovery(cause) == [type |-> "baseline", session |-> Target, after |-> call.after, cause |-> cause]
failureResult == Refused

\* authorizeHttpRequest, method and content type.
Unauthorized == call.stage = "body" /\ Respond(Refused)

\* readBody, decodeMobileIngress, validateDeltaRequest.
BodyRejected == call.stage = "body" /\ Respond(Refused)

Working == call.stage \notin {"idle", "abandoned"}

\* createRequestLifetime: its timer cuts every wait.
Waiting == Working
RequestTimesOut == Waiting /\ Respond(Refused)

\* The client is gone: nothing is sent.
ClientCloses ==
  /\ call.stage # "idle" /\ call' = NoCall
  /\ UNCHANGED <<durable, archived, copy, due, reply, syncs>>

\* handleJsonRequest returns on an AbortError that is not its own, and its timer is off:
\* nothing is ever sent.
StrayAbort ==
  /\ Working /\ call' = [NoCall EXCEPT !.stage = "abandoned"]
  /\ UNCHANGED <<durable, archived, copy, due, reply, syncs>>

\* The host refuses or fails, unless while a row of the snapshot is read.
HostFails == Working /\ call.stage # "rows" /\ Respond(failureResult)

-----------------------------------------------------------------------------
(* readSessionDelta. *)

\* Variant, not the code: the newest of what was found.
NewestEvents(found, limit) == {e \in found : Cardinality({d \in found : d >= e}) <= limit}

\* dedupeAndSort and slice.
Delivered(found, limit) == {e \in found : Cardinality({d \in found : d <= e}) <= limit}

DeltaOf(c) ==
  LET events == Delivered({e \in c.records : e > c.after}, c.limit)
      through == TopOf({c.after} \cup events)
  IN [type |-> "delta", session |-> Target, after |-> c.after, fixed |-> c.fixed, limit |-> c.limit,
      events |-> events, through |-> through, caughtUp |-> through >= c.fixed]

\* At what the phone has, or at the origin of the log.
CursorReached(c) == c.after >= c.fixed \/ ~c.more \/ \E e \in c.records : e <= c.after

\* Up to the next page.
WalkOn(c) ==
  IF CursorReached(c) THEN Respond(DeltaOf(c))
  ELSE IF c.pages >= MaxScanPages THEN Respond(baselineRecovery("scan-limit"))
  ELSE call' = c /\ UNCHANGED <<durable, archived, copy, due, reply, syncs>>

\* The body is there, the operation begins.
OperationBegins ==
  /\ call.stage = "body"
  /\ call' = [call EXCEPT !.stage = IF call.kind = "delta" THEN "opening" ELSE "listing"]
  /\ UNCHANGED <<durable, archived, copy, due, reply, syncs>>

\* openSessionSnapshot pins the cursor and has the newest records.
SnapshotOpens ==
  /\ call.stage = "opening"
  /\ LET log == durable[Target] IN
     IF call.after > TopOf(log) THEN Respond(baselineRecovery("regressed"))
     ELSE \E records \in {{e \in log : e >= from} : from \in log} \cup {log} :
            \E more \in {TRUE, records # log} :
              (records = {} => ~more) /\
              WalkOn([call EXCEPT !.stage = "paging", !.fixed = TopOf(log), !.records = records,
                                  !.more = more])

\* No snapshot, one that is cut short or one that cannot be used; the same for a page.
HostAnswersBadly ==
  /\ call.stage \in {"opening", "paging"}
  /\ Respond(baselineRecovery("host"))

\* A page of what is below the records that are there.
PageArrives ==
  /\ call.stage = "paging"
  /\ LET left == {e \in durable[Target] : e < Min(call.records)} IN
     \E entries \in {{e \in left : e >= from} : from \in left} \cup {left} :
       \E more \in {TRUE, entries # left} :
         (entries = {} => ~more) /\
         WalkOn([call EXCEPT !.records = @ \cup entries, !.more = more, !.pages = @ + 1])

-----------------------------------------------------------------------------
(* readSessionSyncSnapshot: the list and the workspaces at once, then the rows. *)

RowsBegin(c) == IF c.listed /\ c.followed THEN [c EXCEPT !.stage = "rows"] ELSE c

\* The list: some summaries have the cursor of their projections.
ListAnswers ==
  /\ call.stage = "listing" /\ ~call.listed
  /\ \E projected \in SUBSET SyncSessions :
       call' = RowsBegin([call EXCEPT !.listed = TRUE, !.unread = SyncSessions \ projected,
                            !.rows = [s \in projected |-> TopOf(durable[s])]])
  /\ UNCHANGED <<durable, archived, copy, due, reply, syncs>>

\* readWorkspaceBaseline.
WorkspaceAnswers ==
  /\ call.stage = "listing" /\ ~call.followed
  /\ call' = RowsBegin([call EXCEPT !.followed = TRUE, !.hidden = archived])
  /\ UNCHANGED <<durable, archived, copy, due, reply, syncs>>

\* A session that cannot be read has the cursor of an empty one.
RowUnreadable(s) == [x \in DOMAIN call.rows \cup {s} |-> IF x = s THEN -1 ELSE call.rows[x]]

RowOpened(s) == [x \in DOMAIN call.rows \cup {s} |-> IF x = s THEN TopOf(durable[s]) ELSE call.rows[x]]

ReadRow(s) ==
  /\ call.stage = "rows" /\ s \in call.unread \ call.hidden
  /\ \E rows \in {RowOpened(s), RowUnreadable(s)} :
       call' = [call EXCEPT !.unread = @ \ {s}, !.rows = rows]
  /\ UNCHANGED <<durable, archived, copy, due, reply, syncs>>

SnapshotDone ==
  /\ call.stage = "rows" /\ call.unread \subseteq call.hidden
  /\ Respond([type |-> "snapshot", then |-> call.then,
              rows |-> [s \in DOMAIN call.rows \ call.hidden |-> call.rows[s]]])

-----------------------------------------------------------------------------
DeltaInit ==
  /\ durable \in [SyncSessions -> {{}, {0, 1}}] /\ archived = {}
  /\ \E cursor \in -1..2 :
       copy = [s \in SyncSessions |-> [cursor |-> cursor, held |-> {e \in durable[s] : e <= cursor},
                 life |-> IF cursor <= TopOf(durable[s]) THEN "this" ELSE "earlier"]]
  /\ due = {} /\ call = NoCall /\ reply = Refused /\ syncs = 0

DeltaNext ==
  \/ \E s \in SyncSessions : LogGrows(s) \/ PutAway(s) \/ ReadRow(s)
  \/ \E s \in SyncSessions : \E limit \in 1..2 : AskDelta(s, limit)
  \/ AskSnapshot \/ Unauthorized \/ BodyRejected \/ RequestTimesOut \/ ClientCloses \/ StrayAbort
  \/ HostFails \/ OperationBegins \/ SnapshotOpens \/ HostAnswersBadly \/ PageArrives
  \/ ListAnswers \/ WorkspaceAnswers \/ SnapshotDone

DeltaSpec == DeltaInit /\ [][DeltaNext]_deltaVars

-----------------------------------------------------------------------------
(* What makes it correct. *)

\* Whatever is read and however the log grows meanwhile, a delta is all of the log from
\* the phone's cursor up to where it ends, it moves the phone on, and it says that the
\* phone is up to date just when nothing of the pinned log is missing.
DeltaExact ==
  reply.type = "delta" =>
    LET log == durable[reply.session] IN
    /\ reply.events = {e \in log : reply.after < e /\ e <= reply.through}
    /\ reply.caughtUp <=> ~\E e \in log : reply.through < e /\ e <= reply.fixed
    /\ reply.caughtUp \/ reply.events # {}

\* The snapshot leaves out no session that is not put away, and shows a cursor by which
\* a phone that lacks an event of before the request finds out.
NothingForgotten ==
  reply.type = "snapshot" =>
    \A s \in SyncSessions \ archived :
      /\ s \in DOMAIN reply.rows
      /\ reply.rows[s] = -1 \/ (reply.then[s] <= reply.rows[s] /\ reply.rows[s] <= TopOf(durable[s]))

\* A phone has of each session all up to its cursor, unless the cursor is of an earlier
\* life of the session, which nobody tells it once the new log is as long.
CopyIsPrefix ==
  \A s \in SyncSessions : copy[s].life = "this" => copy[s].held = {e \in durable[s] : e <= copy[s].cursor}

DeltaSound == DeltaExact /\ NothingForgotten /\ CopyIsPrefix
=============================================================================
