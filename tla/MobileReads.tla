----------------------------- MODULE MobileReads -----------------------------
(***************************************************************************)
(* The v3 reads of the mobile stream service: history pages, deltas and    *)
(* the snapshot of watermarks of one session, bound to the history epoch   *)
(* of the runtime, over restarts in which the log may be another one.      *)
(***************************************************************************)
EXTENDS Integers, FiniteSets, FiniteSetsExt

CONSTANTS ScanLimit, EventLimit,   \* of the code: pages and events of one read
          MaxWritten, MaxLives, MaxAsks    \* bounds: sequences, logs, requests

ASSUME ReadsAssumption == {ScanLimit, EventLimit, MaxWritten, MaxLives, MaxAsks} \subseteq Nat /\ EventLimit # 0

VARIABLES
  written,    \* sequences of the events in the log of the session
  life,       \* logs there were
  epoch,      \* history epoch of the running host, 0 for a runtime that has none
  mark,       \* watermark of the session, NoMark for none
  client,     \* of the phone: epoch, cursor and events, the oldest and if there are older ones
  asked,      \* the request in progress
  answer,     \* the last response
  asks        \* requests made

readVars == <<written, life, epoch, mark, client, asked, answer, asks>>

NoMark == -2
NoAsk == [stage |-> "idle", kind |-> "none", epoch |-> 0, after |-> -1, before |-> -1,
          fixed |-> -1, found |-> {}, more |-> FALSE, pages |-> 0, then |-> -1]

Declined == [type |-> "declined"]

Tip(seqs) == IF seqs = {} THEN -1 ELSE Max(seqs)
Blank(e) == [epoch |-> e, cursor |-> -1, held |-> {}, more |-> FALSE, due |-> FALSE]

\* updateWatermark: never back.
Watermark(seq) == IF seq >= mark THEN seq ELSE mark

-----------------------------------------------------------------------------
(* The log, and the process around it. *)

LogAppends ==
  /\ \E n \in Tip(written) + 1..MaxWritten : written' = written \cup {n}
  /\ UNCHANGED <<life, epoch, mark, client, asked, answer, asks>>

\* The event source tells of an event, at once or when its queue is flushed.
EventSeen ==
  /\ \E n \in written : mark' = Watermark(n)
  /\ UNCHANGED <<written, life, epoch, client, asked, answer, asks>>

\* The process is new: its watermarks and its requests are gone.  Another log has
\* another generation in the configuration, in a runtime that has epochs.
Restart ==
  /\ \/ UNCHANGED <<written, life, epoch>>
     \/ /\ life < MaxLives /\ life' = life + 1 /\ written' \in {{}, {0}, {0, 1}}
        /\ epoch' = IF epoch = 0 THEN 0 ELSE epoch + 1
     \/ epoch = 0 /\ epoch' = 1 /\ UNCHANGED <<written, life>>
  /\ mark' = NoMark /\ asked' = NoAsk /\ answer' = Declined
  /\ UNCHANGED <<client, asks>>

-----------------------------------------------------------------------------
(* The phone. *)

Ask(kind) ==
  /\ asked.stage = "idle" /\ asks < MaxAsks
  /\ kind = "delta" => ~client.due
  /\ kind = "older" => client.more /\ ~client.due
  /\ asked' = [NoAsk EXCEPT !.stage = "body", !.kind = kind, !.epoch = client.epoch, !.then = Tip(written),
                 !.after = IF kind = "delta" THEN client.cursor ELSE -1,
                 !.before = IF kind = "older" THEN Min(client.held) ELSE -1]
  /\ asks' = asks + 1
  /\ UNCHANGED <<written, life, epoch, mark, client, answer>>

\* A phone that hears of another epoch starts anew.
Heard(e) == IF e = client.epoch THEN client ELSE Blank(e)

Take(response) ==
  /\ answer' = response
  /\ client' =
       CASE response.type = "epoch" -> Blank(response.epoch)
         [] response.type = "delta" ->
              [Heard(response.epoch) EXCEPT !.cursor = response.through, !.held = @ \cup response.events,
                                            !.due = response.baseline]
         [] response.type = "page" /\ response.before = -1 ->
              [Blank(response.epoch) EXCEPT !.cursor = Tip(response.events), !.held = response.events,
                                            !.more = response.more]
         [] response.type = "page" /\ response.before # -1 ->
              [client EXCEPT !.held = @ \cup response.events, !.more = response.more]
         [] response.type = "snapshot" -> Heard(response.epoch)
         [] OTHER -> client

\* sendJson: what is too large is declined in its place.  The watermark stays.
Send(response, seen) ==
  /\ Take(response) \/ Take(Declined)
  /\ mark' = Watermark(seen) /\ asked' = NoAsk
  /\ UNCHANGED <<written, life, epoch, asks>>

-----------------------------------------------------------------------------
(* handleV3JsonRequest. *)

InProgress == asked.stage \notin {"idle", "lost"}

\* Authorization, method, content type, the body and what it must have.
Rejected == asked.stage = "body" /\ Send(Declined, NoMark)

\* The timer of the request cuts every wait.
Expires == InProgress /\ Send(Declined, NoMark)

\* The phone is gone, or an AbortError that is neither: nothing is sent, and in the
\* second case nobody ends the response.
Unanswered ==
  /\ InProgress
  /\ \E stage \in {"idle", "lost"} : asked' = [NoAsk EXCEPT !.stage = stage]
  /\ UNCHANGED <<written, life, epoch, mark, client, answer, asks>>

HangsUp ==
  /\ asked.stage = "lost" /\ asked' = NoAsk
  /\ UNCHANGED <<written, life, epoch, mark, client, answer, asks>>

\* The address cannot be found, the host refuses or fails.
Fails == asked.stage \in {"opening", "paging", "listing"} /\ Send(Declined, NoMark)

\* readExpectedHistoryEpoch: what goes on from a cursor needs its epoch.
Continues == asked.kind \in {"delta", "older"}

\* Variant, not the code: an epoch is compared but not required.
Compared == epoch = 0 \/ asked.epoch \in {0, epoch}

\* assertHistoryEpoch.
EpochFits == epoch = 0 \/ asked.epoch = epoch \/ (asked.epoch = 0 /\ ~Continues)

EpochRefused ==
  /\ asked.stage = "body" /\ ~EpochFits
  /\ Send([type |-> "epoch", epoch |-> epoch], NoMark)

Decoded ==
  /\ asked.stage = "body" /\ EpochFits
  /\ asked' = [asked EXCEPT !.stage = IF asked.kind = "snapshot" THEN "listing" ELSE "opening"]
  /\ UNCHANGED <<written, life, epoch, mark, client, answer, asks>>

-----------------------------------------------------------------------------
(* readSessionDelta and readMobileV3Delta. *)

\* fitV3Events from the head: as many as there is room for, at least one.
HeadOf(events) == IF events = {} THEN {{}} ELSE {{e \in events : e <= last} : last \in events}

\* An event too large for any answer is a shell, and counts as cut.
CutOf(fitted, events) == {fitted # events} \cup {TRUE : e \in {e \in fitted : fitted = {e}}}

NoMoreThan(limit, events) == {e \in events : Cardinality({d \in events : d <= e}) <= limit}

\* Without an exact delta the phone needs a baseline.
RecoveryOf(last) ==
  [type |-> "delta", epoch |-> epoch, after |-> asked.after, through |-> asked.after, last |-> last,
   events |-> {}, caughtUp |-> FALSE, more |-> asked.after < last, baseline |-> TRUE, then |-> asked.then]

DeltaFitted(c) ==
  \E delivered \in {NoMoreThan(EventLimit, {e \in c.found : e > c.after})} :
    \E fitted \in HeadOf(delivered) : \E cut \in CutOf(fitted, delivered) :
      LET through == Tip({c.after} \cup delivered) IN
      Send([type |-> "delta", epoch |-> epoch, after |-> c.after, last |-> c.fixed, events |-> fitted,
            through |-> Tip({c.after} \cup fitted), caughtUp |-> ~cut /\ through >= c.fixed,
            more |-> cut \/ through < c.fixed, baseline |-> FALSE, then |-> c.then], c.fixed)

Recovers(last) == Send(RecoveryOf(last), last)

\* The records go down to what the phone has, or to the origin of the log.
Reached(c) == c.after >= c.fixed \/ ~c.more \/ \E e \in c.found : e <= c.after

Further(c) ==
  IF Reached(c) THEN DeltaFitted(c)
  ELSE IF c.pages >= ScanLimit THEN Recovers(c.fixed)
  ELSE asked' = c /\ UNCHANGED <<written, life, epoch, mark, client, answer, asks>>

\* What the host gives of some events: the newest, and if there may be more.
Served(events) ==
  {r \in [found : {events} \cup {{e \in events : e >= from} : from \in events}, more : BOOLEAN] :
     (r.more \/ r.found = events) /\ (r.more => r.found # {})}

DeltaOpens ==
  /\ asked.stage = "opening" /\ asked.kind = "delta"
  /\ IF asked.after > Tip(written) THEN Recovers(Tip(written))
     ELSE \E r \in Served(written) :
            Further([asked EXCEPT !.stage = "paging", !.fixed = Tip(written), !.found = r.found, !.more = r.more])

DeltaPage ==
  /\ asked.stage = "paging"
  /\ \E r \in Served({e \in written : e < Min(asked.found)}) :
       Further([asked EXCEPT !.found = @ \cup r.found, !.more = r.more, !.pages = @ + 1])

\* No snapshot or none that can be used: the cursor of the phone stands for the tail.
OpeningUnusable == asked.stage = "opening" /\ asked.kind = "delta" /\ Recovers(asked.after)

\* Records or a page that are cut short, stalled or not known.
PageUnusable ==
  \/ asked.stage = "opening" /\ asked.kind = "delta" /\ Recovers(Tip(written))
  \/ asked.stage = "paging" /\ Recovers(asked.fixed)

-----------------------------------------------------------------------------
(* readMobileV3History. *)

\* fitV3Events from the tail.
TailOf(events) == IF events = {} THEN {{}} ELSE {{e \in events : e >= first} : first \in events}

PageOf(events, more) ==
  \E fitted \in TailOf(events) : \E cut \in CutOf(fitted, events) :
    Send([type |-> "page", epoch |-> epoch, before |-> asked.before, events |-> fitted,
          more |-> more \/ cut], IF asked.before = -1 THEN Tip(written) ELSE NoMark)

HistoryOpens ==
  /\ asked.stage = "opening" /\ asked.kind = "history"
  /\ \E r \in Served(written) : PageOf(r.found, r.more)

OlderOpens ==
  /\ asked.stage = "opening" /\ asked.kind = "older"
  /\ asked' = [asked EXCEPT !.stage = "older"]
  /\ UNCHANGED <<written, life, epoch, mark, client, answer, asks>>

OlderPage ==
  /\ asked.stage = "older"
  /\ \E r \in Served({e \in written : e < asked.before}) : PageOf(r.found, r.more)

-----------------------------------------------------------------------------
(* readMobileV3Snapshot: the list and the workspaces, then what the watermarks say. *)

\* Authoritative, or unknown for NoMark.
Row == mark

SnapshotAnswers ==
  /\ asked.stage = "listing"
  /\ Send([type |-> "snapshot", epoch |-> epoch, row |-> Row], NoMark)

-----------------------------------------------------------------------------
ReadsInit ==
  /\ written = {0} /\ life = 1 /\ epoch \in {0, 1} /\ mark = NoMark
  /\ client = Blank(0) /\ asked = NoAsk /\ answer = Declined /\ asks = 0

ReadsNext ==
  \/ LogAppends \/ EventSeen \/ Restart
  \/ \E kind \in {"delta", "history", "older", "snapshot"} : Ask(kind)
  \/ Rejected \/ Expires \/ Unanswered \/ HangsUp \/ Fails \/ EpochRefused \/ Decoded
  \/ DeltaOpens \/ DeltaPage \/ OpeningUnusable \/ PageUnusable
  \/ HistoryOpens \/ OlderOpens \/ OlderPage \/ SnapshotAnswers

ReadsSpec == ReadsInit /\ [][ReadsNext]_readVars

-----------------------------------------------------------------------------
(* What makes it correct. *)

\* A phone that read from a runtime with epochs has no hole and nothing of another log:
\* all of this log from its oldest event to its cursor, and all there is below when it
\* was told so.
CopyOfThisLog ==
  epoch # 0 /\ client.epoch = epoch =>
    /\ client.held \subseteq written
    /\ \A e \in written : e <= client.cursor /\ e \notin client.held =>
         client.more /\ \A h \in client.held : e < h

\* A delta says that nothing is missing only when nothing of the pinned log is, and
\* without that it moves the phone on or sends it for a baseline.
DeltaHonest ==
  answer.type = "delta" =>
    /\ answer.caughtUp => ~answer.baseline /\ answer.through >= answer.last
    /\ answer.more \/ answer.caughtUp \/ answer.baseline
    /\ answer.more => answer.events # {} \/ answer.baseline

\* In a runtime with epochs no cursor of another log becomes a watermark ahead of this one.
MarkOfThisLog == epoch # 0 => mark <= Tip(written)

ReadsSound == CopyOfThisLog /\ DeltaHonest /\ MarkOfThisLog

\* "History/delta return lastSeqKnown:false and omit lastSeq when the live tail is not
\* proven" (mobile-stream-compat-rc1/README.md:68): a tail that a delta states is one that
\* the log had while it was read.
TailProven == answer.type = "delta" => answer.then <= answer.last /\ answer.last <= Tip(written)
=============================================================================
