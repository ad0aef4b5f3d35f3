----------------------------- MODULE PhoneSyncMC -----------------------------
(* What a phone asks for: the delta and the snapshot of the synchronisation        *)
(* plugin, its Android copy, the reads of the mobile stream service and the         *)
(* addresses it finds sessions by.  They share no state: a behaviour moves one.     *)
(* The Android copy moves with reads of one session, or with the tails of all.      *)
EXTENDS SessionDelta, AndroidSync, MobileReads, SessionAddresses

VARIABLE moving

MCSizeOfEvent == [e \in 0..3 |-> IF e = 1 THEN 3 ELSE 1]

\* The Android copy in part "android" has events of one session, in part "tails" of all.
OneSession == CHOOSE s \in AndroidSessions : TRUE
Moves(s) == moving = "tails" \/ (moving = "android" /\ s = OneSession)

MCInit ==
  /\ moving \in {"delta", "android", "tails", "reads", "book"}
  /\ DeltaInit /\ AndroidInit /\ ReadsInit /\ BookInit
  /\ moving # "delta" => \A s \in SyncSessions : durable[s] = {} /\ copy[s].cursor = -1
  /\ \A s \in AndroidSessions : top[s] = -1 \/ Moves(s)
  /\ moving # "reads" => epoch = 0

InDelta == moving = "delta" /\ UNCHANGED <<androidVars, readVars, bookVars, moving>>
InAndroid == moving \in {"android", "tails"} /\ UNCHANGED <<deltaVars, readVars, bookVars, moving>>
InReads == moving = "reads" /\ UNCHANGED <<deltaVars, androidVars, bookVars, moving>>
InBook == moving = "book" /\ UNCHANGED <<deltaVars, androidVars, readVars, moving>>

MCNext ==
  \/ \E s \in SyncSessions :
       \/ InDelta /\ LogGrows(s)
       \/ InDelta /\ PutAway(s)
       \/ InDelta /\ ReadRow(s)
       \/ \E limit \in 1..2 : InDelta /\ AskDelta(s, limit)
  \/ InDelta /\ AskSnapshot
  \/ InDelta /\ Unauthorized
  \/ InDelta /\ BodyRejected
  \/ InDelta /\ RequestTimesOut
  \/ InDelta /\ ClientCloses
  \/ InDelta /\ StrayAbort
  \/ InDelta /\ HostFails
  \/ InDelta /\ OperationBegins
  \/ InDelta /\ SnapshotOpens
  \/ InDelta /\ HostAnswersBadly
  \/ InDelta /\ PageArrives
  \/ InDelta /\ ListAnswers
  \/ InDelta /\ WorkspaceAnswers
  \/ InDelta /\ SnapshotDone
  \/ \E s \in AndroidSessions :
       \/ InAndroid /\ moving = "android" /\ Moves(s) /\ LogsGrow(s)
       \/ InAndroid /\ Moves(s) /\ MuxTells(s)
       \/ InAndroid /\ moving = "android" /\ Moves(s) /\ DeltaAsked(s)
       \/ InAndroid /\ moving = "android" /\ Moves(s) /\ HistoryAsked(s)
  \/ InAndroid /\ MuxOpens
  \/ InAndroid /\ MuxBreaks
  \/ InAndroid /\ TailAsked
  \/ InAndroid /\ TailRead
  \/ InAndroid /\ TailArrives
  \/ InAndroid /\ TailFails
  \/ \E version \in {2, 3} : InAndroid /\ Snapshot(version) /\ \A s \in coldPending' : Moves(s)
  \/ InAndroid /\ ReadFails
  \/ InAndroid /\ HistoryArrives
  \/ InAndroid /\ AndroidPage
  \/ InReads /\ LogAppends
  \/ InReads /\ EventSeen
  \/ InReads /\ Restart
  \/ \E kind \in {"delta", "history", "older", "snapshot"} : InReads /\ Ask(kind)
  \/ InReads /\ Rejected
  \/ InReads /\ Expires
  \/ InReads /\ Unanswered
  \/ InReads /\ HangsUp
  \/ InReads /\ Fails
  \/ InReads /\ EpochRefused
  \/ InReads /\ Decoded
  \/ InReads /\ DeltaOpens
  \/ InReads /\ DeltaPage
  \/ InReads /\ OpeningUnusable
  \/ InReads /\ PageUnusable
  \/ InReads /\ HistoryOpens
  \/ InReads /\ OlderOpens
  \/ InReads /\ OlderPage
  \/ InReads /\ SnapshotAnswers
  \/ InBook /\ Lists
  \/ InBook /\ Poll
  \/ InBook /\ PollSettles
  \/ InBook /\ PollFails
  \/ InBook /\ RefreshSettles
  \/ InBook /\ RefreshFails
  \/ \E by \in {"refresh", "poll"} : InBook /\ ListAnswered(by)
  \/ \E p \in Parents :
       \/ InBook /\ Catalogs(p)
       \/ InBook /\ CatalogExpires(p)
       \/ InBook /\ FailureExpires(p)
       \/ InBook /\ CatalogAnswered(p)
       \/ InBook /\ CatalogSettles(p)
       \/ InBook /\ CatalogFails(p)
  \/ \E r \in Lookups :
       \/ InBook /\ Resolve(r)
       \/ InBook /\ GoesOn(r)
       \/ InBook /\ Abandon(r)

\* Of the fair actions only Poll is enabled in a part that does not move.
MCSpec ==
  /\ MCInit /\ [][MCNext]_<<deltaVars, androidVars, readVars, bookVars, moving>>
  /\ TailsAreRead /\ WF_bookVars(InBook /\ Poll) /\ CallsSettle
=============================================================================
