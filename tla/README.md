# Verification of dsh-remote-hosts

TLA+ models of the parts of dsh-remote-hosts where several actors meet: the
page's WebSocket that carries many streams, both ends of it; the hub that merges
and routes what a page says to several hosts; the mirrors of session events,
assistant output, approvals and session lists that stand between the official
runtimes and the browsers and phones; the reads by which a phone catches up; the
directory dialog; the carriers that lead to a host; and the launcher and the broker
that start and replace the official runtime. TLC checks every model on small
instances; for sixteen of them TLAPS proves what makes them correct for all values of
the constants.

Contents: [inventory](#1-inventory) · [hard behaviours](#2-hard-behaviours) ·
[plan](#3-plan) · [modules and code](#4-modules-and-the-code-they-model) ·
[runs](#5-runs) · [bounds](#6-bounds) · [fairness](#7-fairness) ·
[proofs](#8-proofs) · [disagreements found](#9-disagreements-found) ·
[not modelled](#10-not-modelled).

Run a model with `tlc -config <X>.cfg <Module>.tla` and a proof with
`tlapm <X>Proofs.tla` (section 8 says which module it is about). `PROJECT.json` lists the runs, ties every modelled
definition to its lines, lists the hazards with the properties that watch over
them, and has for every property a mutated definition that breaks it.

## 1. Inventory

One *home* process (the controller of the user's machine) extends an official
runtime with plugins. Other machines run official runtimes of their own, which
the home reaches through *carriers* (tunnelled HTTP and WebSocket). Browsers and
phones talk to the home only.

| Component | State it keeps | Operations | Correct when |
|---|---|---|---|
| **Stream multiplexer**, `browser-host-hub-rc1/src/stream-mux.js` | per WebSocket: map of open streams, the hub iterator and pump of each, queues and byte accounts of the fair sender, the number and prefix of the last stream | open, cancel, malformed message, item / end / error of an iterator, overflow, send callback, socket close and error | frames of a stream arrive in order and at most one terminal frame after them; a stream that has frames is in the line exactly once; no open stream without a pump; a stream that leaves the map releases its iterator; nobody overtakes a stream that waits |
| **Browser hub: session list**, `index.js` 505-676, 1100-1190 (list) and `$events` relay | per host: a shared refresh, the last list, versions of the sessions, archived ids; per window: connection generations, queue, pumps | `session/list`, timeouts, abort, late answer, session frames, open / close / reconnect of a window | a late answer never takes a window back; it reaches every window that may have it; a host that once answered stays in the list |
| **Browser hub: aggregates** (`workspace/follow`, `session/control`), `index.js` 490-780, 1667-1757 | per page stream: the baselines of the hosts, a queue of packets, a timer; per host a pump | merge of baselines and increments, first baseline without a slow host, reconnect as increments | the page holds the union of what the hosts told; a slow host holds nobody up |
| **Browser hub: session follow relay and encoder**, `browser-stream.js`, `index.js` 1759-1819 | one stream per follow, the attempt under way, the cursor | connect, first snapshot, chunks of an older host rewritten as transient frames, settlement, retry | every frame is one the page accepts; the page's log is the host's; a page that opens again sees the same attempt |
| **Browser hub: asks**, `index.js` 1646-1665, 1821-1915 | names of asks, generations of the host connections | request, cancel, result, reconnect | an answer reaches the ask it was given for, or nobody |
| **Browser hub: routing and file proxy** | none (per request), the page's selected host | select a host by the identities of a call, ask all hosts, each for a bounded time | a call to all hosts ends, whichever of them hang, fail or are removed from the settings meanwhile |
| **Page side of the multiplexer** (bootstrap script, `index.js` 1129-1318) | socket, epoch, records | open, reopen, cancel, shut down | a frame of an old socket never reaches a stream; no stream is left without an end the page knows of, the server holds no stream the page gave up |
| **Mobile event hub**, `MobileSessionSyncState` of `mobile-stream-compat-rc1` | per session: cached events, watermark; archived ids, buffer of early events; per phone: a stream with a bounded queue | live event, workspace baseline, archive, history read, subscribe, take, close | no silent gap, order, the watermark covers what was delivered, archived sessions are silent |
| **History read gate**, `acquireBootstrap` of `mobile-stream-compat-rc1` | queue, count, session state objects | acquire, abort, release with drain, dispose | at most *limit* reads, one per session; no waiter without a reason; everyone is served |
| **Assistant mirror**, `runtime-interface/src/mobile-assistant-stream.js` | per session: active attempt, retired ids, raw and public revision; a counter of active attempts | ingest, baseline, snapshot, dispose | the mirror is a snapshot some agent really had; public revisions grow; a finished attempt never returns |
| **Interaction bridge**, `mobile-interactions-compat-rc1` with the hub maps and phone streams | pending asks, answers in flight, client id; the hub's two maps; seen keys per phone stream | stream opens / breaks, ask, withdraw, respond, confirm, subscribe, replay | hub and bridge agree; at most one answer under way; a phone shows what is pending |
| **Managed runtime launcher**, `runtime-interface/src/managed-runtime-launcher.mjs` | mutex file, guard file, instance record, port, child process | acquire with take-over, read the record, preflight, spawn, record, wait, release | the mutex excludes; one runtime; a success names a live, recorded process |
| **Local runtime restart**, `local-runtime-restart.js` and its broker | the shared pending restart, the broker's phase | prepare, ready, commit, cancel, exit, wait for the exit, launch | exit only with a committed broker; one replacement |
| **Session delta**, `mobile-session-sync-rc1` | none (per request) | authorize, snapshot of all sessions, delta of one, timeout, abort | a phone that applies deltas holds the log up to its cursor |
| **History reads**, v3 routes of `mobile-stream-compat-rc1` with the history epoch of `runtime-interface` | watermark, epoch | history, delta, snapshot | a page is cut at the right end; a cursor of another log is refused |
| **Session addresses**, `SessionAddressBook` | summaries, catalogs with expiry, failures, shared loads | refresh, poll, resolve, invalidate | a session the host can address is found in the end |
| **Session persistence gate**, `session-persistence.js` | queue of writes per session, sessions with an unknown outcome | create, append, read in chunks, inspect | writes of a session follow each other; nobody is told what is not known |
| **Android copy of the session synchronisation**, `src/compat/android-bootstrap-…` | watermarks, cold tails, cached events, feeds, details | mux frames, snapshot, delta, history, feed, details | as the mobile services |
| **Directory picker**, `ui-directory-picker-browse` | the dialog, listings under way, the newest intent, the folder being made | open, navigate, select, type, create, choose a host, adopt | the panes show what was listed; what is made or taken is what is named |
| **Carriers**, `rc1-host-carriers` | per host: what the configuration says, one lazy connection, the ssh child under it | connect, share a dial, drop, stop, attach, retry, restart, hydrate | one tunnel per host; none is left that nobody can close; whoever waits waits for a dial |
| **Host settings**, `remote-hosts-settings-rc1` | the host table on disk | add, edit, remove, verify | no edit is lost |
| **Bootstrap publisher**, `mobile-bootstrap-rc1` | worker and a protected file | publish, withdraw, retry | the file names the present address |
| **Agent operations**, **sessions**, **questions** ports of `runtime-interface` | none | resolve the agent, forward a call | data mapping |
| **Mobile controller**, **subscriptions**, **model menu filter**, **workspace menu**, **settings UI** | little or none | mapping of requests, user interface | data mapping |
| **Compatibility patches, install bridges, tools** | none | build-time scripts | not a running system |

How they interact:

- The official runtime of a host calls the hooks of `runtime-interface`
  synchronously. The assistant mirror and the mobile event hub are fed that way,
  so their state changes in the caller's turn, and again, later, when an
  asynchronous history read of a phone delivers what it read.
- The mobile event hub and the interaction bridge share the phone streams: one
  bounded queue and one memory of delivered keys per stream.
- The browser hub opens streams to every host over the carriers, merges them and
  hands async iterators to the multiplexer, one pump each.
- A page that loses its WebSocket opens a new one with a new prefix; the streams
  are opened again by the page.
- Phones read over stateless routes; what they hold between two reads is a cursor
  and, where the runtime has one, a history epoch. The event hub keeps the
  watermarks that the snapshots of these routes are made of.
- The session list, the aggregates, the asks and the follow streams of a page
  each open their own streams to every host and reconnect on their own.
- A restart of the local runtime forks a broker, which after the exit of the
  runtime runs the launcher; a user may run the launcher from the CLI meanwhile.

## 2. Hard behaviours

The whole list, with the line at which each hazard bites and the properties that
watch it, is in `PROJECT.json`. In short:

- *Handlers of one event loop in an order nobody wrote a test for*: send
  callbacks, iterator results, messages and socket events (multiplexer); list
  answers, timeouts, reconnects and session frames (session list); a read that
  ends after live events came (event hub, assistant mirror).
- *State read before an await and used after it*: the result of a fast host kept
  while a slow one is awaited; the owner of the mutex read before the take-over;
  an answer sent while the ask is withdrawn.
- *Limits*: bytes of a frame, of a stream and of the socket; the bounded queue
  and memory of a phone stream; the event cache; concurrent reads; active
  attempts.
- *Crashes*: a launcher that dies between two file operations; process numbers
  that are used again; queries that cannot tell.
- *Late answers*: a listing that lands after the user moved on, a catalog that was
  asked for before it was invalidated, frames of a socket that was replaced, asks
  of a connection that is gone.
- *Names that are not unique*: hosts that number their clients and asks alike, logs
  that begin anew under the same session, process numbers.
- *Fairness and liveness*: a stream behind a busy one; a read behind others in the queue; a cold
  tail behind one that hangs; a page behind a slow host.

## 3. Plan

Done, in this order, the most central first:

1. `FairSender` → `StreamMux` (composes the sender with socket, messages and
   pumps) → `StreamPromise` (what one stream promises its reader) with the
   refinement `KeepsPromise`; proofs in `StreamMuxProofs`.
2. `AssistantStream`; proofs in `AssistantStreamProofs`.
3. `BootstrapGate`, safety and liveness; proofs in `BootstrapGateProofs`.
4. `Interactions`, `MobileEvents` (the phone's streams, each composed of hub, source
   and subscriber), then `AndroidEvents`; proofs in `PhoneStreamsProofs` (`Interactions`,
   `MobileEvents`) and `PhoneSyncProofs` (`AndroidEvents`).
5. `ManagedLauncher`, proofs in `ManagedLauncherProofs`; `RuntimeRestart`,
   proofs in `HostProofs`.
6. `SessionList`, `HubAggregate`, `HubAsks`, `HubFollow`, `HubRequest`, `PageMux`:
   the browser hub and the page; proofs in `BrowserProofs` (`HubAsks`, `PageMux`),
   `HostProofs` (`SessionList`) and `AssistantStreamProofs` (`HubFollow`).
7. `SessionDelta`, `MobileReads`, `SessionAddresses`, `AndroidSync`: how a phone
   catches up; proofs in `PhoneSyncProofs` (all but `SessionAddresses`).
8. `SessionPersistence`, proofs in `HostProofs`; `DirectoryBrowser`, proofs in
   `BrowserProofs`.
9. `HostCarriers`; proofs in `HostProofs`.

Next:

1. `HostSettings` (edits of the host table), the bootstrap publisher, the carriers of
   a host under the hub's streams.
2. `PageMux` composed with `StreamMux` over one socket.
3. Proofs: safety of `HubAggregate`, then of `SessionAddresses`.

## 4. Modules and the code they model

A JavaScript handler runs to completion, so an action is a whole handler or the
whole stretch from one await to the next. What a handler calls is inside its
action. Names of variables and operators are the source's wherever there is one.

**FairSender, StreamMux, StreamPromise** — `stream-mux.js`.
`FairSender` is the class `FairSocketSender` as operators on a record (`queues`,
`items`, `ready`, `inFlight`, `closed`) and, beside it, the byte account; `wire`
records what was handed to the socket. A frame is its kind, its number and its
size. `StreamMux` has one action per message (`Open` with its ways to be
refused, `Cancel`, `Malformed`), per outcome of the iterator (`PumpItem`,
`PumpEnd`, `PumpError`, `PumpLate` for what arrives after the stream left the
map) and per socket event (`SendDone`, `SendFailed`, `PeerCloses`,
`SocketClosed`, `SocketError`). `status` is membership in the `streams` map,
`pump` is where the loop stands, `returned` is `record.returned`. `Forced` and
`Terminal` are the forced enqueue of a terminal frame, whose failure is
`failSocket`. `StreamPromise` is what one stream promises: a growing, ordered
delivery that ends at most once.

**AssistantStream** — `mobile-assistant-stream.js` and the hooks that call it.
`agents` is what the official agents emitted (the ground truth), `mirror` the
class's per-session state, `reading` a history read whose baseline has been
captured and not yet delivered, `phone` a subscribed copy. `Emit…` are the hooks
that call `ingest` in the same turn; frames emitted before `Attach` are missed,
as when the plugin is loaded late; `Recreate` gives the session a new agent whose
numbers start at 1 while the old one may still emit; `Deliver` installs a
baseline, `Discard` is `disposeSession`. Text is its size.

**BootstrapGate** — `acquireBootstrap`. A session's state *object* is named
after the request that made it, since the code compares objects by identity and
replaces them; `active` is its flag. `Drained` is the drain loop as a recursive
function. `Release` is release with its cleanup and drain in one turn.

**Interactions** — `InteractionBridge` (`mobile-interactions-compat-rc1`), its
run loop, the maps `interactionFrames` and `pendingControls` of the hub, and
`Subscriber` of `mobile-stream-compat-rc1`. `asks` is the official runtime's
view. `StreamOpens`, `Attach`, `StreamFails` are one connection; `Take` and
`Accept` move a frame; `Respond`, `Confirmed`, `NotConfirmed` are the two sides
of the await in `respond`. Two maps are kept as sequences because a replay
follows their insertion order. A stream remembers a bounded number of delivered
keys and forgets the oldest first: one that has forgotten the request of an ask
and still remembers its withdrawal would take a replayed request and drop the
withdrawal that follows. `FreshPhoneAgrees` therefore speaks of streams that lived
through no disconnect of the bridge; a phone that opens a new stream agrees again.

**MobileEvents** — `MobileSessionSyncState`. `AppendLive` is the global seam with
its buffer (`pendingGlobalEvents`) until `WorkspaceBaseline` tells which sessions
are archived; `ReadStarts`/`ReadEnds` bracket a history read and ingest what it
found; `Subscribe`, `TakeQueued`, `CloseSubscriber` are a phone's stream. The
variable `skipped` is a history variable: why the hub emitted an event to
nobody.

**ManagedLauncher** — `acquireMutex`, `releaseMutex`, `launchManagedRuntime`.
Every action is one await. `Link`, `ReadLock`, `IdentifyOwner`, `CreateGuard`,
`Reread`, `UnlinkStale`, `Relink`, `Unguard` take the mutex; `ReadInstance` …
`ReadyStamp` launch; `ReadForRelease`, `Release` let it go, which takes the code two awaits. A process is a number
and a birth stamp; the code's process identity query may answer "unknown", never
a wrong "same". `Crash` may strike at any await, and every operation on a file may fail.
What such a failure leaves behind is in the actions: a guard that was created and could
not be written (`CreateGuard`), a guard that could not be read or unlinked, in the latter
case together with the mutex just published, since the throw of `reclaim` in the
`finally` block loses its release function (`Unguard`), a lock that could not be read or
unlinked (`ReadForRelease`, `Release`). `lockFaults` and `guardFaults` are history: whose
lock and whose guard such a failure left. `Stranger` and `Exit` let
numbers be used again.

**RuntimeRestart** — `local-runtime-restart.js` with the broker's half of
`managed-runtime-launcher.mjs`. `phase` and `response` are a request and its
response record, `pending` the promise the requests share, `run` where `run()`
stands for each restart, `fork` and `end` the two ends of the IPC channel with
the messages under way in `toBroker` and `toParent`, `broker` the stage of the
forked process. `parent` is the runtime's own process, whose number may be used
again (`reused`) once it has gone. `ReadyTimeout` and `Timer` are the timers of
the handshake, `Tick` one look of `waitForProcessExit`. The launch of the
replacement, which `ManagedLauncher` models, is one step that may fail.

Three things the model makes plain. A restart is bound to the response of the
request that began it: when that client goes away before its answer is sent
(`Close`), the restart is cancelled, also for requests that shared it and were
told it is accepted. When `run()` fails before its first await (`BeginFails`) the
rejected promise is stored after `pending` was cleared, and every later request
is answered by it (`Share`). And the wait for the exit is bounded, so a runtime
that stops slowly may end with no replacement.

**SessionList** — `session/list` with its shared `sessionListRefreshes`,
`sessionListSnapshots`, `sessionListSessionVersions`, the settlement of a call,
the late publication, and as much of the `$events` relay as carries it:
generations, `ready`, session events, the window's `AsyncQueue`. A list is the
revision of every session (`Absent` if not in it). `Settle` answers the calls in
the order they came, as promise reactions do.

**HubAggregate** — the two aggregate streams. `value` is what a host holds,
`packets` the one `AsyncQueue` its pump fills, `baselineByHost` what the hub knows,
`page` what the page has made of what it was told. `TakePacket` is one turn of the
generator: `FirstBaseline` when all are there, `PassedOn` afterwards, where the
baseline of a host that reconnected is told as `WorkspaceUpdates` and
`ControlUpdated`, the differences to what was held. `BaselineDeadline` is the race
with the timer.

**HubAsks** — `$events` as far as asks go: `AskFrame` and `Connect` are the pump of a
host, `PageFrame` the generator, `Answer` is `#eventResult`. An ask of the ground
truth is host, connection and number; `mappings` and `byRaw` are the hub's maps.

**HubFollow** — `createSessionFollowStreamEncoder` twice: as the encoder an older
host's frames go through (`PushLegacy`) and as the check of the hub
(`PushCurrent`), with the retries of `#singleHostStream` around them. `log` is the
older host's, whose agent writes turns, steps, chunks and settlements. The opening
snapshot is taken to hold the whole log, where a host may send a bounded window of it:
`SameAfterReopen` says nothing of an attempt that began before such a window.

**HubRequest** — one call: what the page adds (`Decorated`), admission and body, the
host it goes to (`IdentityHosts`, `Selected`, `MayGo`), one host or all with a bounded
wait (`TimesOut` is the timer of one host), the file proxy, a page that leaves, and
hosts that are configured anew at any time. The rewriting of identities on the way
there and back is data and left out.

**PageMux** — the bootstrap script: `ensureSocket`, `protocolStream`, `cancelRecord`,
`failEpoch`, `shutdown`. `sockets` holds every socket there was with its
`readyState`; a socket is unusable from the moment it begins to close and tells of
it later. The server is what it has open and what is on the way.

**SessionDelta** — `mobile-session-sync-rc1`: a request with its lifetime (timer,
client, abort), refusals, the walk over history pages backwards from a pinned
cursor, the snapshot row by row. `copy` is what a phone holds, `due` what it must
still ask for, `durable` the logs.

**MobileReads** — the v3 history, delta and snapshot: the opening page, further
pages, recovery when a page is unusable, the cut to what fits (`CutOf`), the
watermark, the epoch check (`EpochFits`). `Restart` may give the session another
log; `client` is a phone.

**SessionAddresses** — `SessionAddressBook` and the poll that feeds it: shared loads,
catalogs that expire, failures that are remembered for a shorter time, `resolve`
step by step.

**SessionPersistence** — `enqueueWrite` with its chain per session, the outcomes of
create and append over a service with handles or without, and `readFrom` in
chunks while writes go on.

**AndroidSync, AndroidEvents** — the copy for the Android shell. `AndroidSync` has
the watermarks with their sources, the cold tails one after another, snapshot,
delta and history in both versions. `AndroidEvents` has the feed of a phone and the
detail cache with reads in chunks that must not cut a code point. A feed (`feed[p]`,
the `V3Subscriber` with what the phone has taken from it) replays the open asks and,
when it is the stream of one session, the cached events; then come the live ones.
`FeedEnqueued` drops an event that is not newer, `SeenAlready` and `WithSeen` are the
keys it remembers having told (at most `SeenBound`, the oldest forgotten first), and
a full queue ends the stream with one `stream-overflow` (`FeedFailed`). `Hears` is what
the hub hears of the host's asks, which is nothing while the mux is down; that the host
names each ask once and may tell an open one again is an assumption about the host.

**HostCarriers** — one remote host. `carrier` is its entry in `perHost`, `lazies` the
closures of every `lazyCarrier` there was (calls may hold an old one), `tunnels`
the ssh child of every dial. A dial is under way from the call that begins it
until its promise settles, so a stop or a replacement comes in between.
`restarting` is the target `restart` captured before its await.

**DirectoryBrowser** — the dialog: two panes, listings under way with the intent
that started each (`scans`, `requestSeq`), the path editor whose draft is scanned
when it rests, the create dialog with its generation, the choice of the host.
Each action is a handler, effect, timer or settled promise with the render that
follows.

## 5. Runs

| Run | Question | Shows |
|---|---|---|
| `stream_mux` | Does the multiplexer keep its promise per stream, lose no wakeup, leak no iterator, let nobody overtake a stream that waits? | `BytesAccounted`, `StreamsInOrder`, `StreamsServed` (`WakeupsKept`, `NoSilentStall`, `IteratorsReleased`), the refinement `KeepsPromise`, and `NoOvertaking` hold. |
| `history` | What a history read passes. Does the gate keep its limit and its exclusion, and does every waiter leave the queue? Is the mirror that takes the captured baseline a snapshot of an agent, whatever was missed, late or restarted? | `GateSound` (`ReadsBounded`, `WorkConserving`), `SessionOrder`, `NoStarvation` of the gate; `MirrorSound` (`Faithful`, `PhoneAgrees`), `AttemptsCounted`, `PublicRevisionGrows`, `NoResurrection` of the mirror. |
| `launcher` | Does the mutex exclude through crashes, reuse of numbers and file operations that fail; is there one runtime? | `MutexSound` (`MutexHeld`, `LeftByDeathOrFault`), `OneAccounted`, `SuccessIsVerified`, `RecordKept`. |
| `phone_streams` | Do the streams of a phone agree with what they mirror? | `BridgeSound` (`HubAgrees`, `FreshPhoneAgrees`, `AnsweredOnce`) and `WithdrawnWhenOver` of the asks; `EventsSound` (`NoSilentGap`, `InOrder`, `LiveTailKept`) and `ArchivedSilent` of the events; `FeedSound` (`FeedInOrder`, `FeedShowsAsks`, `DetailsBounded`, `DetailComplete`) of the Android copy. |
| `phone_sync` | Does a phone that asks what it missed get it? | `DeltaSound` (`DeltaExact`, `NothingForgotten`, `CopyIsPrefix`); `ReadsSound` (`CopyOfThisLog`, `DeltaHonest`, `MarkOfThisLog`); `AndroidSound` (`DeltaContinuous`, `HistoryContinuous`, `TailsTrue`); `ColdTailsSettle`, `AddressesHeal`. |
| `host` | Can a late list answer take a window back, or miss it? Can a broker given up come back; is the original gone before its replacement starts; is every request answered? Do writes of a session follow each other? Has a host one tunnel, whatever is stopped, replaced or restarted? | `ListSound` (`LateNotStale`, `KnownHostsListed`), `LateReachesAll`; `RestartSound` (`OneBroker`, `ResponseFirst`, `LaunchAfterExit`), `CallsAnswered`; `PersistenceSound` (`ToldTrue`, `OneAfterAnother`, `ReadsRun`); `CarriersSound` (`OneTunnel`, `NoTunnelLeft`, `PhaseTrue`, `WaitsForDial`). |
| `browser` | Does what a page sees of several hosts stay theirs, and does it get an answer? | `AggregateAgrees`, `SlowHostIgnored`; `AsksSound` (`AnswersRight`, `AsksAgree`); `SearchesEnd`; `FollowSound` (`FramesAccepted`, `PageFollows`, `SameAfterReopen`); `PageSound` (`NoStaleFrame`, `NoOrphan`, `ServerAgrees`); `PanesSound` (`PanesTrue`, `SomethingComes`), `TargetKept`. |
| `stream_mux_isolation` | Does the end of one stream leave the others alone? | No, see 9.1. |
| `assistant_heals` | Does the baseline that an error asks for heal the mirror? | No, see 9.2. |
| `interactions_replay` | Does a phone that read its stream show every pending ask? | Not after a reconnect, see 9.3. |
| `mobile_events_read` | Is every live event delivered to every open stream? | No, see 9.4. |
| `mobile_reads_tail` | Is the last event a delta states one the log had? | No, see 9.5. |

Five of the runs check several components side by side: `HistoryMC`, `PhoneStreamsMC`,
`PhoneSyncMC`, `HostMC`, `BrowserMC`. The components of such a run share no
variable in the models, as their code shares none; the variable `moving`, chosen
at the beginning, says which of them a behaviour moves, the others rest in one
initial state. So the states of the components add up instead of multiplying,
and each of them takes all its steps. The violations run on the component's own
module.

Two properties say less than their names and need care. `OneAccounted` counts the
runtimes that are recorded or whose launcher is about to record them: a launcher
that dies between the spawn and the write leaves a runtime nobody knows of, and
no run claims otherwise. `LeftByDeathOrFault` says who leaves files behind: the dead, and
launchers whose own file operation failed. It does not say that nothing stays. A guard
that was left is never taken over, so every later launch that meets a stale mutex
reports a busy one until the guard is removed by hand; a lock that a failure left is
taken over once its launcher has ended, as that of a dead one.

Deadlock is not checked: each of these models stops when its bounded inputs are
used up, and each of the real components may rest with nothing to do.

## 6. Bounds

Every bound is a named constant, described where it is declared.

- *StreamMux*: two streams, three items each, items and errors of size 1 (fits)
  or 3 (larger than the frame limit 2), a stream limit of 2 and a socket limit of 3, so that frame,
  stream and socket overflow all happen, as do two prefixes. Two streams are
  the smallest number with a line, and `NoOvertaking` is about two streams at a time:
  the second frame of a busy stream meets the first of one that waits. The proofs cover
  any number of streams and of items.
- *AssistantStream*: one session (sessions share only the counter, which the
  proof covers for any number), two agents, three attempts, four frames of an
  agent: a restart while an attempt is under way, a late frame of the old agent,
  a read captured before and delivered after.
- *BootstrapGate*: four reads of one session or none, limit 2. Sessions meet only
  in the count, and reads without a session play the part of the other sessions;
  with four reads a queue of two waits while two read. The proofs cover any number.
- *Interactions*: two asks, one phone, two connections, two
  streams; queue 2 and memory 3 so that overflow and forgetting happen (larger
  in the replay run, where they must not be the cause).
- *MobileEvents*: one session with three events, one phone that opens two streams
  one after the other, one read, a cache of two and a buffer of one (overflow) or
  two. Sessions share the buffer and the streams' queues only, and
  the scope of a stream may be one session or any. The proof covers any number.
- *AndroidEvents*: two events, one ask, one stream, a queue, a cache and a memory of
  two (so that the memory forgets and the queue overflows), texts of code points of one
  to three units against a detail limit of 4, so that a text is evicted and a chunk
  limit falls inside a code point.
- *SessionDelta, MobileReads, AndroidSync*: reads of one session with up to three or four
  events, a scan limit of one or two pages and a limit of one or two events, so
  that a read needs more pages than it may take and a page is cut; two logs of a
  session, one after the other; two requests in a row, the second from the
  cursor of the first. Sizes of events are unequal, so that bytes cut where the
  count does not. `AndroidSync` has two sessions and is moved in two parts of the run:
  in `android` the log of one of them grows and is read by the phone, in `tails` both
  have cold tails, and the tail of each may have to wait behind a read of the other that
  hangs. There the logs stand still.
- *SessionAddresses*: one parent, one child, two lookups that share loads. No
  counter: the host changes its mind for ever.
- *SessionPersistence*: one session, three writes in a row of zero to two events,
  chunks of two: a read that begins, goes on and ends while writes are appended.
- *HubAggregate*: two hosts that use the same raw names, one change, three
  connections in all, two streams of the page.
- *HubAsks*: two hosts with the same numbers, two connections each. The proof covers
  any number of either.
- *HubRequest*: every kind of call over two hosts, one raw identity each.
  Requests do not meet, so one is enough. The hosts are configured anew without a bound.
- *HubFollow*: a log of six events with two turns and steps; a bound of two chunks
  per attempt, which the log exceeds. The proof covers any log and any bound.
- *PageMux*: two streams, two sockets one after the other, one item per stream. The
  proof covers any number.
- *HostCarriers*: two calls, three carriers one after the other, two dials: a dial of
  the stopped carrier and one of its successor. The proof covers the rest.
- *DirectoryBrowser*: four directories (a home, two children, a grandchild), two
  hosts, four listings launched: enough for three that are under way at once. The
  proofs cover any tree, hosts and number of listings.
- *ManagedLauncher*: three launchers (owner, taker and a third one at the guard),
  three numbers, four births (so a number is used again); launchers and numbers
  are interchangeable, hence the symmetry. The proofs cover any number.
- *RuntimeRestart*: two requests (one that begins, one that shares or comes later)
  and two restarts, so that a broker that was given up meets its successor. The
  channel is bounded by the protocol itself.
- *SessionList*: one host that changes once, two callers, a window with two
  connections. Hosts meet only in the settlement of a call. The proofs cover any
  number of hosts, sessions, callers and windows.

Symmetry is used in no run that checks a leads-to property.

## 7. Fairness

- `BootstrapGate`: weak fairness of the release of every granted read, since the
  readers release in `finally` blocks and their requests carry timeouts, and of
  the abort listener of an aborted waiter. Nothing is assumed of arrivals.
- `RuntimeRestart`: weak fairness of the ready timer of the handshake, which Node
  fires. Nothing is assumed of brokers, clients or the operating system.
- `HubAggregate`: weak fairness of the generator's turn and of its timer. Nothing is
  assumed of the hosts: `SlowHostIgnored` is about a host that never answers.
- `HubRequest`: weak fairness of the timer of each host that is asked
  (`#boundedAggregateHostCall`, set with `setTimeout`). Nothing is assumed of hosts, of
  pages or of whoever edits the configuration: `SearchesEnd` is about hosts that hang.
- `AndroidSync`: weak fairness of the drain of the cold tails and of its timeout.
  A read that never settles is the case the property is about.
- `SessionAddresses`: the timers fire and calls of the host settle (weak fairness),
  and calls that may fail each time do not fail for ever (strong fairness of a
  poll that succeeds). Without that assumption no address book can heal.
- `StreamMux`, `SessionList`, `Interactions`, `MobileEvents`, `DirectoryBrowser`:
  `NoOvertaking`, `LateReachesAll`, `WithdrawnWhenOver`, `ArchivedSilent`, `TargetKept`
  are action properties and need none. That a frame in the line is sent in the end
  follows from the first when the callbacks of the socket come, and is not claimed.

The other modules have no fairness and no liveness property.

## 8. Proofs

Eight modules hold the proofs: `StreamMuxProofs`, `BootstrapGateProofs` and
`ManagedLauncherProofs` each about the model they are named for, `AssistantStreamProofs`
about `AssistantStream` and `HubFollow`, `HostProofs` about `HostCarriers`,
`RuntimeRestart`, `SessionList` and `SessionPersistence`, `BrowserProofs` about
`HubAsks`, `PageMux` and `DirectoryBrowser`, `PhoneSyncProofs` about
`SessionDelta`, `MobileReads`, `AndroidSync` and `AndroidEvents`, `PhoneStreamsProofs`
about `Interactions` and `MobileEvents`. For each model an inductive invariant (`IInv`,
`GateIInv`, `ListIInv`, ...) is stated and proved from three facts: the initial states
satisfy it, every action keeps it (a lemma per action, or per group of like actions),
and it implies the properties. TLC checked each one on a small instance. None of the
proofs fixes a bound: `MaxItems`, `MaxConnects` and the like are any numbers, so that
the theorems hold for any number of steps.

- *StreamMux.* Assumed: `LimitsAssumption`, `MuxAssumption` (positive limits,
  stream ids are positive numbers, finitely many). `TypeOK` is not enough: that a
  wakeup is never lost needs that a queue is flagged exactly when it stands in the line,
  that the line has no repetitions, and that an empty line means nobody has frames.
  Order needs, per stream, the relation of wire, flight, queue and status
  (`StreamInv`): a stream in the map has had no terminal frame, and what is on the
  wire plus what is queued is numbered from 1 without a gap. The lemmas state for
  each operation of the sender what it keeps; the actions then follow case by
  case. Proved: `TypeOK`, `StreamsInOrder`, `StreamsServed` with its three parts;
  `KeepsPromise`, that every step of the multiplexer is a step of `StreamPromise` or
  leaves what the reader sees alone (a frame is delivered by the step that puts it on
  the wire, so that one step may produce and deliver); and `BytesAccounted`. The last
  needs sums over streams and over queues, which are folds. `MapThenFoldSet` is unfolded
  from its definition: that a function with its recursion exists is shown by induction
  over the numbers, stated with a set of numbers and not with a predicate, and gives
  what a sum is when one element is added, taken out or changed. `Balanced` then says
  of the sender, as a value, that charges and frames agree; each of its operations
  keeps it. `LineIsFair` proves `NoOvertaking`: who leaves the line or joins it at the
  back lets nobody in before another, and a frame is handed to the socket only by the
  first in line, who thereby stands before nobody (`BeforeAppend`, `BeforeTail`,
  `BeforeRemove`); that the line has no repetitions is what makes the last true.
- *AssistantStream.* Assumed: `MirrorAssumption` (finite sets of sessions,
  positive limits). `Faithful` speaks of the mirror only, and a stored baseline
  that is delivered later must have been true when it was captured: `SessionInv`
  states the same of mirror, captured read and phone, and that ids in the mirror
  were started by an agent. The counter needs the cardinality lemma for
  one session that changes. Proved: `TypeOK`, `AttemptsCounted`,
  `MirrorSound` with its two parts, and from the invariant the action properties
  `PublicRevisionGrows` and `NoResurrection`.
- *BootstrapGate.* Assumed: `GateAssumption` (a positive limit; the values for "no
  session" and "no state object" are none). A release drains the queue and may grant
  several reads in one step, so the invariant is a predicate of the gate as a value
  (`Whole`, `Conserving`): a reader holds its session's state object and it is marked,
  a marked one is read by somebody, a state object is of one session, the queue
  holds the waiters, each once. Each round of the drain keeps it; the rounds are a
  recursive function over the numbers, and an induction over the set of round numbers
  carries it to the last, which comes after as many rounds as there were waiters at
  most. Proved: `GateSound` with its parts and `SessionOrder`; the latter needs that no
  round lets a read pass one of its own session.
- *ManagedLauncher.* Assumed: `ManagedLauncherAssumption` (the values that stand
  for "no file" differ from launchers and processes). The invariant says what a
  launcher knows at each await: birth stamps are given once, so a process found
  dead stays dead; between the guard and the unlink the lock still names the dead
  owner, because only the guard's holder removes a lock it does not own. None of this
  rests on file operations that succeed: a failure leaves a file or ends the launch, and
  either is a state the invariant covers. `LeftoversExplained` proves that whatever lies
  there was left by a death or by such a failure. Proved: `TypeOK`, `MutexSound` with its
  two parts, `OneAccounted`, `SuccessIsVerified`,
  `RecordKept`.
- *HostCarriers.* Assumed: `CarriersAssumption` (at least one carrier may be attached).
  That a host has one tunnel (`OneTunnel`) is not inductive: it follows because every
  tunnel that is up belongs to the carrier in use (`NoTunnelLeft`), which never has
  both a tunnel and a dial. That in turn needs that a carrier that was replaced is
  closed, so that its late dial is closed when it succeeds, and that a closed carrier
  has no tunnel (`CarrierInv`); calls hold tunnels there were (`CallInv`). Proved:
  `CarriersSound` with all its parts.
- *RuntimeRestart.* Assumed: `RestartAssumption` (`Nobody` is no request). That one
  broker replaces the runtime needs that a restart which is forked, requested or
  exiting is the shared one, and that a broker whose restart is none of these is
  cancelled (`RunInv`): then every way in which a restart can fail while the runtime
  runs ends it and cancels its broker in one step. That the answer precedes the exit
  needs that the request which began the restart waits while the handshake lasts, is
  accepted after it, and is the one the exit waits for. Proved: `RestartSound` with
  all its parts, without the fairness of the run.
- *SessionList.* Assumed: `ListAssumption` (finitely many sessions, since an answer
  queues one frame for each; "no list" and "pending" are no lists). `LateNotStale` is
  not inductive: when the answer of a host leaves nothing says yet which frames it will
  meet. `NewsFree` says it while the answer is on its way: of a session the hub has
  heard nothing of since the request, no window was told anything newer than the
  answer has. That no host is forgotten needs that what a waiting call knew is still
  known (`CallsKnow`). That a late answer reaches every window needs that a window
  whose link is ready is among the targets of the request under way (`Linked`), which is
  what the code's second capture of targets, when a link becomes ready, is for. Proved:
  `ListSound` with its parts and `LateReachesAll`.
- *SessionPersistence.* Assumed: `PersistenceAssumption`, of which a chunk that is not
  empty is used (the last chunk is known by being empty). Turns are handed on from write
  to write, so that a write whose turn has come has no earlier one left needs, of each
  write, that all between it and the one it waits for have settled (`TurnFits`), and of a
  queue that nothing after the write it names is left (`QueueFits`). Then at most one
  write of a session runs, all before it have settled, and as it runs only on a session
  that is not uncertain (`SureFits`), those with events in the log went well: its own
  come after them (`EventFits`, `InOrder`, `AllThere`). A log only grows at its end, so
  that what was read of it stays a part of it (`ReadFits`). Proved: `PersistenceSound`
  with its parts, for both contracts.
- *HubAsks.* Nothing is assumed. Both parts of `AsksSound` follow from the life of one
  ask. It is named by itself (`AskNamesOwn`), so an answer that finds its name finds its
  ask. What a host has sent on its connection begins with `ready`, has each ask
  once and each withdrawal after its ask (`WireIn`), so the hub never withdraws an ask
  it has not named and never names one twice. On the page's queue an ask is opened once,
  before any withdrawal, and not after it was shown or answered (`AskQueued`,
  `AskSeen`); that a new one is none of these follows because whatever the page
  knows the hub has met, on this connection or an earlier one (`Met`). `AskStands` then
  says of each named ask where it is while it travels: open means it is shown, will be,
  or is answered, and closed means that its withdrawal is on its way or it is not shown.
- *HubFollow.* Assumed: `FollowAssumption` (bounds are numbers). Carrier and hub run the
  same encoder, and the hub takes what it would have made itself: on a follow that runs
  both stand at the same event with the same attempt and nothing pending (`Runs`,
  `Stand`). A push makes one to four frames, so the `FoldLeft` over them is unfolded that
  often. That the shown attempt is the one a snapshot would show needs the log: positions
  grow, a turn and a step start once, and a chunk comes only inside a step that began
  after the last end (`LogSound`); then what an event does to the attempt is what it does
  to `Opening`, a definition over the whole log (`ShownRight`). An attempt whose turn or
  step ended with nothing to settle it is gone from the page while a snapshot still shows
  it, which is the one difference and is stated. Proved: `FollowSound` with its parts.
- *PageMux.* Nothing is assumed. Items of a stream count on from what it has,
  through the frames of its socket that are not read, up to what the server has sent
  (`ItemsFrom`, `ItemsUpTo`); only the newest socket is on its way or open, and
  a stream that runs on it is one its server may have open (`PageServed`). Proved:
  `PageSound` with its three parts.
- *DirectoryBrowser.* Assumed: `PickerAssumption` (directories are numbers, 0 the root,
  since two negative numbers stand for a path that is no directory and for none). Every
  listing that is not superseded finds the dialog as its launch left it (`Pending`), there
  is at most one, and the dialog waits for it or for nothing (`PickScans`). Hence a late
  listing is either dropped by its number or fits the panes. Proved: `PanesSound` and
  `TargetKept`.
- *Interactions.* Assumed: `InteractionsAssumption` (finitely many asks, since a stream
  that opens is given all that are open; `NoAsk` is none; positive limits). The two maps of
  the hub and the streams are folds over the frames the bridge tells, so `FoldLeft` is
  unfolded to a sequence of states, one per frame. What a phone shows once it
  has read its queue (`Tells`) is decided by the last frame about an ask: reading
  moves a frame from the queue to what is shown and changes nothing. That it is
  what is pending (`PhoneSound`) needs that a frame which the stream drops, because it
  remembers it, tells nothing new: a withdrawal it remembers is of an ask that is over and
  whose request will not come again on this connection, a request it remembers is pending or
  over. The official stream offers an ask once per connection and withdraws it after
  it was closed (`BoxSound`), and the answer of an ask is the one in flight
  (`AnswerSound`). Proved: `BridgeSound` with its parts and `WithdrawnWhenOver`.
- *MobileEvents.* Assumed: `MobileEventsAssumption` (the value for "any session" is none,
  positive limits). Every operation of the hub is taken as a function from hub to hub, and
  the invariant is a predicate of the hub as a value (`HubIsSound`), so that the folds (a
  created session, a page read, a replay, a flush) keep it step by step. Of an open
  stream it says that an event owed to it was given, waits in the buffer, or was skipped
  for a reason (`NothingLost`). Until the archived sessions are known the buffer has all
  that is live and not skipped, nothing that waits is in the cache unmarked, and an event
  that waits behind a later one of its session waits before that one as well
  (`StillWaits`, `WaitsInOrder`): the overflow drops the oldest entry and a session told
  again appends its events anew, so that the buffer is not sorted, and without this the
  flush could give a stream a number after a higher one. What the flush takes out is given
  or skipped (`MarkKept` holds afterwards), and then each live event raises the watermark,
  which a history read that ends late cannot take back. Proved: `EventsSound` with its
  parts and `ArchivedSilent`.
- *SessionDelta.* Nothing is assumed of the constants. Logs
  are bounded sets of numbers (`LogsOK`), so that each has an end. What a walk over
  pages needs is that the records it has read are all of the log after the cursor it
  began with, up to the last it read, also when the log grew between two pages
  (`DeltaCallOK`, `WalkIsExact`); an answer was true when it was made and what is
  appended later does not touch it (`AnswerTrue`). Proved: `DeltaSound` with its parts.
- *MobileReads.* Assumed: `ReadsAssumption`; that the event limit is not 0 is used, since
  a page of no events would say there is more and never move. A cursor, a request and a
  mark are worth something only in the epoch they are of: `AskFits`, `CopyFits` and
  `MarkOfThisLog` say so, and a restart that gives the log a new epoch makes them empty
  and not false. Of a phone in the current epoch, what it lacks below its cursor is
  older than all it holds and it knows that there is more (`CopyHas`). Proved:
  `ReadsSound` with its parts.
- *AndroidSync.* Assumed: `AndroidAssumption` (limits are numbers, at least one event fits,
  finitely many sessions). No watermark, notice of the multiplexer or tail read is ahead
  of the log (`WatermarksOK`, `ColdOK`). A walk back has read everything from its last
  page to the tail it saw live (`ReadInProgress`); a delta that is cut to the limits keeps
  the front of that interval and a history page its end (`CutAt`, `TookFront`), and as one
  event always fits, a cut delta still moves the phone on. Logs grow and watermarks only
  rise, so that what was told stays true (`ToldStays`). Proved: `AndroidSound` with its
  parts.
- *AndroidEvents.* Assumed: `AndroidEventsAssumption` (limits are numbers, texts are
  sequences of widths, finitely many asks). Of every stream that is not over and of every
  ask, the last word about it that waits in the queue, or what the phone shows when none
  waits, is what the hub has open (`FeedTells`). A word is left out only when the same one
  is in the memory, so the memory has to be true as well: a remembered "requested" is of
  an ask that is open at the hub or closed at the host, a remembered "resolved" is of one
  that is closed and comes never again (`SeenTrue`). That a stream is in order needs the
  last number it was given above all that waits (`FeedOrder`). The texts are the sum over
  what is resident (`DetailsFit`); eviction takes the shortest front of the keys after which
  both bounds hold, and there is one since nothing is left when all are gone. A read of a
  text stands at the end of so many whole code points (`ChunkFits`); one always fits and
  no width is 0, so the offset names its place. The folds over numbers and sequences are
  unfolded with `FoldSteps`. Proved: `FeedSound` with its parts.

Only model-checked:

- liveness, since fairness and ENABLED are outside what the prover can do:
  `NoStarvation` of the gate, `ColdTailsSettle`, `AddressesHeal`, `CallsAnswered`,
  `SlowHostIgnored`, `SearchesEnd`;
- everything about `HubRequest`, of which liveness is all that is checked;
- everything about `SessionAddresses` and `HubAggregate`, whose invariants relate logs,
  pages and cursors of several readers. `HubAggregate` cuts and merges the lists of the
  hosts with `SelectSeq` and `FlattenSeq`, of which the prover has no definition it can use.

`TypeOK` of the multiplexer and of the launcher is proved and in no run.

## 9. Disagreements found

1. *The end of a stream can end all streams* (`EndIsolated`). The end frame is
   enqueued by force; if the stream's own queue is full the enqueue fails and
   `failSocket` ends the socket, although COMPATIBILITY.md:13 keeps failures of a
   stream away from unrelated resources. An overflow by an item ends only its
   stream.
2. *A mirror that missed a frame does not heal* (`BaselineHeals`). `ingest` fails
   with `baselineRequired`, but with an attempt under way `baseline()` returns the
   mirror's own state and installs nothing. `reset()` would clear it and has no
   caller outside the tests.
3. *An ask offered again is not shown* (`PendingIsShown`). The bridge withdraws
   what is pending when its stream breaks and offers it again under the same id;
   a phone stream that remembers the first delivery drops the second.
   `FreshPhoneAgrees` states what does hold.
4. *A buffered event that a read has already cached is emitted to no one*
   (`LiveDelivered`). `NoSilentGap` shows it is the only such case besides
   archived sessions.
5. *A delta states a tail that nobody read* (`TailProven`). When the first page of a
   delta is unusable the answer asks for a baseline and states the cursor of the
   request as the last event, with `lastSeqKnown` true, and the hub takes it into
   its watermark, although the package's README.md:68 leaves `lastSeq` out when the
   tail is not proven.

Seen while modelling and not run, because no document, comment or test of the
repository says otherwise clearly enough, or because a run of its own would show
little more:

- A `session/list` call stores all its results when its last host has answered, also
  the old result of a fast host that a later call has renewed (`index.js:1465`).
- A page stream opened while the old socket is closing takes the next epoch, the
  close event of the old socket is then ignored, and the streams of the old socket
  hear nothing more (`index.js:1197-1220`).
- A draft that rests in the path editor supersedes a listing the user has submitted
  from elsewhere (`DirectoryBrowser.tsx:669`).
- An Android delta that was cut to what fits says `caughtUp` if the walk behind it
  had caught up (`index.ts:196`).
- A mobile stream may be opened again after an overflow and show a control of which
  it forgot the end; a stream that remembers the end of an ask and forgot its
  request takes a replayed request and drops the end (`mobile-stream`, 2085-2092).
- An ask that is resolved while the Android mux is down stays in the feed.
- An abort error that is neither the client's nor the timer's ends a request of
  `mobile-session-sync` without a response (`index.js:421`).
- A cursor of an earlier life of a session is not noticed once the new log is as
  long, in runtimes without a history epoch.
- `uncertain` of the persistence port is never cleared, a `TypeError` counts as a
  create that is known to have failed, and reads do not wait for writes.
- A restart of a remote host attaches the target it captured before its await, also
  when the host was switched off or removed meanwhile; the restart of a host that is
  switched off ends with a TypeError, since there is no carrier to connect
  (`rc1-host-carriers/src/index.js:245-246`).
- Edits of the host table read, change and store it without excluding each other, and
  with one name for the temporary file (`remote-hosts-settings-rc1/src/store.js`).
- An attempt that the opening snapshot of a follow stream begins with is not reset
  by a `turn/end` (`browser-stream.js:154`).

## 10. Not modelled

`PROJECT.json` names every component with its status. Left out of the modelled
components: request admission of the upgrade route; sanitizing of assistant
frames and validation of answers and descriptors, which is data; dispose of the
event hub and the detail cache of the mobile stream service (the Android copy's is
modelled); log files and the Windows job of the launcher; records of another
descriptor; the cold-start mode of the broker and the forced exit of a runtime
that does not stop; the eviction of the 65th list snapshot and a changing set of
hosts of a list; range requests of the file proxy; inspect, list and the older
service of the persistence port beyond its writes; projections of history records
to events; keyboard and focus of the dialog; the stages of a dial and the errors
the settings show of it.

Not modelled at all: the mobile controller, agent operations, subscriptions and
search (they map or forward single requests and keep no state that two requests
could disturb); host settings and the bootstrap publisher (in the plan);
user interface besides the dialog; text patches and build tools, which are no
running system.
