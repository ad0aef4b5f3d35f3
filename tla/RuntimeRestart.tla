--------------------------- MODULE RuntimeRestart ---------------------------
(***************************************************************************)
(* Restarting the local runtime from its own management page               *)
(* (local-runtime-restart.js and the broker half of                        *)
(* managed-runtime-launcher.mjs).  Requests share one restart; the runtime *)
(* forks a broker, shakes hands with it over IPC, tells the requests that  *)
(* the restart is accepted, and exits when the response of the request     *)
(* that began the restart has been sent.  The broker waits for the exit    *)
(* and launches the replacement; ManagedLauncher details that launch.      *)
(* The end of an IPC channel is the last message in it.                    *)
(***************************************************************************)
EXTENDS Integers, Sequences

CONSTANTS Callers,            \* requests to /remote-hosts/restart
          Nobody,
          MaxRuns             \* bound: restarts begun, each with a broker

ASSUME RestartAssumption == Nobody \notin Callers /\ MaxRuns \in Nat

VARIABLES parent, reused,     \* the runtime; whether its process number was given again
          tracked,            \* whether it can observe its responses
          phase, response,    \* of a request: what restart() told it; its response
          pending, run, caller, armed,   \* the shared restart, 0 for none; of every restart:
                              \*   its request, and the one whose response gates the exit
          state, busy, lastError,        \* what status() reports
          fork,               \* the runtime's end of a broker's IPC
          broker, end,        \* a broker, and its end
          toBroker, toParent  \* messages under way

requests == <<phase, response>>
reported == <<state, busy, lastError>>
restart == <<pending, run, caller, armed, reported>>
brokers == <<broker, end>>
wires == <<toBroker, toParent>>
restartVars == <<parent, reused, tracked, requests, restart, fork, brokers, wires>>

Runs == 1..MaxRuns
Forks == [link : BOOLEAN, prepared : BOOLEAN, cancelled : BOOLEAN, acknowledged : BOOLEAN]
BrokerEnds == [link : BOOLEAN, cancelled : BOOLEAN, committed : BOOLEAN]
ToBroker == {"prepare", "commit", "cancel", "end"}
ToParent == {"ready", "committed", "error", "end"}
LiveBroker == {"starting", "announced", "waiting", "launching"}

RestartTypeOK ==
  /\ parent \in {"running", "stopping", "gone"} /\ reused \in BOOLEAN /\ tracked \in BOOLEAN
  /\ phase \in [Callers -> {"idle", "arrived", "waiting", "accepted", "rejected"}]
  /\ response \in [Callers -> {"none", "open", "finished", "closed"}]
  /\ pending \in 0..MaxRuns
  /\ run \in [Runs -> {"none", "forked", "requested", "exiting", "failed"}]
  /\ caller \in [Runs -> Callers \cup {Nobody}] /\ armed \in [Runs -> Callers \cup {Nobody}]
  /\ state \in {"ready", "starting", "requested", "failed"}
  /\ busy = (state \in {"starting", "requested"})
  /\ lastError \in {"none", "failed", "closed", "exit"}
  /\ fork \in [Runs -> Forks] /\ end \in [Runs -> BrokerEnds]
  /\ broker \in [Runs -> LiveBroker \cup {"none", "launched", "ended"}]
  /\ toBroker \in [Runs -> Seq(ToBroker)] /\ toParent \in [Runs -> Seq(ToParent)]

RestartInit ==
  /\ parent = "running" /\ reused = FALSE /\ tracked \in BOOLEAN
  /\ phase = [c \in Callers |-> "idle"] /\ response = [c \in Callers |-> "none"]
  /\ pending = 0
  /\ run = [r \in Runs |-> "none"] /\ caller = [r \in Runs |-> Nobody]
  /\ armed = [r \in Runs |-> Nobody]
  /\ state = "ready" /\ busy = FALSE /\ lastError = "none"
  /\ fork = [r \in Runs |-> [link |-> FALSE, prepared |-> FALSE,
                             cancelled |-> FALSE, acknowledged |-> FALSE]]
  /\ end = [r \in Runs |-> [link |-> FALSE, cancelled |-> FALSE, committed |-> FALSE]]
  /\ broker = [r \in Runs |-> "none"]
  /\ toBroker = [r \in Runs |-> <<>>] /\ toParent = [r \in Runs |-> <<>>]

-----------------------------------------------------------------------------
(* The runtime's end of a broker *)

Report(s, error) == /\ state' = s /\ lastError' = error
                    /\ busy' = (s \in {"starting", "requested"})

\* forkManagedRuntimeBroker's cancel: once, and only as far as the channel is up.
Cancelled(r) ==
  /\ fork' = [fork EXCEPT ![r].cancelled = TRUE]
  /\ toBroker' = IF fork[r].link /\ ~fork[r].cancelled
                 THEN [toBroker EXCEPT ![r] = Append(@, "cancel")] ELSE toBroker

\* All requests of the restart under way are told the same.
Told(answer) ==
  phase' = [c \in Callers |-> IF phase[c] = "waiting" THEN answer ELSE phase[c]]

\* The catch of run(), entered with broker r still to be cancelled.
RunFails(r) ==
  /\ run' = [run EXCEPT ![r] = "failed"] /\ pending' = 0
  /\ Report("failed", "failed")
  /\ Told("rejected")
  /\ Cancelled(r)
  /\ UNCHANGED armed

\* Its response record is tracked from the arrival of the request to its end.
Arrive(c) ==
  /\ parent = "running" /\ phase[c] = "idle"
  /\ phase' = [phase EXCEPT ![c] = "arrived"]
  /\ response' = [response EXCEPT ![c] = "open"]
  /\ UNCHANGED <<parent, reused, tracked, restart, fork, brokers, wires>>

\* The promise a new restart is named after.
NextRun == CHOOSE r \in Runs : run[r] = "none"
Fresh == \E r \in Runs : run[r] = "none"

\* restart() of a request that finds none under way; run() up to the fork.
Begin(c) ==
  /\ parent # "gone" /\ phase[c] = "arrived" /\ pending = 0 /\ Fresh
  /\ pending' = NextRun
  /\ run' = [run EXCEPT ![NextRun] = "forked"]
  /\ caller' = [caller EXCEPT ![NextRun] = c]
  /\ Report("starting", "none")
  /\ fork' = [fork EXCEPT ![NextRun].link = TRUE]
  /\ broker' = [broker EXCEPT ![NextRun] = "starting"]
  /\ end' = [end EXCEPT ![NextRun].link = TRUE]
  /\ phase' = [phase EXCEPT ![c] = "waiting"]
  /\ UNCHANGED <<parent, reused, tracked, response, armed, wires>>

\* The identity is wrong, or the fork throws: run() fails before its first await, its
\* catch clears pending, and restart() then stores the rejected promise in it.
BeginFails(c) ==
  /\ parent # "gone" /\ phase[c] = "arrived" /\ pending = 0 /\ Fresh
  /\ pending' = NextRun
  /\ run' = [run EXCEPT ![NextRun] = "failed"]
  /\ caller' = [caller EXCEPT ![NextRun] = c]
  /\ Report("failed", "failed")
  /\ phase' = [phase EXCEPT ![c] = "rejected"]
  /\ UNCHANGED <<parent, reused, tracked, response, armed, fork, brokers, wires>>

\* restart() of a request that finds one: it gets the same promise.
Share(c) ==
  /\ parent # "gone" /\ phase[c] = "arrived" /\ pending # 0
  /\ phase' = [phase EXCEPT ![c] = CASE run[pending] = "forked" -> "waiting"
                                     [] run[pending] = "failed" -> "rejected"
                                     [] OTHER -> "accepted"]
  /\ UNCHANGED <<parent, reused, tracked, response, restart, fork, brokers, wires>>

\* The birth stamp of this process is read, or cannot be; only then the broker is told.
\* A broker that is cancelled by then is told nothing.
Prepare(r) ==
  /\ parent # "gone" /\ broker[r] # "none" /\ ~fork[r].prepared /\ ~fork[r].cancelled
  /\ \/ /\ run[r] = "forked"
        /\ RunFails(r)
     \/ /\ fork[r].link
        /\ fork' = [fork EXCEPT ![r].prepared = TRUE]
        /\ toBroker' = [toBroker EXCEPT ![r] = Append(@, "prepare")]
        /\ UNCHANGED <<run, pending, armed, reported, phase>>
  /\ UNCHANGED <<parent, reused, tracked, response, caller, brokers, toParent>>

\* What is left of cancel when its message has been written: the channel is closed.
Disconnect(r) ==
  /\ parent # "gone" /\ fork[r].cancelled /\ fork[r].link
  /\ fork' = [fork EXCEPT ![r].link = FALSE]
  /\ toBroker' = [toBroker EXCEPT ![r] = Append(@, "end")]
  /\ toParent' = [toParent EXCEPT ![r] = <<>>]
  /\ UNCHANGED <<parent, reused, tracked, requests, restart, brokers>>

\* Variant, not the code: the timer starts when the broker has its orders.
ReadyTimeoutPrepared(r) ==
  /\ parent # "gone" /\ run[r] = "forked" /\ fork[r].prepared
  /\ RunFails(r)
  /\ UNCHANGED <<parent, reused, tracked, response, caller, brokers, toParent>>

\* The ready handshake did not complete in readyTimeoutMs, or the child failed.
ReadyTimeout(r) ==
  /\ parent # "gone" /\ run[r] = "forked"
  /\ RunFails(r)
  /\ UNCHANGED <<parent, reused, tracked, response, caller, brokers, toParent>>

\* claim(): the response of the request in whose context run() was called.
Claim(r) == {c \in {caller[r]} : response[c] = "open"}

\* The handshake is complete, and run() goes on to its end: the exit waits for the
\* response of its request or, where responses cannot be observed, for a timer.
Committed(r) ==
  /\ run[r] = "forked"
  /\ tracked => Claim(r) # {}
  /\ run' = [run EXCEPT ![r] = "requested"]
  /\ \E c \in IF tracked THEN Claim(r) ELSE {Nobody} : armed' = [armed EXCEPT ![r] = c]
  /\ Report("requested", lastError)
  /\ Told("accepted")
  /\ fork' = [fork EXCEPT ![r].acknowledged = TRUE]
  /\ UNCHANGED <<pending, toBroker>>

\* The response is gone: there is nothing to wait for, and the restart fails.
CommittedForNobody(r) ==
  /\ run[r] = "forked" /\ tracked /\ Claim(r) = {}
  /\ run' = [run EXCEPT ![r] = "failed"] /\ pending' = 0
  /\ Report("failed", "failed")
  /\ Told("rejected")
  /\ fork' = [fork EXCEPT ![r].acknowledged = TRUE, ![r].cancelled = TRUE]
  /\ toBroker' = [toBroker EXCEPT ![r] = Append(@, "cancel")]
  /\ UNCHANGED armed

\* The runtime reads the next message of a broker.
ParentReads(r) ==
  /\ parent # "gone" /\ fork[r].link /\ toParent[r] # <<>>
  /\ toParent' = [toParent EXCEPT ![r] = Tail(@)]
  /\ LET m == Head(toParent[r]) IN
     \/ /\ m = "ready"
        /\ toBroker' = [toBroker EXCEPT ![r] = Append(@, "commit")]
        /\ UNCHANGED <<run, pending, armed, reported, phase, fork>>
     \/ /\ m = "committed"
        /\ \/ Committed(r)
           \/ CommittedForNobody(r)
           \/ /\ run[r] # "forked"
              /\ fork' = [fork EXCEPT ![r].acknowledged = TRUE]
              /\ UNCHANGED <<run, pending, armed, reported, phase, toBroker>>
     \/ /\ m \in {"error", "end"}
        /\ \/ /\ run[r] = "forked" /\ m = "error"
              /\ RunFails(r)
           \/ /\ run[r] = "forked" /\ m = "end"
              /\ run' = [run EXCEPT ![r] = "failed"] /\ pending' = 0 /\ armed' = armed
              /\ Report("failed", "failed") /\ Told("rejected")
              /\ fork' = [fork EXCEPT ![r].link = FALSE, ![r].cancelled = TRUE]
              /\ UNCHANGED toBroker
           \/ /\ run[r] # "forked"
              /\ fork' = [fork EXCEPT ![r].link = @ /\ m # "end"]
              /\ UNCHANGED <<run, pending, armed, reported, phase, toBroker>>
  /\ UNCHANGED <<parent, reused, tracked, response, caller, brokers>>

-----------------------------------------------------------------------------
(* Responses and the exit *)

\* finishExit: appExit is called; the IPC channel is closed, which cancels nothing.  If
\* appExit throws, the restart is over.
FinishExit(r) ==
  \/ /\ run' = [run EXCEPT ![r] = "exiting"] /\ parent' = "stopping"
     /\ fork' = [fork EXCEPT ![r].link = FALSE]
     /\ toBroker' = IF fork[r].link THEN [toBroker EXCEPT ![r] = Append(@, "end")] ELSE toBroker
     /\ UNCHANGED <<pending, reported>>
  \/ /\ run' = [run EXCEPT ![r] = "failed"] /\ pending' = 0
     /\ Report("failed", "exit")
     /\ Cancelled(r)
     /\ UNCHANGED parent

\* Variant, not the code: the broker is left as it is.
WithdrawnOnly(r) ==
  /\ run' = [run EXCEPT ![r] = "failed"] /\ pending' = 0
  /\ Report("failed", "closed")
  /\ UNCHANGED <<fork, toBroker>>

\* onClose of an armed response.
Withdrawn(r) ==
  /\ run' = [run EXCEPT ![r] = "failed"] /\ pending' = 0
  /\ Report("failed", "closed")
  /\ Cancelled(r)

\* Restarts whose exit waits for the response of c.
Waiting(c) == {r \in Runs : run[r] = "requested" /\ armed[r] = c}

Over(c, how) == response' = [response EXCEPT ![c] = how]

\* The response of an answered request has been handed to the system.
Finish(c) ==
  /\ parent # "gone" /\ response[c] = "open" /\ phase[c] \in {"accepted", "rejected"}
  /\ Over(c, "finished")
  /\ \/ \E r \in Waiting(c) : FinishExit(r)
     \/ Waiting(c) = {} /\ UNCHANGED <<run, pending, reported, parent, fork, toBroker>>
  /\ UNCHANGED <<reused, tracked, phase, caller, armed, brokers, toParent>>

\* The client goes away first.
Close(c) ==
  /\ parent # "gone" /\ response[c] = "open"
  /\ Over(c, "closed")
  /\ \/ \E r \in Waiting(c) : Withdrawn(r)
     \/ Waiting(c) = {} /\ UNCHANGED <<run, pending, reported, fork, toBroker>>
  /\ UNCHANGED <<parent, reused, tracked, phase, caller, armed, brokers, toParent>>

\* The timer of a runtime that cannot observe its responses.
Timer(r) ==
  /\ parent = "running" /\ run[r] = "requested" /\ armed[r] = Nobody
  /\ FinishExit(r)
  /\ UNCHANGED <<reused, tracked, requests, caller, armed, brokers, toParent>>

\* The process is gone: by the shutdown appExit began, by exit(0) after it, or by a
\* crash.  Its ends of the channels close with it.
ProcessExits ==
  /\ parent # "gone"
  /\ parent' = "gone"
  /\ fork' = [r \in Runs |-> [fork[r] EXCEPT !.link = FALSE]]
  /\ toBroker' = [r \in Runs |-> IF fork[r].link THEN Append(toBroker[r], "end") ELSE toBroker[r]]
  /\ toParent' = [r \in Runs |-> <<>>]
  /\ response' = [c \in Callers |-> IF response[c] = "open" THEN "closed" ELSE response[c]]
  /\ UNCHANGED <<reused, tracked, phase, restart, brokers>>

\* Another process gets its number.
NumberReused ==
  /\ parent = "gone" /\ ~reused
  /\ reused' = TRUE
  /\ UNCHANGED <<parent, tracked, requests, restart, fork, brokers, wires>>

-----------------------------------------------------------------------------
(* The broker *)

Says(r, messages) ==
  toParent' = IF end[r].link /\ fork[r].link THEN [toParent EXCEPT ![r] = @ \o messages]
              ELSE toParent

\* The broker is over, as stage tells; the channel closes with it.
BrokerOver(r, stage, messages) ==
  /\ broker' = [broker EXCEPT ![r] = stage]
  /\ end' = [end EXCEPT ![r].link = FALSE]
  /\ Says(r, messages \o <<"end">>)

Gives(r, stage) == broker' = [broker EXCEPT ![r] = stage]

\* A broker that learns it is cancelled while it waits for the commit ends; one that
\* waits for the exit, or for its orders, keeps the flag.
LearnsCancel(r, linked) ==
  \/ /\ broker[r] = "announced"
     /\ BrokerOver(r, "ended", <<"error">>)
  \/ /\ broker[r] # "announced"
     /\ end' = [end EXCEPT ![r].cancelled = TRUE, ![r].link = linked]
     /\ UNCHANGED <<broker, toParent>>

\* prepare, as it comes to a broker that is cancelled or not.
Prepared(r) ==
  \/ /\ ~end[r].cancelled
     /\ Gives(r, "announced") /\ Says(r, <<"ready">>) /\ UNCHANGED end
  \/ /\ end[r].cancelled
     /\ BrokerOver(r, "ended", <<"error">>)

\* The broker reads the next message.
BrokerReads(r) ==
  /\ broker[r] \in LiveBroker /\ toBroker[r] # <<>>
  /\ toBroker' = [toBroker EXCEPT ![r] = Tail(@)]
  /\ LET m == Head(toBroker[r]) IN
     \/ m = "prepare" /\ Prepared(r)
     \/ /\ m = "commit" /\ broker[r] = "announced"
        /\ Gives(r, "waiting")
        /\ end' = [end EXCEPT ![r].committed = TRUE]
        /\ Says(r, <<"committed">>)
     \/ m = "cancel" /\ LearnsCancel(r, end[r].link)
     \/ m = "end" /\ ~end[r].committed /\ broker[r] # "starting" /\ LearnsCancel(r, FALSE)
     \/ m = "end" /\ ~end[r].committed /\ broker[r] = "starting" /\ BrokerOver(r, "ended", <<>>)
     \/ /\ m = "end" /\ end[r].committed
        /\ end' = [end EXCEPT ![r].link = FALSE] /\ UNCHANGED <<broker, toParent>>
  /\ UNCHANGED <<parent, reused, tracked, requests, restart, fork>>

\* What readProcessBirthStamp may answer of the process that has the number.
StampAnswers == IF parent # "gone" THEN {"same", "unreadable"}
          ELSE IF reused THEN {"other", "unreadable"} ELSE {"unreadable"}

\* waitForProcessExit takes the original for gone.
SeenGone(stamp) == (parent = "gone" /\ ~reused) \/ stamp = "other"

\* One tick of waitForProcessExit, at its deadline or before.
Tick(r) ==
  /\ broker[r] = "waiting"
  /\ \/ /\ end[r].cancelled
        /\ BrokerOver(r, "ended", <<"error">>)
     \/ /\ ~end[r].cancelled
        /\ \E stamp \in StampAnswers : SeenGone(stamp)
        /\ Gives(r, "launching") /\ UNCHANGED <<end, toParent>>
     \/ /\ ~end[r].cancelled /\ (parent # "gone" \/ reused)
        /\ BrokerOver(r, "ended", <<"error">>)
  /\ UNCHANGED <<parent, reused, tracked, requests, restart, fork, toBroker>>

\* launchManagedRuntime succeeds or fails; a broker cancelled meanwhile has launched all
\* the same.
Launch(r) ==
  /\ broker[r] = "launching"
  /\ \E stage \in {"launched", "ended"} : BrokerOver(r, stage, <<>>)
  /\ UNCHANGED <<parent, reused, tracked, requests, restart, fork, toBroker>>

\* A broker dies at any time.
BrokerDies(r) ==
  /\ broker[r] \in LiveBroker
  /\ BrokerOver(r, "ended", <<>>)
  /\ UNCHANGED <<parent, reused, tracked, requests, restart, fork, toBroker>>

Request(c) == Arrive(c) \/ Begin(c) \/ BeginFails(c) \/ Share(c) \/ Finish(c) \/ Close(c)
Runtime(r) == Prepare(r) \/ Disconnect(r) \/ ReadyTimeout(r) \/ ParentReads(r) \/ Timer(r)
Broker(r) == BrokerReads(r) \/ Tick(r) \/ Launch(r) \/ BrokerDies(r)

RestartNext ==
  \/ \E c \in Callers : Request(c)
  \/ \E r \in Runs : Runtime(r) \/ Broker(r)
  \/ ProcessExits
  \/ NumberReused

\* The ready timer fires; nothing is assumed of brokers, clients or the system.
RestartFairness == \A r \in Runs : WF_restartVars(ReadyTimeout(r))
RestartSafeSpec == RestartInit /\ [][RestartNext]_restartVars
RestartSpec == RestartSafeSpec /\ RestartFairness

-----------------------------------------------------------------------------
(* Properties *)

\* While the runtime runs, every broker it has forked and not cancelled belongs to the
\* restart under way: no forgotten broker waits to replace a runtime that only reports a
\* failed restart.  When the runtime stops, one broker has acknowledged that it replaces
\* it, and no other is uncancelled.
OneBroker ==
  \A r \in Runs : broker[r] # "none" /\ ~fork[r].cancelled =>
    /\ parent = "running" => pending = r
    /\ parent = "stopping" => run[r] = "exiting" /\ fork[r].acknowledged

\* The runtime asks for its exit only when the request that began the restart has its
\* answer: accepted, and sent (unless responses cannot be observed).
ResponseFirst ==
  \A r \in Runs : run[r] = "exiting" =>
    phase[caller[r]] = "accepted" /\ (tracked => response[caller[r]] = "finished")

\* A replacement is launched only when the original process is gone, though its number
\* may be in use again and birth stamps cannot always be read.
LaunchAfterExit ==
  \A r \in Runs : broker[r] \in {"launching", "launched"} => parent = "gone"

\* The runtime is replaced by one broker, after it has answered and gone.
RestartSound == RestartTypeOK /\ OneBroker /\ ResponseFirst /\ LaunchAfterExit

\* A request that waits for the handshake is answered, or the process ends.
CallsAnswered ==
  \A c \in Callers : phase[c] = "waiting" ~> phase[c] # "waiting" \/ parent = "gone"
=============================================================================
