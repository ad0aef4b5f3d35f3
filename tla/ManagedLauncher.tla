--------------------------- MODULE ManagedLauncher ---------------------------
(***************************************************************************)
(* Launching the one official runtime of a descriptor                      *)
(* (managed-runtime-launcher.mjs).  Any number of launcher processes, CLIs  *)
(* and restart brokers, meet on three files: a mutex that is published by a *)
(* hard link, a guard for taking over the mutex of a dead process, and the  *)
(* record of the running instance.  A process is its number and its birth   *)
(* stamp, because numbers are used again.  Every action is one await: a     *)
(* launcher may die between any two, and every query about a process or the *)
(* port and every operation on a file may fail.                             *)
(***************************************************************************)
EXTENDS Naturals, FiniteSets

CONSTANTS Launchers, Pids,
          None,                   \* no file, no process, nobody on the port
          Broken,                 \* a record that cannot be read
          MaxBirths               \* bound: processes that are ever started

ASSUME ManagedLauncherAssumption ==
  /\ None \notin Launchers \cup Pids /\ Broken # None
  /\ {None, Broken} \cap [pid : Pids, stamp : 1..MaxBirths] = {}
  /\ MaxBirths \in Nat

VARIABLES
  process,                 \* the birth stamp of the process that has a number, 0 for none
  births,
  runtimes,                \* history: the runtimes launched
  port,                    \* who listens
  lock, guard, instance,   \* the files; a lock and a guard name their launcher
  pc, me, seen, child,     \* a launcher: its next await, its process, the stale lock, its runtime
  locked,                  \* whether acquireMutex gave it the mutex
  outcome,
  lockFaults, guardFaults  \* history: who left its lock, its guard, as a file operation failed

machine == <<process, births, runtimes, port>>
files == <<lock, guard, instance>>
locals == <<me, seen, child, locked, outcome>>
faults == <<lockFaults, guardFaults>>
vars == <<machine, files, pc, locals, faults>>

Stamps == 1..MaxBirths
Process == [pid : Pids, stamp : Stamps]
NoProcess == [pid |-> None, stamp |-> 0]
Acquiring == {"link", "seen", "identity", "guard", "reread", "unlink", "relink", "unguard"}
Recording == {"stamp", "truncate", "write"}
Working == {"instance", "stalePort", "existingPort", "existingStamp", "preflight", "spawn",
            "ready", "readyStamp", "release", "unlinkLock"} \cup Recording

Alive(q) == q # NoProcess /\ process[q.pid] = q.stamp
Running(l) == pc[l] \notin {"idle", "ended", "crashed"}

TypeOK ==
  /\ process \in [Pids -> 0..MaxBirths] /\ births \in 0..MaxBirths
  /\ runtimes \subseteq Process /\ port \in Pids \cup {None}
  /\ lock \in Launchers \cup {None} /\ guard \in Launchers \cup {None}
  /\ instance \in Process \cup {None, Broken}
  /\ pc \in [Launchers -> {"idle", "ended", "crashed"} \cup Acquiring \cup Working]
  /\ me \in [Launchers -> Process \cup {NoProcess}]
  /\ seen \in [Launchers -> Launchers \cup {None}]
  /\ child \in [Launchers -> Process \cup {NoProcess}]
  /\ locked \in [Launchers -> BOOLEAN]
  /\ outcome \in [Launchers -> {"none", "failed", "attached", "launched"}]
  /\ lockFaults \subseteq Launchers /\ guardFaults \subseteq Launchers

Init ==
  /\ process = [p \in Pids |-> 0] /\ births = 0 /\ runtimes = {} /\ port = None
  /\ lock = None /\ guard = None /\ instance = None
  /\ pc = [l \in Launchers |-> "idle"] /\ me = [l \in Launchers |-> NoProcess]
  /\ seen = [l \in Launchers |-> None] /\ child = [l \in Launchers |-> NoProcess]
  /\ locked = [l \in Launchers |-> FALSE] /\ outcome = [l \in Launchers |-> "none"]
  /\ lockFaults = {} /\ guardFaults = {}

-----------------------------------------------------------------------------
(* The operating system. *)

\* A new process takes a number that is free.
Born(p) ==
  /\ process[p] = 0 /\ births < MaxBirths
  /\ births' = births + 1 /\ process' = [process EXCEPT ![p] = births + 1]

\* A process ends; the port it had is free.
Gone(q) ==
  /\ process' = [process EXCEPT ![q.pid] = 0]
  /\ port' = IF port = q.pid THEN None ELSE port
  /\ UNCHANGED <<births, runtimes>>

\* Variant, not the code: a query that fails counts as dead.
Guessed(q) == {"dead", IF Alive(q) THEN "same" ELSE "dead"}

\* processIdentityMatches, with a number that was used again counted as dead.
Identity(q) == {"unknown", IF Alive(q) THEN "same" ELSE "dead"}

\* portState and readProcessBirthStamp answer, or do not.
Answers == BOOLEAN

Goto(l, step) == pc' = [pc EXCEPT ![l] = step]
Fails(l) == Goto(l, "release") /\ outcome' = [outcome EXCEPT ![l] = "failed"]
Ends(l) == Goto(l, "ended") /\ Gone(me[l])      \* its process ends with its launch
Throws(l) == Ends(l) /\ outcome' = [outcome EXCEPT ![l] = "failed"]
LosesLock(l) == lockFaults' = lockFaults \cup {l}
LosesGuard(l) == guardFaults' = guardFaults \cup {l}

-----------------------------------------------------------------------------
(* acquireMutex *)

Start(l) ==
  /\ pc[l] = "idle"
  /\ \E p \in Pids :
       Born(p) /\ me' = [me EXCEPT ![l] = [pid |-> p, stamp |-> births + 1]]
  /\ Goto(l, "link")
  /\ UNCHANGED <<runtimes, port, files, seen, child, locked, outcome, faults>>

\* createMutex: a complete record is linked in, unless there is one.
Publish(l, taken, exists) ==
  IF lock = None
  THEN lock' = l /\ locked' = [locked EXCEPT ![l] = TRUE] /\ Goto(l, taken)
  ELSE UNCHANGED <<lock, locked>> /\ Goto(l, exists)

Link(l) ==
  /\ pc[l] = "link" /\ Publish(l, "instance", "seen")
  /\ UNCHANGED <<machine, guard, instance, me, seen, child, outcome, faults>>

\* When a query or a file fails it, or the mutex or the guard is busy, it gives up.
GiveUp(l) ==
  /\ pc[l] \in {"link", "seen", "identity", "guard"} /\ Throws(l)
  /\ UNCHANGED <<files, me, seen, child, locked, faults>>

ReadLock(l) ==
  /\ pc[l] = "seen" /\ lock # None
  /\ seen' = [seen EXCEPT ![l] = lock] /\ Goto(l, "identity")
  /\ UNCHANGED <<machine, files, me, child, locked, outcome, faults>>

Stale(q) == "dead" \in Identity(q)

IdentifyOwner(l) ==
  /\ pc[l] = "identity" /\ Stale(me[seen[l]]) /\ Goto(l, "guard")
  /\ UNCHANGED <<machine, files, locals, faults>>

\* createReclaimGuard: when the new file cannot be written it stays, and the launch fails.
CreateGuard(l) ==
  /\ pc[l] = "guard" /\ guard = None /\ guard' = l
  /\ \/ Goto(l, "reread") /\ UNCHANGED <<machine, outcome, guardFaults>>
     \/ LosesGuard(l) /\ Throws(l)
  /\ UNCHANGED <<lock, instance, me, seen, child, locked, lockFaults>>

\* Variant, not the code: what was read before the guard still holds.
StillStaleUnread(l) == TRUE

StillStale(l) == lock = seen[l] /\ Stale(me[seen[l]])

\* Under the guard the record is read and its owner is looked for once more.
Reread(l) ==
  /\ pc[l] = "reread"
  /\ \/ StillStale(l) /\ Goto(l, "unlink")
     \/ Goto(l, "unguard")
  /\ UNCHANGED <<machine, files, locals, faults>>

UnlinkStale(l) ==
  /\ pc[l] = "unlink"
  /\ \/ lock' = None /\ Goto(l, IF lock = None THEN "unguard" ELSE "relink")
     \/ UNCHANGED lock /\ Goto(l, "unguard")
  /\ UNCHANGED <<machine, guard, instance, locals, faults>>

Relink(l) ==
  /\ pc[l] = "relink"
  /\ \/ Publish(l, "unguard", "unguard")
     \/ UNCHANGED <<lock, locked>> /\ Goto(l, "unguard")
  /\ UNCHANGED <<machine, guard, instance, me, seen, child, outcome, faults>>

\* reclaim, in the finally block: a guard that cannot be read stays without notice; one
\* that cannot be unlinked stays too, and the throw loses the mutex just published.
Unguard(l) ==
  /\ pc[l] = "unguard"
  /\ \/ /\ \/ guard' = (IF guard = l THEN None ELSE guard) /\ UNCHANGED guardFaults
           \/ UNCHANGED guard /\ LosesGuard(l)
        /\ IF locked[l] THEN Goto(l, "instance") /\ UNCHANGED <<machine, outcome>>
           ELSE Throws(l)
        /\ UNCHANGED lockFaults
     \/ guard = l /\ UNCHANGED guard /\ LosesGuard(l) /\ LosesLock(l) /\ Throws(l)
  /\ UNCHANGED <<lock, instance, me, seen, child, locked>>

-----------------------------------------------------------------------------
(* launchManagedRuntime, with the mutex. *)

\* A record that cannot be read or whose owner cannot be verified blocks the launch.
ReadInstance(l) ==
  /\ pc[l] = "instance"
  /\ \/ instance = None /\ Goto(l, "preflight") /\ UNCHANGED outcome
     \/ /\ instance \notin {None, Broken} /\ "dead" \in Identity(instance)
        /\ Goto(l, "stalePort") /\ UNCHANGED outcome
     \/ /\ instance \notin {None, Broken} /\ "same" \in Identity(instance)
        /\ Goto(l, "existingPort") /\ UNCHANGED outcome
     \/ Fails(l)
  /\ UNCHANGED <<machine, files, me, seen, child, locked, faults>>

\* A stale record that cannot be unlinked stays, and is written over.
StalePort(l) ==
  /\ pc[l] = "stalePort"
  /\ \E answered \in Answers :
       IF answered /\ port = None
       THEN instance' \in {None, instance} /\ Goto(l, "preflight") /\ UNCHANGED outcome
       ELSE Fails(l) /\ UNCHANGED instance
  /\ UNCHANGED <<machine, lock, guard, me, seen, child, locked, faults>>

ExistingPort(l) ==
  /\ pc[l] = "existingPort"
  /\ \E answered \in Answers :
       IF answered /\ port = instance.pid
       THEN Goto(l, "existingStamp") /\ UNCHANGED outcome ELSE Fails(l)
  /\ UNCHANGED <<machine, files, me, seen, child, locked, faults>>

\* Variant, not the code: a number on the port is enough.
ByNumber(q) == TRUE

Verified(q) == Alive(q)

Succeeds(l, how) == Goto(l, "release") /\ outcome' = [outcome EXCEPT ![l] = how]

ExistingStamp(l) ==
  /\ pc[l] = "existingStamp"
  /\ \/ Verified(instance) /\ Succeeds(l, "attached")
     \/ Fails(l)
  /\ UNCHANGED <<machine, files, me, seen, child, locked, faults>>

Preflight(l) ==
  /\ pc[l] = "preflight"
  /\ \E answered \in Answers :
       IF answered /\ port = None THEN Goto(l, "spawn") /\ UNCHANGED outcome ELSE Fails(l)
  /\ UNCHANGED <<machine, files, me, seen, child, locked, faults>>

Spawn(l) ==
  /\ pc[l] = "spawn"
  /\ \/ /\ \E p \in Pids : LET q == [pid |-> p, stamp |-> births + 1] IN
             Born(p) /\ runtimes' = runtimes \cup {q} /\ child' = [child EXCEPT ![l] = q]
        /\ Goto(l, "stamp") /\ UNCHANGED <<port, outcome>>
     \/ Fails(l) /\ UNCHANGED <<machine, child>>
  /\ UNCHANGED <<files, me, seen, locked, faults>>

\* The stamp of the new process is queried, and the query may fail.
StampChild(l) ==
  /\ pc[l] = "stamp"
  /\ \/ Alive(child[l]) /\ Goto(l, "truncate") /\ UNCHANGED outcome
     \/ Fails(l)
  /\ UNCHANGED <<machine, files, me, seen, child, locked, faults>>

\* writeInstanceRecord is not atomic, and either half may fail.
TruncateInstance(l) ==
  /\ pc[l] = "truncate"
  /\ \/ instance' = Broken /\ Goto(l, "write") /\ UNCHANGED outcome
     \/ UNCHANGED instance /\ Fails(l)
  /\ UNCHANGED <<machine, lock, guard, me, seen, child, locked, faults>>

WriteInstance(l) ==
  /\ pc[l] = "write"
  /\ \/ instance' = child[l] /\ Goto(l, "ready") /\ UNCHANGED outcome
     \/ UNCHANGED instance /\ Fails(l)
  /\ UNCHANGED <<machine, lock, guard, me, seen, child, locked, faults>>

\* waitForPortReady, or its time is up, or the port cannot be queried.
WaitReady(l) ==
  /\ pc[l] = "ready"
  /\ \/ port = child[l].pid /\ Goto(l, "readyStamp") /\ UNCHANGED outcome
     \/ Fails(l)
  /\ UNCHANGED <<machine, files, me, seen, child, locked, faults>>

ReadyStamp(l) ==
  /\ pc[l] = "readyStamp"
  /\ \/ Verified(child[l]) /\ Succeeds(l, "launched")
     \/ Fails(l)
  /\ UNCHANGED <<machine, files, me, seen, child, locked, faults>>

-----------------------------------------------------------------------------
(* The release that createMutex returns, in two awaits: a lock that cannot be read *)
(* stays without notice; one that cannot be unlinked fails the launch, done or not. *)

Owned(l) == IF lock = l THEN "unlinkLock" ELSE "ended"

ReadForRelease(l) ==
  /\ pc[l] = "release"
  /\ \/ /\ IF Owned(l) = "ended" THEN Ends(l) ELSE Goto(l, Owned(l)) /\ UNCHANGED machine
        /\ UNCHANGED lockFaults
     \/ Ends(l) /\ LosesLock(l)
  /\ UNCHANGED <<files, locals, guardFaults>>

Release(l) ==
  /\ pc[l] = "unlinkLock"
  /\ \/ lock' = None /\ Ends(l) /\ UNCHANGED <<outcome, lockFaults>>
     \/ UNCHANGED lock /\ LosesLock(l) /\ Throws(l)
  /\ UNCHANGED <<guard, instance, me, seen, child, locked, guardFaults>>

-----------------------------------------------------------------------------
(* What happens to processes. *)

\* A launcher is killed; its files stay.
Crash(l) ==
  /\ Running(l) /\ Goto(l, "crashed") /\ Gone(me[l])
  /\ UNCHANGED <<files, locals, faults>>

Listen(p) ==
  /\ port = None /\ process[p] # 0 /\ \A l \in Launchers : Running(l) => me[l].pid # p
  /\ port' = p /\ UNCHANGED <<process, births, runtimes, files, pc, locals, faults>>

Exit(p) ==
  /\ process[p] # 0 /\ \A l \in Launchers : Running(l) => me[l].pid # p
  /\ Gone([pid |-> p, stamp |-> process[p]]) /\ UNCHANGED <<files, pc, locals, faults>>

\* Some other process starts, perhaps under the number of one that is gone.
Stranger(p) == Born(p) /\ UNCHANGED <<runtimes, port, files, pc, locals, faults>>

Step(l) ==
  \/ Start(l) \/ Link(l) \/ GiveUp(l) \/ ReadLock(l) \/ IdentifyOwner(l) \/ CreateGuard(l)
  \/ Reread(l) \/ UnlinkStale(l) \/ Relink(l) \/ Unguard(l)
  \/ ReadInstance(l) \/ StalePort(l) \/ ExistingPort(l) \/ ExistingStamp(l) \/ Preflight(l)
  \/ Spawn(l) \/ StampChild(l) \/ TruncateInstance(l) \/ WriteInstance(l) \/ WaitReady(l)
  \/ ReadyStamp(l) \/ ReadForRelease(l) \/ Release(l)

Next ==
  \/ \E l \in Launchers : Step(l) \/ Crash(l)
  \/ \E p \in Pids : Listen(p) \/ Exit(p) \/ Stranger(p)

Spec == Init /\ [][Next]_vars

-----------------------------------------------------------------------------
(* What makes it correct. *)

\* The mutex excludes: whoever works under it has its own record on disk, so two
\* never do, whatever stale records were taken over by whom.
MutexHeld == \A l \in Launchers : pc[l] \in Working => lock = l

\* A mutex or a guard that is left behind was left by a death, or by a file operation that
\* failed on its own launcher: refusals, lost races, take-overs and failed launches clean up.
LeftByDeathOrFault ==
  /\ lock # None /\ lock \notin lockFaults => pc[lock] \in Working \cup {"unguard", "crashed"}
  /\ guard # None /\ guard \notin guardFaults =>
       pc[guard] \in {"reread", "unlink", "relink", "unguard", "crashed"}

\* The mutex is held by whoever works under it, and goes with whoever leaves it in good order.
MutexSound == MutexHeld /\ LeftByDeathOrFault

\* The runtimes that live, and those among them that are recorded or about to be.
Living == {q \in runtimes : Alive(q)}
Accounted ==
  {q \in Living : instance = q \/ \E l \in Launchers : child[l] = q /\ pc[l] \in Recording}

\* There is one runtime at a time, unless the launcher of an earlier one stopped
\* before it had recorded it.
OneAccounted == Cardinality(Accounted) <= 1

\* The record of a runtime that lives is never dropped or overwritten: no launcher can
\* come to think that there is none.
RecordKept ==
  [][\A q \in Living : instance = q /\ process'[q.pid] = q.stamp => instance' = q]_vars

\* A launch that succeeds has seen the process it names on the port, alive and recorded.
SuccessIsVerified ==
  [][\A l \in Launchers :
       outcome[l] = "none" /\ outcome'[l] \in {"attached", "launched"} =>
         instance \in Living /\ lock = l]_vars
=============================================================================
