------------------------ MODULE ManagedLauncherProofs ------------------------
(***************************************************************************)
(* What is proved of ManagedLauncher for any launchers, process numbers and *)
(* bound on births.  The mutex excludes because a lock is only unlinked by  *)
(* its owner or by the holder of the guard after it has seen the owner      *)
(* dead, and a dead owner stays dead: birth stamps are never given twice.   *)
(* One invariant carries all of it; each of its parts has a lemma with one  *)
(* step per action.                                                         *)
(***************************************************************************)
EXTENDS ManagedLauncher, FiniteSetTheorems, TLAPS

\* A launcher that records a runtime has one.
Children == \A l \in Launchers : pc[l] \in Recording => child[l] \in Process

\* Stamps are given once, and a launcher that runs is a live process.
Processes ==
  /\ \A p \in Pids : process[p] <= births
  /\ \A l \in Launchers : pc[l] # "idle" => me[l] \in Process /\ me[l].stamp <= births
  /\ \A l, k \in Launchers : l # k /\ pc[l] # "idle" /\ pc[k] # "idle" => me[l].stamp # me[k].stamp
  /\ \A l \in Launchers : Running(l) => Alive(me[l])

\* What a launcher knows of the lock and the guard at each await.
Exclusion ==
  /\ lock # None => locked[lock]
  /\ MutexHeld
  /\ \A l \in Launchers :
       /\ seen[l] # None => pc[seen[l]] # "idle"
       /\ pc[l] \in {"identity", "guard", "reread", "unlink"} => seen[l] \in Launchers
       /\ locked[l] => pc[l] \in Working \cup {"unguard", "ended", "crashed"}
       /\ pc[l] = "unguard" /\ locked[l] => lock = l
       /\ pc[l] \in {"reread", "unlink", "relink", "unguard"} => guard = l
       /\ pc[l] = "unlink" => lock \in Launchers /\ lock = seen[l] /\ ~Alive(me[lock])

\* No runtime lives by the record: there is none, or its process is dead.
Unclaimed == instance = None \/ (instance \notin {None, Broken} /\ ~Alive(instance))

\* What a launcher knows of the instance record at each await.
Records ==
  /\ \A q \in runtimes : q.stamp <= births
  /\ instance \notin {None, Broken} => instance \in runtimes
  /\ \A l \in Launchers :
       /\ pc[l] = "stalePort" => instance \notin {None, Broken} /\ ~Alive(instance)
       /\ pc[l] \in {"existingPort", "existingStamp"} => instance \notin {None, Broken}
       /\ pc[l] \in {"preflight", "spawn", "stamp", "truncate"} => Unclaimed
       /\ pc[l] = "write" => instance = Broken
       /\ pc[l] \in {"ready", "readyStamp"} => instance = child[l]
       /\ pc[l] \in Recording \cup {"ready", "readyStamp"} => child[l] \in runtimes

\* The inductive invariant.
IInv == TypeOK /\ Children /\ Processes /\ Exclusion /\ LeftByDeathOrFault /\ Records

\* The end of a process keeps the types of the machine.
LEMMA GoneTypes ==
  ASSUME TypeOK, NEW q, Gone(q)
  PROVE  /\ process' \in [Pids -> 0..MaxBirths] /\ port' \in Pids \cup {None}
         /\ births' = births /\ runtimes' = runtimes
<1>1. 0 \in 0..MaxBirths
  BY ManagedLauncherAssumption
<1>2. process' \in [Pids -> 0..MaxBirths]
  BY <1>1 DEF Gone, TypeOK
<1>3. port' \in Pids \cup {None}
  BY DEF Gone, TypeOK
<1> QED BY <1>2, <1>3 DEF Gone

\* A launcher that only goes on to its next await leaves Processes as it is.
LEMMA ProcessesKept ==
  ASSUME TypeOK, Processes, UNCHANGED <<process, births, me>>,
         NEW l \in Launchers, Running(l), NEW x, x # "idle", Goto(l, x)
  PROVE  Processes'
<1>1. \A k \in Launchers : k # l => pc'[k] = pc[k]
  BY DEF Goto, TypeOK
<1>2. \A k \in Launchers : Running(k)' => Running(k)
  BY <1>1 DEF Running
<1>3. \A k \in Launchers : pc'[k] # "idle" => pc[k] # "idle"
  BY <1>1 DEF Running
<1>4. \A k \in Launchers : Running(k)' => Alive(me[k])'
  BY <1>2 DEF Processes, Alive
<1> QED BY <1>3, <1>4 DEF Processes

\* Nor does the end of a launcher disturb it: nobody else has its process.
LEMMA ProcessesEnded ==
  ASSUME TypeOK, Processes, UNCHANGED me,
         NEW l \in Launchers, Running(l), NEW x \in {"ended", "crashed"}, Goto(l, x), Gone(me[l])
  PROVE  Processes'
<1>1. \A k \in Launchers : k # l => pc'[k] = pc[k]
  BY DEF Goto, TypeOK
<1>2. pc[l] # "idle" /\ pc'[l] = x
  BY DEF Goto, TypeOK, Running
<1>3. /\ births' = births
      /\ \A p \in Pids : process'[p] = IF p = me[l].pid THEN 0 ELSE process[p]
  BY DEF Gone, TypeOK
<1>4. births \in Nat
  BY ManagedLauncherAssumption DEF TypeOK
<1>5. \A p \in Pids : process'[p] <= births'
  BY <1>3, <1>4 DEF Processes
<1>6. ASSUME NEW k \in Launchers, Running(k)' PROVE Alive(me[k])'
  <2>1. k # l /\ Running(k)
    BY <1>1, <1>2, <1>6 DEF Running
  <2>2. Alive(me[k]) /\ Alive(me[l]) /\ me[k] \in Process /\ me[k].stamp # me[l].stamp
    BY <1>2, <2>1 DEF Processes, Running
  <2>3. me[k].pid # me[l].pid /\ me[k].pid \in Pids
    BY <2>2 DEF Alive, Process
  <2> QED BY <1>3, <2>2, <2>3 DEF Alive
<1>7. \A k \in Launchers : pc'[k] # "idle" => pc[k] # "idle"
  BY <1>1, <1>2
<1> QED BY <1>3, <1>5, <1>6, <1>7 DEF Processes

\* Only the lock, who has it and the next await change when a launcher publishes its record.
LEMMA PublishTypes ==
  ASSUME TypeOK, UNCHANGED <<process, births, runtimes, port, guard, instance>>,
         UNCHANGED <<me, seen, child, outcome, lockFaults, guardFaults>>,
         NEW l \in Launchers, NEW x \in {"instance", "seen", "unguard"},
         pc' = [pc EXCEPT ![l] = x],
         \/ lock' = l /\ locked' = [locked EXCEPT ![l] = TRUE]
         \/ UNCHANGED <<lock, locked>>
  PROVE  TypeOK'
<1>1. pc' \in [Launchers -> {"idle", "ended", "crashed"} \cup Acquiring \cup Working]
  BY DEF TypeOK, Acquiring, Working
<1>2. lock' \in Launchers \cup {None} /\ locked' \in [Launchers -> BOOLEAN]
  BY DEF TypeOK
<1> QED BY <1>1, <1>2 DEF TypeOK

\* Every step keeps the types.
LEMMA StepTypeOK == ASSUME IInv, Next PROVE TypeOK'
<1> USE ManagedLauncherAssumption DEF IInv, machine, files, locals, faults,
      TypeOK, Process, Stamps, NoProcess, Acquiring, Working, Recording, Children
<1>1. ASSUME NEW l \in Launchers, Start(l) PROVE TypeOK'
  BY <1>1 DEF Start, Born, Goto
<1>2. ASSUME NEW l \in Launchers, Link(l) PROVE TypeOK'
  BY <1>2, PublishTypes DEF Link, Publish, Goto
<1>3. ASSUME NEW l \in Launchers, GiveUp(l) PROVE TypeOK'
  BY <1>3, GoneTypes DEF GiveUp, Throws, Ends, Goto
<1>4. ASSUME NEW l \in Launchers, ReadLock(l) PROVE TypeOK'
  BY <1>4 DEF ReadLock, Goto
<1>5. ASSUME NEW l \in Launchers, IdentifyOwner(l) PROVE TypeOK'
  BY <1>5 DEF IdentifyOwner, Goto
<1>6. ASSUME NEW l \in Launchers, CreateGuard(l) PROVE TypeOK'
  BY <1>6 DEF CreateGuard, LosesGuard, Throws, Ends, Gone, Goto
<1>7. ASSUME NEW l \in Launchers, Reread(l) PROVE TypeOK'
  BY <1>7 DEF Reread, StillStale, Stale, Identity, Goto
<1>8. ASSUME NEW l \in Launchers, UnlinkStale(l) PROVE TypeOK'
  BY <1>8 DEF UnlinkStale, Goto
<1>9. ASSUME NEW l \in Launchers, Relink(l) PROVE TypeOK'
  BY <1>9, PublishTypes DEF Relink, Publish, Goto
<1>10. ASSUME NEW l \in Launchers, Unguard(l) PROVE TypeOK'
  BY <1>10, GoneTypes DEF Unguard, LosesLock, LosesGuard, Throws, Ends, Goto
<1>11. ASSUME NEW l \in Launchers, ReadInstance(l) PROVE TypeOK'
  BY <1>11 DEF ReadInstance, Fails, Goto
<1>12. ASSUME NEW l \in Launchers, StalePort(l) PROVE TypeOK'
  BY <1>12 DEF StalePort, Fails, Goto
<1>13. ASSUME NEW l \in Launchers, ExistingPort(l) PROVE TypeOK'
  BY <1>13 DEF ExistingPort, Fails, Goto
<1>14. ASSUME NEW l \in Launchers, ExistingStamp(l) PROVE TypeOK'
  BY <1>14 DEF ExistingStamp, Succeeds, Fails, Goto
<1>15. ASSUME NEW l \in Launchers, Preflight(l) PROVE TypeOK'
  BY <1>15 DEF Preflight, Fails, Goto
<1>16. ASSUME NEW l \in Launchers, Spawn(l) PROVE TypeOK'
  <2>1. CASE Fails(l) /\ UNCHANGED <<machine, child>>
    BY <1>16, <2>1 DEF Spawn, Fails, Goto
  <2>2. CASE ~(Fails(l) /\ UNCHANGED <<machine, child>>)
    <3>1. PICK p \in Pids :
            /\ Born(p) /\ runtimes' = runtimes \cup {[pid |-> p, stamp |-> births + 1]}
            /\ child' = [child EXCEPT ![l] = [pid |-> p, stamp |-> births + 1]]
      BY <1>16, <2>2 DEF Spawn
    <3>2. /\ UNCHANGED <<port, outcome, lock, guard, instance, me, seen, locked>>
          /\ UNCHANGED <<lockFaults, guardFaults>> /\ pc' = [pc EXCEPT ![l] = "stamp"]
      BY <1>16, <2>2 DEF Spawn, Goto
    <3>3. births' = births + 1 /\ births + 1 \in 1..MaxBirths
      BY <3>1 DEF Born
    <3>4. process' \in [Pids -> 0..MaxBirths] /\ births' \in 0..MaxBirths
      BY <3>1, <3>3 DEF Born
    <3>5. runtimes' \subseteq Process /\ child' \in [Launchers -> Process \cup {NoProcess}]
      BY <3>1, <3>3
    <3> QED BY <3>2, <3>4, <3>5
  <2> QED BY <2>1, <2>2
<1>17. ASSUME NEW l \in Launchers, StampChild(l) PROVE TypeOK'
  BY <1>17 DEF StampChild, Fails, Goto
<1>18. ASSUME NEW l \in Launchers, TruncateInstance(l) PROVE TypeOK'
  BY <1>18 DEF TruncateInstance, Fails, Goto
<1>19. ASSUME NEW l \in Launchers, WriteInstance(l) PROVE TypeOK'
  BY <1>19 DEF WriteInstance, Fails, Goto
<1>20. ASSUME NEW l \in Launchers, WaitReady(l) PROVE TypeOK'
  BY <1>20 DEF WaitReady, Fails, Goto
<1>21. ASSUME NEW l \in Launchers, ReadyStamp(l) PROVE TypeOK'
  BY <1>21 DEF ReadyStamp, Succeeds, Fails, Goto
<1>22. ASSUME NEW l \in Launchers, ReadForRelease(l) PROVE TypeOK'
  BY <1>22, GoneTypes DEF ReadForRelease, Owned, LosesLock, Ends, Goto
<1>23. ASSUME NEW l \in Launchers, Release(l) PROVE TypeOK'
  BY <1>23, GoneTypes DEF Release, LosesLock, Throws, Ends, Goto
<1>24. ASSUME NEW l \in Launchers, Crash(l) PROVE TypeOK'
  BY <1>24, GoneTypes DEF Crash, Goto, Running
<1>25. ASSUME NEW p \in Pids, Listen(p) PROVE TypeOK'
  BY <1>25 DEF Listen
<1>26. ASSUME NEW p \in Pids, Exit(p) PROVE TypeOK'
  BY <1>26 DEF Exit, Gone, Running
<1>27. ASSUME NEW p \in Pids, Stranger(p) PROVE TypeOK'
  BY <1>27 DEF Stranger, Born
<1>28. QED  BY <1>1, <1>2, <1>3, <1>4, <1>5, <1>6, <1>7, <1>8, <1>9, <1>10, <1>11, <1>12, <1>13,
    <1>14, <1>15, <1>16, <1>17, <1>18, <1>19, <1>20, <1>21, <1>22, <1>23, <1>24, <1>25, <1>26,
        <1>27 DEF Next, Step

\* Every step keeps a child for each launcher that records one.
LEMMA StepChildren == ASSUME IInv, Next PROVE Children'
<1> USE ManagedLauncherAssumption DEF IInv, machine, files, locals, faults,
      Children, TypeOK, Process, Stamps, NoProcess, Acquiring, Working, Recording
<1>1. ASSUME NEW l \in Launchers, Start(l) PROVE Children'
  BY <1>1 DEF Start, Born, Goto
<1>2. ASSUME NEW l \in Launchers, Link(l) PROVE Children'
  BY <1>2 DEF Link, Publish, Goto
<1>3. ASSUME NEW l \in Launchers, GiveUp(l) PROVE Children'
  BY <1>3 DEF GiveUp, Throws, Ends, Gone, Goto
<1>4. ASSUME NEW l \in Launchers, ReadLock(l) PROVE Children'
  BY <1>4 DEF ReadLock, Goto
<1>5. ASSUME NEW l \in Launchers, IdentifyOwner(l) PROVE Children'
  BY <1>5 DEF IdentifyOwner, Goto
<1>6. ASSUME NEW l \in Launchers, CreateGuard(l) PROVE Children'
  BY <1>6 DEF CreateGuard, LosesGuard, Throws, Ends, Gone, Goto
<1>7. ASSUME NEW l \in Launchers, Reread(l) PROVE Children'
  BY <1>7 DEF Reread, StillStale, Stale, Identity, Goto
<1>8. ASSUME NEW l \in Launchers, UnlinkStale(l) PROVE Children'
  BY <1>8 DEF UnlinkStale, Goto
<1>9. ASSUME NEW l \in Launchers, Relink(l) PROVE Children'
  BY <1>9 DEF Relink, Publish, Goto
<1>10. ASSUME NEW l \in Launchers, Unguard(l) PROVE Children'
  BY <1>10 DEF Unguard, LosesLock, LosesGuard, Throws, Ends, Gone, Goto
<1>11. ASSUME NEW l \in Launchers, ReadInstance(l) PROVE Children'
  BY <1>11 DEF ReadInstance, Fails, Goto
<1>12. ASSUME NEW l \in Launchers, StalePort(l) PROVE Children'
  BY <1>12 DEF StalePort, Fails, Goto
<1>13. ASSUME NEW l \in Launchers, ExistingPort(l) PROVE Children'
  BY <1>13 DEF ExistingPort, Fails, Goto
<1>14. ASSUME NEW l \in Launchers, ExistingStamp(l) PROVE Children'
  BY <1>14 DEF ExistingStamp, Succeeds, Fails, Goto
<1>15. ASSUME NEW l \in Launchers, Preflight(l) PROVE Children'
  BY <1>15 DEF Preflight, Fails, Goto
<1>16. ASSUME NEW l \in Launchers, Spawn(l) PROVE Children'
  BY <1>16 DEF Spawn, Born, Fails, Goto
<1>17. ASSUME NEW l \in Launchers, StampChild(l) PROVE Children'
  BY <1>17 DEF StampChild, Fails, Goto
<1>18. ASSUME NEW l \in Launchers, TruncateInstance(l) PROVE Children'
  BY <1>18 DEF TruncateInstance, Fails, Goto
<1>19. ASSUME NEW l \in Launchers, WriteInstance(l) PROVE Children'
  BY <1>19 DEF WriteInstance, Fails, Goto
<1>20. ASSUME NEW l \in Launchers, WaitReady(l) PROVE Children'
  BY <1>20 DEF WaitReady, Fails, Goto
<1>21. ASSUME NEW l \in Launchers, ReadyStamp(l) PROVE Children'
  BY <1>21 DEF ReadyStamp, Succeeds, Fails, Goto
<1>22. ASSUME NEW l \in Launchers, ReadForRelease(l) PROVE Children'
  BY <1>22 DEF ReadForRelease, Owned, LosesLock, Ends, Gone, Goto
<1>23. ASSUME NEW l \in Launchers, Release(l) PROVE Children'
  BY <1>23 DEF Release, LosesLock, Throws, Ends, Gone, Goto
<1>24. ASSUME NEW l \in Launchers, Crash(l) PROVE Children'
  BY <1>24 DEF Crash, Gone, Goto, Running
<1>25. ASSUME NEW p \in Pids, Listen(p) PROVE Children'
  BY <1>25 DEF Listen
<1>26. ASSUME NEW p \in Pids, Exit(p) PROVE Children'
  BY <1>26 DEF Exit, Gone, Running
<1>27. ASSUME NEW p \in Pids, Stranger(p) PROVE Children'
  BY <1>27 DEF Stranger, Born
<1>28. QED  BY <1>1, <1>2, <1>3, <1>4, <1>5, <1>6, <1>7, <1>8, <1>9, <1>10, <1>11, <1>12, <1>13,
    <1>14, <1>15, <1>16, <1>17, <1>18, <1>19, <1>20, <1>21, <1>22, <1>23, <1>24, <1>25, <1>26,
        <1>27 DEF Next, Step

\* Every step keeps the stamps new and the running launchers alive.
LEMMA StepProcesses == ASSUME IInv, Next PROVE Processes'
<1> USE ManagedLauncherAssumption DEF IInv, machine, files, locals, faults
<1>1. ASSUME NEW l \in Launchers, Start(l) PROVE Processes'
  BY <1>1 DEF Start, Born, Goto, Processes, Running, Alive, TypeOK, NoProcess, Process, Stamps,
      Acquiring, Working, Recording
<1>2. ASSUME NEW l \in Launchers, Link(l) PROVE Processes'
  BY <1>2, ProcessesKept DEF Link, Publish, Running
<1>3. ASSUME NEW l \in Launchers, GiveUp(l) PROVE Processes'
  BY <1>3, ProcessesEnded DEF GiveUp, Throws, Ends, Running
<1>4. ASSUME NEW l \in Launchers, ReadLock(l) PROVE Processes'
  BY <1>4, ProcessesKept DEF ReadLock, Running
<1>5. ASSUME NEW l \in Launchers, IdentifyOwner(l) PROVE Processes'
  BY <1>5, ProcessesKept DEF IdentifyOwner, Running
<1>6. ASSUME NEW l \in Launchers, CreateGuard(l) PROVE Processes'
  <2>1. CASE Throws(l)
    BY <1>6, <2>1, ProcessesEnded DEF CreateGuard, Throws, Ends, Running
  <2>2. CASE ~Throws(l)
    BY <1>6, <2>2, ProcessesKept DEF CreateGuard, Running
  <2> QED BY <2>1, <2>2
<1>7. ASSUME NEW l \in Launchers, Reread(l) PROVE Processes'
  BY <1>7, ProcessesKept DEF Reread, StillStale, Stale, Identity, Running
<1>8. ASSUME NEW l \in Launchers, UnlinkStale(l) PROVE Processes'
  BY <1>8, ProcessesKept DEF UnlinkStale, Running
<1>9. ASSUME NEW l \in Launchers, Relink(l) PROVE Processes'
  BY <1>9, ProcessesKept DEF Relink, Publish, Running
<1>10. ASSUME NEW l \in Launchers, Unguard(l) PROVE Processes'
  <2>1. CASE Throws(l)
    BY <1>10, <2>1, ProcessesEnded DEF Unguard, Throws, Ends, Running
  <2>2. CASE ~Throws(l)
    BY <1>10, <2>2, ProcessesKept DEF Unguard, Running
  <2> QED BY <2>1, <2>2
<1>11. ASSUME NEW l \in Launchers, ReadInstance(l) PROVE Processes'
  BY <1>11, ProcessesKept DEF ReadInstance, Fails, Running
<1>12. ASSUME NEW l \in Launchers, StalePort(l) PROVE Processes'
  BY <1>12, ProcessesKept DEF StalePort, Fails, Running
<1>13. ASSUME NEW l \in Launchers, ExistingPort(l) PROVE Processes'
  BY <1>13, ProcessesKept DEF ExistingPort, Fails, Running
<1>14. ASSUME NEW l \in Launchers, ExistingStamp(l) PROVE Processes'
  BY <1>14, ProcessesKept DEF ExistingStamp, Succeeds, Fails, Running
<1>15. ASSUME NEW l \in Launchers, Preflight(l) PROVE Processes'
  BY <1>15, ProcessesKept DEF Preflight, Fails, Running
<1>16. ASSUME NEW l \in Launchers, Spawn(l) PROVE Processes'
  <2>1. CASE Fails(l) /\ UNCHANGED <<machine, child>>
    BY <1>16, <2>1, ProcessesKept DEF Spawn, Fails, Running
  <2>2. CASE ~(Fails(l) /\ UNCHANGED <<machine, child>>)
    <3>1. PICK p \in Pids : Born(p)
      BY <1>16, <2>2 DEF Spawn
    <3>2. UNCHANGED me /\ Goto(l, "stamp") /\ pc[l] = "spawn"
      BY <1>16, <2>2 DEF Spawn
    <3>3. births' = births + 1 /\ process[p] = 0 /\ births \in Nat /\ process \in [Pids -> Nat]
      BY <3>1 DEF Born, TypeOK
    <3>4. \A r \in Pids : process'[r] = IF r = p THEN births + 1 ELSE process[r]
      BY <3>1, <3>3 DEF Born
    <3>5. \A r \in Pids : process'[r] <= births'
      BY <3>3, <3>4 DEF Processes
    <3>6. \A k \in Launchers : (pc'[k] # "idle" => pc[k] # "idle") /\ (Running(k)' => Running(k))
      BY <3>2 DEF Goto, TypeOK, Running
    <3>7. ASSUME NEW k \in Launchers, pc[k] # "idle" PROVE me[k].stamp <= births'
      <4>1. me[k].stamp \in Nat /\ me[k].stamp <= births
        BY <3>7 DEF Processes, Process, Stamps
      <4> QED BY <4>1, <3>3
    <3>8. ASSUME NEW k \in Launchers, Running(k)' PROVE Alive(me[k])'
      <4>1. Alive(me[k]) /\ me[k] \in Process
        BY <3>6, <3>8 DEF Processes, Running
      <4>2. me[k].stamp # 0 /\ me[k].pid \in Pids
        BY <4>1 DEF Process, Stamps
      <4>3. me[k].pid # p
        BY <4>1, <4>2, <3>3 DEF Alive
      <4> QED BY <4>1, <4>2, <4>3, <3>4, <3>2 DEF Alive
    <3> QED BY <3>2, <3>5, <3>6, <3>7, <3>8 DEF Processes
  <2> QED BY <2>1, <2>2
<1>17. ASSUME NEW l \in Launchers, StampChild(l) PROVE Processes'
  BY <1>17, ProcessesKept DEF StampChild, Fails, Running
<1>18. ASSUME NEW l \in Launchers, TruncateInstance(l) PROVE Processes'
  BY <1>18, ProcessesKept DEF TruncateInstance, Fails, Running
<1>19. ASSUME NEW l \in Launchers, WriteInstance(l) PROVE Processes'
  BY <1>19, ProcessesKept DEF WriteInstance, Fails, Running
<1>20. ASSUME NEW l \in Launchers, WaitReady(l) PROVE Processes'
  BY <1>20, ProcessesKept DEF WaitReady, Fails, Running
<1>21. ASSUME NEW l \in Launchers, ReadyStamp(l) PROVE Processes'
  BY <1>21, ProcessesKept DEF ReadyStamp, Succeeds, Fails, Running
<1>22. ASSUME NEW l \in Launchers, ReadForRelease(l) PROVE Processes'
  <2>1. CASE UNCHANGED machine
    BY <1>22, <2>1, ProcessesKept DEF ReadForRelease, Owned, LosesLock, Running, Ends
  <2>2. CASE Ends(l)
    BY <1>22, <2>2, ProcessesEnded DEF ReadForRelease, Ends, Running
  <2> QED BY <1>22, <2>1, <2>2 DEF ReadForRelease
<1>23. ASSUME NEW l \in Launchers, Release(l) PROVE Processes'
  BY <1>23, ProcessesEnded DEF Release, LosesLock, Throws, Ends, Running
<1>24. ASSUME NEW l \in Launchers, Crash(l) PROVE Processes'
  BY <1>24, ProcessesEnded DEF Crash, Running
<1>25. ASSUME NEW p \in Pids, Listen(p) PROVE Processes'
  BY <1>25 DEF Listen, Processes, Running, Alive, TypeOK, NoProcess, Process, Stamps, Acquiring,
      Working, Recording
<1>26. ASSUME NEW p \in Pids, Exit(p) PROVE Processes'
  BY <1>26 DEF Exit, Gone, Running, Processes, Running, Alive, TypeOK, NoProcess, Process,
      Stamps, Acquiring, Working, Recording
<1>27. ASSUME NEW p \in Pids, Stranger(p) PROVE Processes'
  BY <1>27 DEF Stranger, Born, Processes, Running, Alive, TypeOK, NoProcess, Process, Stamps,
      Acquiring, Working, Recording
<1>28. QED  BY <1>1, <1>2, <1>3, <1>4, <1>5, <1>6, <1>7, <1>8, <1>9, <1>10, <1>11, <1>12, <1>13,
    <1>14, <1>15, <1>16, <1>17, <1>18, <1>19, <1>20, <1>21, <1>22, <1>23, <1>24, <1>25, <1>26,
        <1>27 DEF Next, Step

\* Every step keeps the mutex exclusive; the hard case is the take-over (UnlinkStale).
LEMMA StepExclusion == ASSUME IInv, Next PROVE Exclusion'
<1> USE ManagedLauncherAssumption DEF IInv, machine, files, locals, faults,
      Exclusion, MutexHeld, Processes, Running, Alive, TypeOK, NoProcess, Process, Stamps,
          Acquiring, Working, Recording
<1>1. ASSUME NEW l \in Launchers, Start(l) PROVE Exclusion'
  BY <1>1 DEF Start, Born, Goto
<1>2. ASSUME NEW l \in Launchers, Link(l) PROVE Exclusion'
  BY <1>2 DEF Link, Publish, Goto
<1>3. ASSUME NEW l \in Launchers, GiveUp(l) PROVE Exclusion'
  BY <1>3 DEF GiveUp, Throws, Ends, Gone, Goto
<1>4. ASSUME NEW l \in Launchers, ReadLock(l) PROVE Exclusion'
  <2>1. /\ pc[l] = "seen" /\ lock # None /\ UNCHANGED <<process, lock, guard, me, locked>>
        /\ seen' = [seen EXCEPT ![l] = lock] /\ pc' = [pc EXCEPT ![l] = "identity"]
    BY ONLY <1>4 DEF ReadLock, Goto, machine, files
  <2>2. lock \in Launchers /\ pc[lock] # "idle"
    BY <2>1
  <2> QED BY <2>1, <2>2
<1>5. ASSUME NEW l \in Launchers, IdentifyOwner(l) PROVE Exclusion'
  BY <1>5 DEF IdentifyOwner, Goto
<1>6. ASSUME NEW l \in Launchers, CreateGuard(l) PROVE Exclusion'
  BY <1>6 DEF CreateGuard, LosesGuard, Throws, Ends, Gone, Goto
<1>7. ASSUME NEW l \in Launchers, Reread(l) PROVE Exclusion'
  <2>1. pc[l] = "reread" /\ seen[l] \in Launchers /\ guard = l
    BY <1>7 DEF Reread, Exclusion
  <2>2. \A k \in Launchers : k # l => pc'[k] = pc[k]
    BY <1>7 DEF Reread, Goto, TypeOK
  <2>3. \A k \in Launchers : k # l => pc[k] # "unlink"
    BY <2>1 DEF Exclusion
  <2>4. UNCHANGED <<process, me, lock, guard, seen, locked>>
    BY <1>7 DEF Reread
  <2>5. pc'[l] \in {"unlink", "unguard"}
    BY <1>7 DEF Reread, Goto, TypeOK
  <2>6. pc'[l] = "unlink" => lock = seen[l] /\ ~Alive(me[seen[l]])
    BY <1>7 DEF Reread, Goto, TypeOK, StillStale, Stale, Identity
  <2>7. ~locked[l] /\ pc[l] # "idle"
    BY <2>1 DEF Exclusion, Working, Recording
  <2>8. \A k \in Launchers : pc[k] # "idle" => pc'[k] # "idle"
    BY <2>2, <2>5
  <2>9. MutexHeld'
    BY <2>2, <2>4, <2>5 DEF Exclusion, MutexHeld, Working, Recording
  <2>10. ~Alive(me[seen[l]]) => ~Alive(me[seen[l]])'
    BY <2>4 DEF Alive
  <2> QED BY <2>1, <2>2, <2>3, <2>4, <2>5, <2>6, <2>7, <2>8, <2>9, <2>10 DEF Exclusion, TypeOK
<1>8. ASSUME NEW l \in Launchers, UnlinkStale(l) PROVE Exclusion'
  <2>1. pc[l] = "unlink" /\ lock \in Launchers /\ ~Alive(me[lock]) /\ guard = l
    BY <1>8 DEF UnlinkStale, Exclusion
  <2>2. \A k \in Launchers : k # l => pc'[k] = pc[k]
    BY <1>8 DEF UnlinkStale, Goto, TypeOK
  <2>3. \A k \in Launchers : Running(k) => k # lock
    BY <2>1 DEF Processes
  <2>4. UNCHANGED <<process, me, guard, seen, locked>> /\ lock' \in {None, lock}
    BY <1>8 DEF UnlinkStale
  <2>5. pc'[l] \in {"relink", "unguard"}
    BY <1>8 DEF UnlinkStale, Goto, TypeOK
  <2>6. \A k \in Launchers : pc[k] \notin Working /\ ~(pc[k] = "unguard" /\ locked[k])
    BY <2>3 DEF Exclusion, MutexHeld, Running, Working, Recording
  <2>7. ~locked[l]
    BY <2>1 DEF Exclusion, Working, Recording
  <2>8. \A k \in Launchers : k # l => pc[k] # "unlink"
    BY <2>1 DEF Exclusion
  <2>9. \A k \in Launchers : pc[k] # "idle" => pc'[k] # "idle"
    BY <2>2, <2>5
  <2>10. MutexHeld'
    BY <2>2, <2>5, <2>6 DEF MutexHeld, Working, Recording
  <2> QED BY <2>1, <2>2, <2>4, <2>5, <2>6, <2>7, <2>8, <2>9, <2>10 DEF Exclusion, TypeOK
<1>9. ASSUME NEW l \in Launchers, Relink(l) PROVE Exclusion'
  BY <1>9 DEF Relink, Publish, Goto
<1>10. ASSUME NEW l \in Launchers, Unguard(l) PROVE Exclusion'
  BY <1>10 DEF Unguard, LosesLock, LosesGuard, Throws, Ends, Gone, Goto
<1>11. ASSUME NEW l \in Launchers, ReadInstance(l) PROVE Exclusion'
  BY <1>11 DEF ReadInstance, Fails, Goto
<1>12. ASSUME NEW l \in Launchers, StalePort(l) PROVE Exclusion'
  BY <1>12 DEF StalePort, Fails, Goto
<1>13. ASSUME NEW l \in Launchers, ExistingPort(l) PROVE Exclusion'
  BY <1>13 DEF ExistingPort, Fails, Goto
<1>14. ASSUME NEW l \in Launchers, ExistingStamp(l) PROVE Exclusion'
  BY <1>14 DEF ExistingStamp, Succeeds, Fails, Goto
<1>15. ASSUME NEW l \in Launchers, Preflight(l) PROVE Exclusion'
  BY <1>15 DEF Preflight, Fails, Goto
<1>16. ASSUME NEW l \in Launchers, Spawn(l) PROVE Exclusion'
  BY <1>16 DEF Spawn, Born, Fails, Goto
<1>17. ASSUME NEW l \in Launchers, StampChild(l) PROVE Exclusion'
  BY <1>17 DEF StampChild, Fails, Goto
<1>18. ASSUME NEW l \in Launchers, TruncateInstance(l) PROVE Exclusion'
  BY <1>18 DEF TruncateInstance, Fails, Goto
<1>19. ASSUME NEW l \in Launchers, WriteInstance(l) PROVE Exclusion'
  BY <1>19 DEF WriteInstance, Fails, Goto
<1>20. ASSUME NEW l \in Launchers, WaitReady(l) PROVE Exclusion'
  BY <1>20 DEF WaitReady, Fails, Goto
<1>21. ASSUME NEW l \in Launchers, ReadyStamp(l) PROVE Exclusion'
  BY <1>21 DEF ReadyStamp, Succeeds, Fails, Goto
<1>22. ASSUME NEW l \in Launchers, ReadForRelease(l) PROVE Exclusion'
  <2>1. CASE Ends(l)
    BY <1>22, <2>1 DEF ReadForRelease, Ends, Gone, Goto
  <2>2. CASE ~Ends(l)
    BY <1>22, <2>2 DEF ReadForRelease, Owned, Goto
  <2> QED BY <2>1, <2>2
<1>23. ASSUME NEW l \in Launchers, Release(l) PROVE Exclusion'
  <2>1. CASE lock' = None
    <3>1. pc[l] = "unlinkLock" /\ lock = l /\ Alive(me[l])
      BY <1>23 DEF Release
    <3>2. \A k \in Launchers : k # l => pc'[k] = pc[k]
      BY <1>23 DEF Release, Throws, Ends, Goto
    <3>3. pc'[l] = "ended" /\ UNCHANGED <<seen, locked, me, guard>>
      BY <1>23 DEF Release, Throws, Ends, Goto
    <3>4. \A k \in Launchers : k # l => pc[k] \notin Working \cup {"unlink"}
      BY <3>1
    <3>5. \A k \in Launchers : pc[k] = "unguard" => ~locked[k]
      BY <3>1
    <3> QED BY <2>1, <3>2, <3>3, <3>4, <3>5
  <2>2. CASE lock' = lock
    BY <1>23, <2>2 DEF Release, Throws, Ends, Gone, Goto
  <2> QED BY <1>23, <2>1, <2>2 DEF Release
<1>24. ASSUME NEW l \in Launchers, Crash(l) PROVE Exclusion'
  BY <1>24 DEF Crash, Gone, Goto, Running
<1>25. ASSUME NEW p \in Pids, Listen(p) PROVE Exclusion'
  BY <1>25 DEF Listen
<1>26. ASSUME NEW p \in Pids, Exit(p) PROVE Exclusion'
  BY <1>26 DEF Exit, Gone, Running
<1>27. ASSUME NEW p \in Pids, Stranger(p) PROVE Exclusion'
  BY <1>27 DEF Stranger, Born
<1>28. QED  BY <1>1, <1>2, <1>3, <1>4, <1>5, <1>6, <1>7, <1>8, <1>9, <1>10, <1>11, <1>12, <1>13,
    <1>14, <1>15, <1>16, <1>17, <1>18, <1>19, <1>20, <1>21, <1>22, <1>23, <1>24, <1>25, <1>26,
        <1>27 DEF Next, Step

\* Every step that is not a crash, and no file operation of which fails, takes its
\* launcher's files away with it.
LEMMA StepLeft == ASSUME IInv, Next PROVE LeftByDeathOrFault'
<1> USE ManagedLauncherAssumption DEF IInv, machine, files, locals, faults,
      Exclusion, MutexHeld, LeftByDeathOrFault, TypeOK, Acquiring, Working, Recording
<1>1. ASSUME NEW l \in Launchers, Start(l) PROVE LeftByDeathOrFault'
  BY <1>1 DEF Start, Born, Goto
<1>2. ASSUME NEW l \in Launchers, Link(l) PROVE LeftByDeathOrFault'
  BY <1>2 DEF Link, Publish, Goto
<1>3. ASSUME NEW l \in Launchers, GiveUp(l) PROVE LeftByDeathOrFault'
  BY <1>3 DEF GiveUp, Throws, Ends, Goto, Gone
<1>4. ASSUME NEW l \in Launchers, ReadLock(l) PROVE LeftByDeathOrFault'
  BY <1>4 DEF ReadLock, Goto
<1>5. ASSUME NEW l \in Launchers, IdentifyOwner(l) PROVE LeftByDeathOrFault'
  BY <1>5 DEF IdentifyOwner, Goto
<1>6. ASSUME NEW l \in Launchers, CreateGuard(l) PROVE LeftByDeathOrFault'
  BY <1>6 DEF CreateGuard, LosesGuard, Throws, Ends, Gone, Goto
<1>7. ASSUME NEW l \in Launchers, Reread(l) PROVE LeftByDeathOrFault'
  BY <1>7 DEF Reread, StillStale, Stale, Identity, Goto
<1>8. ASSUME NEW l \in Launchers, UnlinkStale(l) PROVE LeftByDeathOrFault'
  BY <1>8 DEF UnlinkStale, Goto
<1>9. ASSUME NEW l \in Launchers, Relink(l) PROVE LeftByDeathOrFault'
  BY <1>9 DEF Relink, Publish, Goto
<1>10. ASSUME NEW l \in Launchers, Unguard(l) PROVE LeftByDeathOrFault'
  BY <1>10 DEF Unguard, LosesLock, LosesGuard, Throws, Ends, Goto, Gone
<1>11. ASSUME NEW l \in Launchers, ReadInstance(l) PROVE LeftByDeathOrFault'
  BY <1>11 DEF ReadInstance, Fails, Goto
<1>12. ASSUME NEW l \in Launchers, StalePort(l) PROVE LeftByDeathOrFault'
  BY <1>12 DEF StalePort, Fails, Goto
<1>13. ASSUME NEW l \in Launchers, ExistingPort(l) PROVE LeftByDeathOrFault'
  BY <1>13 DEF ExistingPort, Fails, Goto
<1>14. ASSUME NEW l \in Launchers, ExistingStamp(l) PROVE LeftByDeathOrFault'
  BY <1>14 DEF ExistingStamp, Succeeds, Fails, Goto
<1>15. ASSUME NEW l \in Launchers, Preflight(l) PROVE LeftByDeathOrFault'
  BY <1>15 DEF Preflight, Fails, Goto
<1>16. ASSUME NEW l \in Launchers, Spawn(l) PROVE LeftByDeathOrFault'
  BY <1>16 DEF Spawn, Born, Fails, Goto
<1>17. ASSUME NEW l \in Launchers, StampChild(l) PROVE LeftByDeathOrFault'
  BY <1>17 DEF StampChild, Fails, Goto
<1>18. ASSUME NEW l \in Launchers, TruncateInstance(l) PROVE LeftByDeathOrFault'
  BY <1>18 DEF TruncateInstance, Fails, Goto
<1>19. ASSUME NEW l \in Launchers, WriteInstance(l) PROVE LeftByDeathOrFault'
  BY <1>19 DEF WriteInstance, Fails, Goto
<1>20. ASSUME NEW l \in Launchers, WaitReady(l) PROVE LeftByDeathOrFault'
  BY <1>20 DEF WaitReady, Fails, Goto
<1>21. ASSUME NEW l \in Launchers, ReadyStamp(l) PROVE LeftByDeathOrFault'
  BY <1>21 DEF ReadyStamp, Succeeds, Fails, Goto
<1>22. ASSUME NEW l \in Launchers, ReadForRelease(l) PROVE LeftByDeathOrFault'
  BY <1>22 DEF ReadForRelease, Owned, LosesLock, Ends, Goto, Gone
<1>23. ASSUME NEW l \in Launchers, Release(l) PROVE LeftByDeathOrFault'
  BY <1>23 DEF Release, LosesLock, Throws, Ends, Goto, Gone
<1>24. ASSUME NEW l \in Launchers, Crash(l) PROVE LeftByDeathOrFault'
  BY <1>24 DEF Crash, Goto, Running, Gone
<1>25. ASSUME NEW p \in Pids, Listen(p) PROVE LeftByDeathOrFault'
  BY <1>25 DEF Listen
<1>26. ASSUME NEW p \in Pids, Exit(p) PROVE LeftByDeathOrFault'
  BY <1>26 DEF Exit, Gone, Running
<1>27. ASSUME NEW p \in Pids, Stranger(p) PROVE LeftByDeathOrFault'
  BY <1>27 DEF Stranger, Born
<1>28. QED  BY <1>1, <1>2, <1>3, <1>4, <1>5, <1>6, <1>7, <1>8, <1>9, <1>10, <1>11, <1>12, <1>13,
    <1>14, <1>15, <1>16, <1>17, <1>18, <1>19, <1>20, <1>21, <1>22, <1>23, <1>24, <1>25, <1>26,
        <1>27 DEF Next, Step

\* Every step keeps the instance record and the launchers' picture of it in agreement.
LEMMA StepRecords == ASSUME IInv, Next PROVE Records'
<1> USE ManagedLauncherAssumption DEF IInv, machine, files, locals, faults,
      Exclusion, MutexHeld, Records, Unclaimed, Children, Processes, TypeOK, Process, Stamps, Alive,
          Acquiring, Working, Recording
<1>1. ASSUME NEW l \in Launchers, Start(l) PROVE Records'
  BY <1>1 DEF Start, Born, Goto
<1>2. ASSUME NEW l \in Launchers, Link(l) PROVE Records'
  BY <1>2 DEF Link, Publish, Goto
<1>3. ASSUME NEW l \in Launchers, GiveUp(l) PROVE Records'
  BY <1>3 DEF GiveUp, Throws, Ends, Goto, Gone
<1>4. ASSUME NEW l \in Launchers, ReadLock(l) PROVE Records'
  BY <1>4 DEF ReadLock, Goto
<1>5. ASSUME NEW l \in Launchers, IdentifyOwner(l) PROVE Records'
  BY <1>5 DEF IdentifyOwner, Goto
<1>6. ASSUME NEW l \in Launchers, CreateGuard(l) PROVE Records'
  BY <1>6 DEF CreateGuard, LosesGuard, Throws, Ends, Gone, Goto
<1>7. ASSUME NEW l \in Launchers, Reread(l) PROVE Records'
  BY <1>7 DEF Reread, StillStale, Stale, Identity, Goto
<1>8. ASSUME NEW l \in Launchers, UnlinkStale(l) PROVE Records'
  BY <1>8 DEF UnlinkStale, Goto
<1>9. ASSUME NEW l \in Launchers, Relink(l) PROVE Records'
  BY <1>9 DEF Relink, Publish, Goto
<1>10. ASSUME NEW l \in Launchers, Unguard(l) PROVE Records'
  BY <1>10 DEF Unguard, LosesLock, LosesGuard, Throws, Ends, Goto, Gone
<1>11. ASSUME NEW l \in Launchers, ReadInstance(l) PROVE Records'
  BY <1>11 DEF ReadInstance, Fails, Goto, Identity
<1>12. ASSUME NEW l \in Launchers, StalePort(l) PROVE Records'
  BY <1>12 DEF StalePort, Fails, Goto
<1>13. ASSUME NEW l \in Launchers, ExistingPort(l) PROVE Records'
  BY <1>13 DEF ExistingPort, Fails, Goto
<1>14. ASSUME NEW l \in Launchers, ExistingStamp(l) PROVE Records'
  BY <1>14 DEF ExistingStamp, Succeeds, Fails, Goto
<1>15. ASSUME NEW l \in Launchers, Preflight(l) PROVE Records'
  BY <1>15 DEF Preflight, Fails, Goto
<1>16. ASSUME NEW l \in Launchers, Spawn(l) PROVE Records'
  <2>1. CASE Fails(l) /\ UNCHANGED <<machine, child>>
    BY <1>16, <2>1 DEF Spawn, Fails, Goto
  <2>2. CASE ~(Fails(l) /\ UNCHANGED <<machine, child>>)
    BY <1>16, <2>2 DEF Spawn, Born, Goto
  <2> QED BY <2>1, <2>2
<1>17. ASSUME NEW l \in Launchers, StampChild(l) PROVE Records'
  BY <1>17 DEF StampChild, Fails, Goto
<1>18. ASSUME NEW l \in Launchers, TruncateInstance(l) PROVE Records'
  BY <1>18 DEF TruncateInstance, Fails, Goto
<1>19. ASSUME NEW l \in Launchers, WriteInstance(l) PROVE Records'
  BY <1>19 DEF WriteInstance, Fails, Goto
<1>20. ASSUME NEW l \in Launchers, WaitReady(l) PROVE Records'
  BY <1>20 DEF WaitReady, Fails, Goto
<1>21. ASSUME NEW l \in Launchers, ReadyStamp(l) PROVE Records'
  BY <1>21 DEF ReadyStamp, Succeeds, Fails, Goto
<1>22. ASSUME NEW l \in Launchers, ReadForRelease(l) PROVE Records'
  BY <1>22 DEF ReadForRelease, Owned, LosesLock, Ends, Goto, Gone
<1>23. ASSUME NEW l \in Launchers, Release(l) PROVE Records'
  BY <1>23 DEF Release, LosesLock, Throws, Ends, Goto, Gone
<1>24. ASSUME NEW l \in Launchers, Crash(l) PROVE Records'
  BY <1>24 DEF Crash, Goto, Running, Gone
<1>25. ASSUME NEW p \in Pids, Listen(p) PROVE Records'
  BY <1>25 DEF Listen
<1>26. ASSUME NEW p \in Pids, Exit(p) PROVE Records'
  BY <1>26 DEF Exit, Gone, Running
<1>27. ASSUME NEW p \in Pids, Stranger(p) PROVE Records'
  BY <1>27 DEF Stranger, Born
<1>28. QED  BY <1>1, <1>2, <1>3, <1>4, <1>5, <1>6, <1>7, <1>8, <1>9, <1>10, <1>11, <1>12, <1>13,
    <1>14, <1>15, <1>16, <1>17, <1>18, <1>19, <1>20, <1>21, <1>22, <1>23, <1>24, <1>25, <1>26,
        <1>27 DEF Next, Step

\* Before the first launch there is nothing to keep.
LEMMA InitInv == Init => IInv
<1> SUFFICES ASSUME Init PROVE IInv
  OBVIOUS
<1> USE ManagedLauncherAssumption DEF Init
<1>1. TypeOK
  BY DEF TypeOK, Process, NoProcess
<1>2. Children /\ LeftByDeathOrFault
  BY DEF Children, LeftByDeathOrFault, Recording
<1>3. Processes
  BY DEF Processes, Running
<1>4. Exclusion
  BY DEF Exclusion, MutexHeld, Working, Recording
<1>5. Records
  BY DEF Records, Recording
<1> QED BY <1>1, <1>2, <1>3, <1>4, <1>5 DEF IInv

\* A step that changes nothing keeps everything.
LEMMA StutterInv == IInv /\ UNCHANGED vars => IInv'
BY DEF IInv, vars, machine, files, locals, faults, TypeOK, Children, Processes, Exclusion,
       MutexHeld,      LeftByDeathOrFault, Records, Unclaimed, Running, Alive

\* The inductive invariant holds of every behaviour.
THEOREM InvariantHolds == Spec => []IInv
<1>1. IInv /\ [Next]_vars => IInv'
  BY StutterInv, StepTypeOK, StepChildren, StepProcesses, StepExclusion, StepLeft, StepRecords
     DEF IInv
<1> QED BY InitInv, <1>1, PTL DEF Spec

\* TypeOK: the state of the machine, the files and the launchers is well typed.
THEOREM TypeCorrect == Spec => []TypeOK
<1>1. IInv => TypeOK
  BY DEF IInv
<1> QED BY InvariantHolds, <1>1, PTL

\* MutexHeld: whoever works under the mutex has its own record on disk, through every
\* crash, take-over and reuse of a process number (createMutex, acquireMutex).
THEOREM MutexExcludes == Spec => []MutexHeld
<1>1. IInv => MutexHeld
  BY DEF IInv, Exclusion
<1> QED BY InvariantHolds, <1>1, PTL

\* LeftByDeathOrFault: whatever is refused, raced, taken over or fails, a mutex or a guard
\* that is left over is that of a launcher that died or whose own operation on that file
\* failed (createReclaimGuard, the release functions).
THEOREM LeftoversExplained == Spec => []LeftByDeathOrFault
<1>1. IInv => LeftByDeathOrFault
  BY DEF IInv
<1> QED BY InvariantHolds, <1>1, PTL

\* MutexSound: the mutex excludes, and only a death or a failed operation on the file
\* itself leaves it or its guard behind.
THEOREM MutexIsSound == Spec => []MutexSound
<1>1. MutexHeld /\ LeftByDeathOrFault => MutexSound
  BY DEF MutexSound
<1> QED BY MutexExcludes, LeftoversExplained, <1>1, PTL

\* Two runtimes that are accounted for are one: the instance record names one, a launcher
\* that is about to record another has found no record, and the mutex excludes a second.
LEMMA AccountedAreOne ==
  ASSUME IInv, NEW q \in Accounted, NEW r \in Accounted
  PROVE  q = r
<1> USE ManagedLauncherAssumption DEF IInv
<1>1. q \in Process /\ r \in Process /\ {None, Broken} \cap Process = {}
  BY DEF Accounted, Living, TypeOK, Process, Stamps
<1>2. \A l \in Launchers : pc[l] \in Recording => instance \in {None, Broken} \/ ~Alive(instance)
  BY DEF Records, Recording, Unclaimed
<1>3. ASSUME NEW l \in Launchers, NEW k \in Launchers, pc[l] \in Recording, pc[k] \in Recording
      PROVE  l = k
  BY <1>3 DEF Exclusion, MutexHeld, Working
<1>4. Alive(q) /\ Alive(r)
  BY DEF Accounted, Living
<1> QED BY <1>1, <1>2, <1>3, <1>4 DEF Accounted

\* OneAccounted: at most one live runtime is recorded or about to be recorded.
THEOREM OneRuntimeAccounted == Spec => []OneAccounted
<1>1. ASSUME IInv PROVE OneAccounted
  <2>1. CASE Accounted = {}
    BY <2>1, FS_EmptySet DEF OneAccounted
  <2>2. CASE Accounted # {}
    <3>1. PICK q : Accounted = {q}
      BY <1>1, <2>2, AccountedAreOne
    <3> QED BY <3>1, FS_Singleton DEF OneAccounted
  <2> QED BY <2>1, <2>2
<1> QED BY InvariantHolds, <1>1, PTL

\* Only the two verifications let a launch succeed.
LEMMA OnlyVerifyingSucceeds ==
  ASSUME IInv, Next, NEW l \in Launchers, outcome[l] = "none",
         outcome'[l] \in {"attached", "launched"}
  PROVE  ExistingStamp(l) \/ ReadyStamp(l)
<1> USE DEF machine, files, locals
<1>1. outcome \in [Launchers -> {"none", "failed", "attached", "launched"}]
  BY DEF IInv, TypeOK
<1>2. outcome' # outcome
  OBVIOUS
<1>3. \A k \in Launchers : outcome' # [outcome EXCEPT ![k] = "failed"]
  BY <1>1
<1>4. ASSUME NEW k \in Launchers PROVE ~Crash(k)
  BY <1>2 DEF Crash
<1>5. ASSUME NEW p \in Pids PROVE ~Listen(p) /\ ~Exit(p) /\ ~Stranger(p)
  BY <1>2 DEF Listen, Exit, Stranger
<1>6. PICK k \in Launchers : Step(k)
  BY <1>4, <1>5 DEF Next
<1>7. ~Start(k) /\ ~Link(k) /\ ~ReadLock(k) /\ ~IdentifyOwner(k) /\ ~Reread(k)
  BY <1>2 DEF Start, Link, ReadLock, IdentifyOwner, Reread
<1>8. ~UnlinkStale(k) /\ ~Relink(k) /\ ~ReadForRelease(k)
  BY <1>2 DEF UnlinkStale, Relink, ReadForRelease
<1>9. ~GiveUp(k) /\ ~CreateGuard(k) /\ ~Unguard(k) /\ ~Release(k)
  BY <1>2, <1>3 DEF GiveUp, CreateGuard, Unguard, Release, Throws
<1>10. /\ ~ReadInstance(k) /\ ~StalePort(k) /\ ~ExistingPort(k) /\ ~Preflight(k) /\ ~Spawn(k)
       /\ ~StampChild(k) /\ ~TruncateInstance(k) /\ ~WriteInstance(k) /\ ~WaitReady(k)
  BY <1>2, <1>3 DEF ReadInstance, StalePort, ExistingPort, Preflight, Spawn, StampChild,
     TruncateInstance, WriteInstance, WaitReady, Fails
<1>11. ExistingStamp(k) \/ ReadyStamp(k)
  BY <1>6, <1>7, <1>8, <1>9, <1>10 DEF Step
<1>12. ASSUME k # l PROVE FALSE
  <2>1. PICK x : outcome' = [outcome EXCEPT ![k] = x]
    BY <1>11 DEF ExistingStamp, ReadyStamp, Succeeds, Fails
  <2> QED BY <1>1, <1>12, <2>1
<1> QED BY <1>11, <1>12

\* SuccessIsVerified: a launch reports success only under the mutex, with a live process
\* that the instance record names.
THEOREM SuccessVerified == Spec => SuccessIsVerified
<1>1. ASSUME IInv, Next, NEW l \in Launchers, outcome[l] = "none",
             outcome'[l] \in {"attached", "launched"}
      PROVE  instance \in Living /\ lock = l
  <2>1. ExistingStamp(l) \/ ReadyStamp(l)
    BY <1>1, OnlyVerifyingSucceeds
  <2>2. outcome \in [Launchers -> {"none", "failed", "attached",
      "launched"}] /\ Records /\ MutexHeld
    BY <1>1 DEF IInv, TypeOK, Exclusion
  <2>3. ~Fails(l)
    BY <1>1, <2>2 DEF Fails
  <2>4. CASE ExistingStamp(l)
    <3>1. pc[l] = "existingStamp" /\ Verified(instance)
      BY <2>3, <2>4 DEF ExistingStamp
    <3> QED BY <2>2, <3>1 DEF Verified, Living, Records, MutexHeld, Working
  <2>5. CASE ReadyStamp(l)
    <3>1. pc[l] = "readyStamp" /\ Verified(child[l])
      BY <2>3, <2>5 DEF ReadyStamp
    <3> QED BY <2>2, <3>1 DEF Verified, Living, Records, MutexHeld, Working, Recording
  <2> QED BY <2>1, <2>4, <2>5
<1>2. IInv /\ [Next]_vars =>
        [\A l \in Launchers :
           outcome[l] = "none" /\ outcome'[l] \in {"attached", "launched"} =>
             instance \in Living /\ lock = l]_vars
  BY <1>1
<1> QED BY InvariantHolds, <1>2, PTL DEF Spec, SuccessIsVerified

\* RecordKept: the record of a live runtime is never dropped or overwritten.
THEOREM RecordStays == Spec => RecordKept
<1>1. ASSUME IInv, Next, NEW q \in Living, instance = q, process'[q.pid] = q.stamp
      PROVE  instance' = q
  <2> USE ManagedLauncherAssumption DEF IInv
  <2>1. instance \notin {None, Broken} /\ Alive(instance)
    BY <1>1 DEF Living, TypeOK, Process, Stamps
  <2>2. ASSUME NEW l \in Launchers
        PROVE  ~StalePort(l) /\ ~TruncateInstance(l) /\ ~WriteInstance(l)
    <3>1. pc[l] \notin {"stalePort", "truncate", "write"}
      BY <1>1, <2>1 DEF Records, Unclaimed
    <3> QED BY <3>1 DEF StalePort, TruncateInstance, WriteInstance
  <2>3. UNCHANGED instance
    BY <1>1, <2>2 DEF Next, Step, Start, Link, GiveUp, ReadLock, IdentifyOwner,
       CreateGuard, Reread, UnlinkStale, Relink, Unguard, ReadInstance, ExistingPort,
       ExistingStamp, Preflight, Spawn, StampChild, WaitReady, ReadyStamp, ReadForRelease,
       Release, Crash, Listen, Exit, Stranger, files
  <2> QED BY <1>1, <2>3
<1>2. IInv /\ [Next]_vars =>
        [\A q \in Living : instance = q /\ process'[q.pid] = q.stamp => instance' = q]_vars
  BY <1>1
<1> QED BY InvariantHolds, <1>2, PTL DEF Spec, RecordKept
=============================================================================
